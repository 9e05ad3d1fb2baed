-------------------------- MODULE LinkLayer_proofs --------------------------
(***************************************************************************)
(* Proofs about LinkLayer, for every value of the constants, every         *)
(* interleaving of the updates, any number of noisy transmissions and      *)
(* time-outs at any moment.                                                *)
(***************************************************************************)
EXTENDS LinkLayer, SequenceTheorems, FiniteSetTheorems, WellFoundedInduction, TLAPS

-----------------------------------------------------------------------------
(* The ring.                                                               *)

LEMMA SlotIsNat == Slot \subseteq Nat /\ 0 \in Slot
BY SizeAssumption DEF Slot

\* A pointer that passes the end of the ring by less than a round is a slot again.
LEMMA WrapInSlot ==
  ASSUME NEW p \in Nat, p < 2 * MAX_RETRY_BUF
  PROVE  Wrap(p) \in Slot
BY SizeAssumption DEF Wrap, Slot

\* A slot of a span that is not in its first part is in the rest.
LEMMA RestOfSpan ==
  ASSUME NEW i \in Slot, NEW a \in Slot, NEW b \in Slot, NEW c \in Slot,
         InSpan(i, a, b), ~InSpan(i, a, c)
  PROVE  InSpan(i, c, b)
BY SlotIsNat DEF InSpan

\* With RetryRoom for a packet, the write pointer moves on to a slot such that
\* the span grows and then contains the slot the packet is saved in.
LEMMA RoomExtendsSpan ==
  ASSUME NEW m, m.retBufReadP \in Slot, m.retBufWriteP \in Slot,
         NEW lng \in Nat \ {0}, RetryRoom(m, lng),
         NEW i \in Slot,
         InSpan(i, m.retBufReadP, m.retBufWriteP) \/ i = m.retBufWriteP
  PROVE  InSpan(i, m.retBufReadP, Wrap(m.retBufWriteP + lng))
BY SizeAssumption DEF RetryRoom, InSpan, Wrap, Slot

LEMMA RoomInSlot ==
  ASSUME NEW m, m.retBufReadP \in Slot, m.retBufWriteP \in Slot,
         NEW lng \in Nat \ {0}, RetryRoom(m, lng)
  PROVE  Wrap(m.retBufWriteP + lng) \in Slot
BY SizeAssumption DEF RetryRoom, Wrap, Slot

\* The write pointer itself is not in the span it bounds.
LEMMA WriteSlotNotInSpan ==
  ASSUME NEW a \in Slot, NEW b \in Slot
  PROVE  ~InSpan(b, a, b)
BY SlotIsNat DEF InSpan

-----------------------------------------------------------------------------
(* Sequences.                                                              *)

LEMMA FunctionIsSeq ==
  ASSUME NEW S, NEW n \in Nat, NEW f \in [1 .. n -> S]
  PROVE  f \in Seq(S)
BY SeqDef

LEMMA SubSeqType ==
  ASSUME NEW S, NEW s \in Seq(S), NEW m \in Nat \ {0}, NEW n \in Nat, n <= Len(s)
  PROVE  SubSeq(s, m, n) \in Seq(S)
<1>1. \A i \in m .. n : s[i] \in S
  BY ElementOfSeq, LenProperties
<1> QED
  BY <1>1, SubSeqProperties, m \in Int, n \in Int

-----------------------------------------------------------------------------
(* Packets.                                                                *)

LEMMA NewPacketType ==
  ASSUME NEW kind \in {"DATA", "TRET", "PRET", "IRTRY"}, NEW id \in Nat,
         NEW lng \in 1 .. MAX_LINK_BUF
  PROVE  NewPacket(kind, id, lng) \in Packet
BY SlotIsNat, SizeAssumption DEF NewPacket, Packet

LEMMA FlowPacketType ==
  ASSUME NEW kind \in {"DATA", "TRET", "PRET", "IRTRY"}
  PROVE  NewPacket(kind, 0, 1) \in Packet
BY NewPacketType, SizeAssumption

LEMMA PacketFields ==
  ASSUME NEW p \in Packet
  PROVE  /\ p.lng \in Nat \ {0} /\ p.lng \in 1 .. MAX_LINK_BUF
         /\ p.id \in Nat /\ p.rtc \in Nat /\ p.rrp \in Slot
         /\ p.kind # "IRTRY" => p.frp \in Slot
BY SizeAssumption DEF Packet

LEMMA AddTokensType ==
  ASSUME NEW p \in Packet, NEW n \in Nat
  PROVE  [p EXCEPT !.rtc = @ + n] \in Packet
<1>1. p.rtc + n \in Nat
  BY PacketFields
<1> QED
  BY <1>1 DEF Packet

LEMMA FlitsType ==
  ASSUME NEW p \in Packet
  PROVE  Flits(p) \in Seq(Packet \cup {NULL})
<1>1. p.lng - 1 \in Nat
  BY SizeAssumption DEF Packet
<1>2. [i \in 1 .. p.lng - 1 |-> NULL] \in Seq(Packet \cup {NULL})
  BY <1>1, FunctionIsSeq
<1>3. <<p>> \in Seq(Packet \cup {NULL})
  OBVIOUS
<1> QED
  BY <1>2, <1>3, ConcatProperties DEF Flits

LEMMA IRTRYType ==
  ASSUME NEW m \in MasterType, NEW flag \in Nat
  PROVE  IRTRY(m, flag) \in Seq(Packet)
<1> DEFINE p == [NewPacket("IRTRY", 0, 1) EXCEPT !.rrp = m.lastestRRP, !.frp = flag]
<1>1. p \in Packet
  BY FlowPacketType DEF Packet, NewPacket, MasterType
<1>2. [i \in 1 .. NUM_OF_IRTRY |-> p] \in Seq(Packet)
  BY <1>1, SizeAssumption, FunctionIsSeq
<1> QED
  BY <1>2 DEF IRTRY

LEMMA DataFlitsIsNat ==
  ASSUME NEW q \in Seq(Packet \cup {NULL})
  PROVE  DataFlits(q) \in Nat
<1> DEFINE I == {i \in 1 .. Len(q) :
                  \E j \in 1 .. i : q[j] # NULL /\ ~IsFlow(q[j]) /\ i < j + q[j].lng}
<1>1. IsFiniteSet(1 .. Len(q))
  BY FS_Interval, LenProperties
<1>2. IsFiniteSet(I)
  BY <1>1, FS_Subset
<1>3. Cardinality(I) \in Nat
  BY <1>2, FS_CardinalityType
<1> QED
  BY <1>3 DEF DataFlits

-----------------------------------------------------------------------------
(* LinkMaster: every operation keeps the type and the retry buffer's order *)
(* and does not take the exit at LinkMaster.cpp 437.                       *)

RingOK(m) ==
  \A i \in Slot : m.retryBuffers[i] # NULL => InSpan(i, m.retBufReadP, m.retBufWriteP)

MasterOK(m) ==
  /\ m \in MasterType
  /\ RingOK(m)
  /\ m.error # "retry slot is not NULL"

LEMMA FailOK ==
  ASSUME NEW m, MasterOK(m), NEW why \in Error, why # "retry slot is not NULL"
  PROVE  MasterOK(Fail(m, why))
BY DEF MasterOK, RingOK, MasterType, Fail

LEMMA UpdateRetryPointerOK ==
  ASSUME NEW m, MasterOK(m), NEW rrp \in Slot
  PROVE  MasterOK(UpdateRetryPointer(m, rrp))
<1> DEFINE n == UpdateRetryPointer(m, rrp)
<1>1. n \in MasterType
  BY DEF MasterOK, MasterType, UpdateRetryPointer, Freed
<1>2. RingOK(n)
  <2> SUFFICES ASSUME NEW i \in Slot, n.retryBuffers[i] # NULL
               PROVE  InSpan(i, n.retBufReadP, n.retBufWriteP)
    BY DEF RingOK
  <2>1. ~InSpan(i, m.retBufReadP, rrp) /\ m.retryBuffers[i] # NULL
    BY DEF MasterOK, MasterType, UpdateRetryPointer, Freed
  <2>2. InSpan(i, m.retBufReadP, m.retBufWriteP)
    BY <2>1 DEF MasterOK, RingOK
  <2>3. InSpan(i, rrp, m.retBufWriteP)
    BY <2>1, <2>2, RestOfSpan DEF MasterOK, MasterType
  <2> QED
    BY <2>3 DEF MasterOK, MasterType, UpdateRetryPointer
<1> QED
  BY <1>1, <1>2 DEF MasterOK, MasterType, UpdateRetryPointer

LEMMA ReturnRetryPointerOK ==
  ASSUME NEW m, MasterOK(m), NEW p \in Packet, p.frp \in Slot
  PROVE  MasterOK(ReturnRetryPointer(m, p))
<1> DEFINE pret == [NewPacket("PRET", 0, 1) EXCEPT !.rrp = p.frp]
<1>1. pret \in Packet
  BY FlowPacketType DEF Packet, NewPacket
<1>2. Append(m.linkRxTx, pret) \in Seq(Packet)
  BY <1>1, AppendProperties DEF MasterOK, MasterType
<1> QED
  BY <1>2 DEF MasterOK, RingOK, MasterType, ReturnRetryPointer

LEMMA UpdateTokenOK ==
  ASSUME NEW m, MasterOK(m), NEW p \in Packet
  PROVE  MasterOK(UpdateToken(m, p))
<1> DEFINE n == [m EXCEPT !.tokenCount = @ + p.rtc]
<1>1. m.tokenCount + p.rtc \in Int
  <2>1. m.tokenCount \in Int
    BY DEF MasterOK, MasterType
  <2>2. p.rtc \in Int
    BY PacketFields
  <2> QED
    BY <2>1, <2>2
<1>2. MasterOK(n)
  BY <1>1 DEF MasterOK, RingOK, MasterType
<1>3. MasterOK(Fail(n, "token overflow"))
  BY <1>2, FailOK DEF Error
<1> QED
  BY <1>2, <1>3 DEF UpdateToken

\* The elements of a buffer are packets where they are not virtual tails.
LEMMA FirstPacketType ==
  ASSUME NEW q \in Seq(Packet \cup {NULL}), NEW i \in FirstPacket(q)
  PROVE  i \in 1 .. Len(q) /\ q[i] \in Packet
BY ElementOfSeq DEF FirstPacket

LEMMA NewBuffersOK ==
  ASSUME NEW m, MasterOK(m), NEW q \in Seq(Packet \cup {NULL})
  PROVE  /\ MasterOK([m EXCEPT !.Buffers = q])
         /\ MasterOK([m EXCEPT !.backupBuffers = q])
BY DEF MasterOK, RingOK, MasterType

LEMMA ReturnTockenOK ==
  ASSUME NEW m, MasterOK(m), NEW p \in Packet
  PROVE  MasterOK(ReturnTocken(m, p))
<1> DEFINE S == Packet \cup {NULL}
           tret == [NewPacket("TRET", 0, 1) EXCEPT !.rtc = p.lng]
           first == FirstPacket(m.Buffers)
           headLng == Head(m.Buffers).lng
           embedded == [i \in 1 .. Len(m.Buffers) |->
                          IF i \in first THEN [m.Buffers[i] EXCEPT !.rtc = @ + p.lng]
                          ELSE m.Buffers[i]]
           behind == SubSeq(m.Buffers, 1, headLng) \o <<tret>>
                       \o SubSeq(m.Buffers, headLng + 1, Len(m.Buffers))
<1>0. m.Buffers \in Seq(S) /\ m.backupBuffers \in Seq(S) /\ Len(m.Buffers) \in Nat
  BY LenProperties DEF MasterOK, MasterType
<1>1. p.lng \in Nat
  BY SizeAssumption DEF Packet
<1>2. tret \in Packet
  BY <1>1, FlowPacketType DEF Packet, NewPacket
<1>3. MasterOK([m EXCEPT !.Buffers = embedded])
  <2>1. ASSUME NEW i \in 1 .. Len(m.Buffers), i \in first
        PROVE  [m.Buffers[i] EXCEPT !.rtc = @ + p.lng] \in Packet
    <3>1. m.Buffers[i] \in Packet
      BY <1>0, <2>1, FirstPacketType
    <3> QED
      BY <1>1, <3>1, AddTokensType
  <2>2. ASSUME NEW i \in 1 .. Len(m.Buffers)
        PROVE  m.Buffers[i] \in S
    BY <1>0, ElementOfSeq
  <2>3. embedded \in [1 .. Len(m.Buffers) -> S]
    BY <2>1, <2>2
  <2>4. embedded \in Seq(S)
    BY <1>0, <2>3, FunctionIsSeq
  <2> QED
    BY <2>4, NewBuffersOK
<1>4. MasterOK([m EXCEPT !.backupBuffers = Append(@, tret)])
  BY <1>0, <1>2, AppendProperties, NewBuffersOK
<1>5. MasterOK([m EXCEPT !.Buffers = <<tret>> \o @])
  <2>1. <<tret>> \in Seq(S)
    BY <1>2
  <2>2. <<tret>> \o m.Buffers \in Seq(S)
    BY <1>0, <2>1, ConcatProperties
  <2> QED
    BY <2>2, NewBuffersOK
<1>6. CASE 1 \in first /\ headLng <= Len(m.Buffers)
  <2>1. headLng \in Nat \ {0}
    <3>1. m.Buffers[1] \in Packet
      BY <1>0, <1>6, FirstPacketType
    <3>2. headLng = m.Buffers[1].lng
      BY <1>0, HeadTailProperties
    <3> QED
      BY <3>1, <3>2, PacketFields
  <2>2. /\ SubSeq(m.Buffers, 1, headLng) \in Seq(S)
        /\ SubSeq(m.Buffers, headLng + 1, Len(m.Buffers)) \in Seq(S)
    BY <1>0, <1>6, <2>1, SubSeqType
  <2>3. <<tret>> \in Seq(S)
    BY <1>2
  <2>4. behind \in Seq(S)
    BY <2>2, <2>3, ConcatProperties
  <2>5. MasterOK([m EXCEPT !.Buffers = behind])
    BY <2>4, NewBuffersOK
  <2> QED
    BY <1>3, <1>4, <1>5, <1>6, <2>5 DEF ReturnTocken
<1>7. CASE ~(1 \in first /\ headLng <= Len(m.Buffers))
  <2>1. MasterOK(Fail(m, "insertion past the end of Buffers"))
    BY FailOK DEF Error
  <2> QED
    BY <1>3, <1>4, <1>5, <1>7, <2>1 DEF ReturnTocken
<1> QED
  BY <1>6, <1>7

LEMMA StartRetryOK ==
  ASSUME NEW m, MasterOK(m)
  PROVE  MasterOK(StartRetry(m))
<1>1. IRTRY(m, StartRetryFlag) \in Seq(Packet)
  BY IRTRYType DEF MasterOK, StartRetryFlag
<1>2. IRTRY(m, StartRetryFlag) \o m.linkRxTx \in Seq(Packet)
  BY <1>1, ConcatProperties DEF MasterOK, MasterType
<1> QED
  BY <1>2 DEF MasterOK, RingOK, MasterType, StartRetry, LinkState

LEMMA FinishRetryOK ==
  ASSUME NEW m, MasterOK(m)
  PROVE  MasterOK(FinishRetry(m))
BY DEF MasterOK, RingOK, MasterType, FinishRetry, LinkState

LEMMA LinkRetryOK ==
  ASSUME NEW m, MasterOK(m)
  PROVE  MasterOK(LinkRetry(m))
<1> DEFINE S == Packet \cup {NULL}
           n == [m EXCEPT !.startCRC = FALSE,
                          !.linkRxTx = @ \o IRTRY(m, ClearErrorFlag),
                          !.masterSEQ = 0,
                          !.backupBuffers = @ \o m.Buffers,
                          !.Buffers = <<>>]
           f == [n EXCEPT !.Buffers = Saved(m),
                          !.retryBuffers = Freed(@, m.retBufReadP, m.retBufWriteP),
                          !.tokenCount = @ + DataFlits(Saved(m)),
                          !.retBufWriteP = m.retBufReadP,
                          !.currentState = "LINK_RETRY"]
<1>1. /\ m.retBufReadP \in Slot /\ m.retBufWriteP \in Slot
      /\ m.retryBuffers \in [Slot -> S] /\ m.tokenCount \in Int
  BY DEF MasterOK, MasterType
<1>2. m.linkRxTx \o IRTRY(m, ClearErrorFlag) \in Seq(Packet)
  BY IRTRYType, ConcatProperties DEF MasterOK, MasterType, ClearErrorFlag
<1>3. m.backupBuffers \o m.Buffers \in Seq(S)
  BY ConcatProperties DEF MasterOK, MasterType
<1>4. MasterOK(n)
  <2>1. <<>> \in Seq(S) /\ 0 \in 0 .. SEQ_MAX
    BY SizeAssumption
  <2> QED
    BY <1>2, <1>3, <2>1 DEF MasterOK, RingOK, MasterType
<1>5. Saved(m) \in Seq(S)
  <2> DEFINE len == SpanLength(m.retBufReadP, m.retBufWriteP)
  <2>1. len \in Nat /\ len <= MAX_RETRY_BUF
    BY <1>1, SizeAssumption DEF SpanLength, Slot
  <2>2. ASSUME NEW i \in 1 .. len
        PROVE  m.retryBuffers[Wrap(m.retBufReadP + i - 1)] \in S
    <3>1. /\ m.retBufReadP + i - 1 \in Nat
          /\ m.retBufReadP + i - 1 < 2 * MAX_RETRY_BUF
      BY <1>1, <2>1, SizeAssumption DEF Slot
    <3>2. Wrap(m.retBufReadP + i - 1) \in Slot
      BY <3>1, WrapInSlot
    <3> QED
      BY <1>1, <3>2
  <2>3. Saved(m) \in [1 .. len -> S]
    BY <2>2 DEF Saved
  <2> QED
    BY <2>1, <2>3, FunctionIsSeq
<1>6. m.tokenCount + DataFlits(Saved(m)) \in Int
  <2>1. DataFlits(Saved(m)) \in Nat
    BY <1>5, DataFlitsIsNat
  <2> QED
    BY <1>1, <2>1
<1>7. Freed(m.retryBuffers, m.retBufReadP, m.retBufWriteP) \in [Slot -> S]
  BY <1>1 DEF Freed
<1>8. f \in MasterType
  <2>1. /\ n.retryBuffers = m.retryBuffers /\ n.tokenCount = m.tokenCount
        /\ n \in MasterType
    BY <1>4 DEF MasterOK, MasterType
  <2>2. "LINK_RETRY" \in LinkState
    BY DEF LinkState
  <2> HIDE DEF n
  <2> QED
    BY <1>1, <1>5, <1>6, <1>7, <2>1, <2>2 DEF MasterType
<1>9. RingOK(f)
  <2>1. f.retryBuffers = Freed(m.retryBuffers, m.retBufReadP, m.retBufWriteP)
    BY DEF MasterOK, MasterType
  <2>2. \A i \in Slot : f.retryBuffers[i] = NULL
    BY <2>1 DEF MasterOK, RingOK, Freed
  <2> QED
    BY <2>2 DEF RingOK
<1>10. MasterOK(f)
  <2>1. f.error = m.error
    BY DEF MasterOK, MasterType
  <2> QED
    BY <1>8, <1>9, <2>1 DEF MasterOK
<1>11. /\ MasterOK(Fail(n, "first retry packet is NULL"))
       /\ MasterOK(Fail(n, "retry buffer has no packets"))
  BY <1>4, FailOK DEF Error
<1> QED
  BY <1>10, <1>11 DEF LinkRetry

\* The head of a buffer that is not NULL is a packet.
LEMMA HeadType ==
  ASSUME NEW q \in Seq(Packet \cup {NULL}), q # <<>>, Head(q) # NULL
  PROVE  Head(q) \in Packet
BY HeadTailProperties

\* What is left of a buffer when its first packet is taken out.
LEMMA DropType ==
  ASSUME NEW S, NEW q \in Seq(S), NEW n \in Nat
  PROVE  SubSeq(q, n + 1, Len(q)) \in Seq(S)
BY SubSeqType, LenProperties

\* The packet goes into the slot of the write pointer, which RetryRoom keeps
\* apart from the read pointer and RingOK keeps free.
LEMMA UpdateFieldOK ==
  ASSUME NEW m, MasterOK(m), m.Buffers # <<>>, Head(m.Buffers) # NULL,
         RetryRoom(m, Head(m.Buffers).lng)
  PROVE  MasterOK(UpdateField(m))
<1> DEFINE S == Packet \cup {NULL}
           lng == Head(m.Buffers).lng
           w == Wrap(m.retBufWriteP + lng)
           seq == IF m.masterSEQ < SEQ_MAX THEN m.masterSEQ ELSE 0
           p == [Head(m.Buffers) EXCEPT
                   !.seq = seq,
                   !.rrp = m.lastestRRP,
                   !.frp = w,
                   !.bad = FALSE]
           next == IF m.masterSEQ < SEQ_MAX THEN m.masterSEQ + 1 ELSE m.masterSEQ
           tokens == IF IsFlow(p) THEN m.tokenCount ELSE m.tokenCount - lng
           n == [m EXCEPT !.masterSEQ = next, !.startCRC = FALSE, !.tokenCount = tokens]
           tail == {Wrap(m.retBufWriteP + i) : i \in 1 .. lng - 1}
           ring == [i \in Slot |-> IF i = m.retBufWriteP THEN p
                                   ELSE IF i \in tail THEN NULL
                                   ELSE m.retryBuffers[i]]
           f == [n EXCEPT !.retryBuffers = ring,
                          !.retBufWriteP = w,
                          !.linkRxTx = Append(@, p),
                          !.Buffers = SubSeq(@, lng + 1, Len(@))]
<1>1. /\ m.retBufReadP \in Slot /\ m.retBufWriteP \in Slot /\ m.lastestRRP \in Slot
      /\ m.retryBuffers \in [Slot -> S] /\ m.tokenCount \in Int
      /\ m.masterSEQ \in 0 .. SEQ_MAX /\ m.Buffers \in Seq(S) /\ m.linkRxTx \in Seq(Packet)
  BY DEF MasterOK, MasterType
<1>2. Head(m.Buffers) \in Packet
  BY <1>1, HeadType
<1>3. lng \in Nat \ {0}
  BY <1>2, PacketFields
<1>4. w \in Slot
  BY <1>1, <1>3, RoomInSlot
<1>5. p \in Packet
  <2>1. seq \in 0 .. SEQ_MAX
    BY <1>1, SizeAssumption
  <2> HIDE DEF seq, w
  <2>2. w \in Nat
    BY <1>4, SlotIsNat
  <2> QED
    BY <1>1, <1>2, <1>4, <2>1, <2>2 DEF Packet
<1>6. MasterOK(n)
  <2>1. next \in 0 .. SEQ_MAX
    BY <1>1, SizeAssumption
  <2>2. tokens \in Int
    BY <1>1, <1>3
  <2> HIDE DEF next, tokens
  <2> QED
    BY <2>1, <2>2 DEF MasterOK, RingOK, MasterType
<1>7. m.retryBuffers[m.retBufWriteP] = NULL
  BY <1>1, WriteSlotNotInSpan DEF MasterOK, RingOK
<1>8. ring \in [Slot -> S]
  BY <1>1, <1>5
<1>9. Append(m.linkRxTx, p) \in Seq(Packet)
  BY <1>1, <1>5, AppendProperties
<1>10. SubSeq(m.Buffers, lng + 1, Len(m.Buffers)) \in Seq(S)
  BY <1>1, <1>3, DropType
<1>11. f \in MasterType
  <2>1. n.linkRxTx = m.linkRxTx /\ n.Buffers = m.Buffers /\ n \in MasterType
    BY <1>6 DEF MasterOK, MasterType
  <2> HIDE DEF n, p, ring, w, lng
  <2> QED
    BY <1>4, <1>8, <1>9, <1>10, <2>1 DEF MasterType
<1>12. RingOK(f)
  <2> SUFFICES ASSUME NEW i \in Slot, ring[i] # NULL
               PROVE  InSpan(i, m.retBufReadP, w)
    BY <1>6 DEF RingOK, MasterOK, MasterType
  <2>1. i = m.retBufWriteP \/ m.retryBuffers[i] # NULL
    OBVIOUS
  <2>2. i = m.retBufWriteP \/ InSpan(i, m.retBufReadP, m.retBufWriteP)
    BY <2>1 DEF MasterOK, RingOK
  <2> QED
    BY <1>1, <1>3, <2>2, RoomExtendsSpan
<1>13. MasterOK(f)
  BY ZenonT(30), <1>6, <1>11, <1>12 DEF MasterOK, MasterType
<1> QED
  BY <1>7, <1>13 DEF UpdateField

LEMMA SendHeadOK ==
  ASSUME NEW m, MasterOK(m)
  PROVE  MasterOK(SendHead(m))
<1> DEFINE lng == Head(m.Buffers).lng
           c == IF m.startCRC THEN m.countdownCRC ELSE CRC_CAL_CYCLE[lng]
<1>1. CASE m.Buffers = <<>> \/ Head(m.Buffers) = NULL
  <2>1. MasterOK(Fail(m, "Buffers[0] is NULL"))
    BY FailOK DEF Error
  <2> QED
    BY <1>1, <2>1 DEF SendHead
<1>2. CASE m.Buffers # <<>> /\ Head(m.Buffers) # NULL /\ ~RetryRoom(m, lng)
  BY <1>2 DEF SendHead
<1>3. CASE m.Buffers # <<>> /\ Head(m.Buffers) # NULL /\ RetryRoom(m, lng)
  <2>1. lng \in 1 .. MAX_LINK_BUF
    BY <1>3, HeadType, PacketFields DEF MasterOK, MasterType
  <2>2. c \in Nat
    <3>1. m.countdownCRC \in Nat
      BY DEF MasterOK, MasterType
    <3>2. CRC_CAL_CYCLE[lng] \in Nat
      <4> HIDE DEF lng
      <4> QED
        BY <2>1, CRCAssumption
    <3> QED
      BY <3>1, <3>2
  <2>3. c > 0 => MasterOK([m EXCEPT !.startCRC = TRUE, !.countdownCRC = c - 1])
    <3>1. c > 0 => c - 1 \in Nat
      BY <2>2
    <3> HIDE DEF c
    <3> QED
      BY <3>1 DEF MasterOK, RingOK, MasterType
  <2>4. MasterOK(UpdateField(m))
    BY <1>3, UpdateFieldOK
  <2>5. MasterOK([UpdateField(m) EXCEPT !.countdownCRC = 0])
    BY <2>4 DEF MasterOK, RingOK, MasterType
  <2> QED
    BY <1>3, <2>3, <2>5 DEF SendHead, CRCCountdown
<1> QED
  BY <1>1, <1>2, <1>3

LEMMA FinishLinkRetryOK ==
  ASSUME NEW m, MasterOK(m)
  PROVE  MasterOK(FinishLinkRetry(m))
<1> DEFINE n == [m EXCEPT !.Buffers = m.backupBuffers, !.backupBuffers = <<>>]
<1>1. MasterOK(n)
  <2>1. <<>> \in Seq(Packet \cup {NULL})
    OBVIOUS
  <2> QED
    BY <2>1 DEF MasterOK, RingOK, MasterType
<1>2. MasterOK([n EXCEPT !.currentState = "ACTIVE"])
  BY <1>1 DEF MasterOK, RingOK, MasterType, LinkState
<1>3. MasterOK(Fail(m, "retryStartPacket is NULL"))
  BY FailOK DEF Error
<1>4. IRTRY(m, StartRetryFlag) \in Seq(Packet)
  BY IRTRYType DEF MasterOK, StartRetryFlag
<1>5. MasterOK([n EXCEPT !.readyStartRetry = FALSE,
                         !.linkRxTx = IRTRY(m, StartRetryFlag),
                         !.currentState = "START_RETRY"])
  BY <1>1, <1>4 DEF MasterOK, RingOK, MasterType, LinkState
<1> QED
  BY <1>2, <1>3, <1>5 DEF FinishLinkRetry

LEMMA RunRetryTimerOK ==
  ASSUME NEW m, MasterOK(m)
  PROVE  MasterOK(RunRetryTimer(m))
<1> DEFINE t == IF m.startRetryTimer THEN m.retryTimer + 1 ELSE m.retryTimer
           n == [m EXCEPT !.retryTimer = t]
           r == [n EXCEPT !.retryAttempts = @ + 1]
<1>1. MasterOK(n)
  <2>1. m.retryTimer \in Nat
    BY DEF MasterOK, MasterType
  <2>2. t \in Nat
    BY <2>1
  <2> HIDE DEF t
  <2> QED
    BY <2>2 DEF MasterOK, RingOK, MasterType
<1>2. MasterOK(r)
  <2>1. n.retryAttempts \in Nat
    BY <1>1 DEF MasterOK, MasterType
  <2>2. n.retryAttempts + 1 \in Nat
    BY <2>1
  <2> HIDE DEF n
  <2> QED
    BY <1>1, <2>2 DEF MasterOK, RingOK, MasterType
<1> QED
  BY <1>1, <1>2, FinishRetryOK, StartRetryOK DEF RunRetryTimer

-----------------------------------------------------------------------------
(* LinkSlave.                                                              *)

LEMMA RxPacket ==
  ASSUME NEW s \in SlaveType, NEW k \in 1 .. Len(s.linkRxTx)
  PROVE  s.linkRxTx[k] \in Packet
BY ElementOfSeq DEF SlaveType

LEMMA NewRxType ==
  ASSUME NEW s \in SlaveType, NEW q \in Seq(Packet)
  PROVE  [s EXCEPT !.linkRxTx = q] \in SlaveType
BY DEF SlaveType

LEMMA RemoveRxType ==
  ASSUME NEW s \in SlaveType, NEW k \in 1 .. Len(s.linkRxTx)
  PROVE  RemoveRx(s, k) \in SlaveType
<1> DEFINE q == s.linkRxTx
<1>1. q \in Seq(Packet) /\ Len(q) \in Nat
  BY LenProperties DEF SlaveType
<1>2. SubSeq(q, 1, k - 1) \in Seq(Packet)
  BY <1>1, SubSeqType
<1>3. SubSeq(q, k + 1, Len(q)) \in Seq(Packet)
  BY <1>1, DropType
<1>4. SubSeq(q, 1, k - 1) \o SubSeq(q, k + 1, Len(q)) \in Seq(Packet)
  BY <1>2, <1>3, ConcatProperties
<1> QED
  BY <1>4, NewRxType DEF RemoveRx

\* A nonempty set of naturals has a least element.
LEMMA LeastElement ==
  ASSUME NEW S \in SUBSET Nat, S # {}
  PROVE  \E x \in S : \A y \in S : x <= y
<1> DEFINE R == OpToRel(<, Nat)
<1>1. \E x \in S : \A y \in S : <<y, x>> \notin R
  BY NatLessThanWellFounded, WFMin
<1>2. PICK x \in S : \A y \in S : <<y, x>> \notin R
  BY <1>1
<1>3. ASSUME NEW y \in S PROVE x <= y
  <2>1. x \in Nat /\ y \in Nat
    BY <1>2
  <2>2. R = {ss \in Nat \X Nat : ss[1] < ss[2]}
    BY Zenon DEF OpToRel
  <2>3. <<y, x>> \notin R
    BY <1>2
  <2> HIDE DEF R
  <2> QED
    BY <2>1, <2>2, <2>3
<1> QED
  BY <1>3

\* The packets that PassOver looks at for the first time, and the read pointer it
\* has reached when it comes to the j-th of them.
FirstLook(s, k) == {j \in 1 .. k - 1 : ~s.linkRxTx[j].chkRRP}

ReadAt(m, s, k, j) ==
  IF j - 1 \in FirstLook(s, k) THEN s.linkRxTx[j - 1].rrp ELSE m.retBufReadP

LEMMA FirstLookSlots ==
  ASSUME NEW m, MasterOK(m), NEW s \in SlaveType, NEW k \in 1 .. Len(s.linkRxTx) + 1
  PROVE  /\ FirstLook(s, k) \subseteq Nat
         /\ \A j \in FirstLook(s, k) : s.linkRxTx[j].rrp \in Slot
         /\ \A j : ReadAt(m, s, k, j) \in Slot
<1>1. Len(s.linkRxTx) \in Nat
  BY LenProperties DEF SlaveType
<1>2. FirstLook(s, k) \subseteq 1 .. Len(s.linkRxTx) /\ FirstLook(s, k) \subseteq Nat
  BY <1>1 DEF FirstLook
<1>3. \A j \in FirstLook(s, k) : s.linkRxTx[j].rrp \in Slot
  BY <1>2, RxPacket, PacketFields
<1>4. m.retBufReadP \in Slot
  BY DEF MasterOK, MasterType
<1> QED
  BY <1>2, <1>3, <1>4 DEF ReadAt

\* The handler runs the read pointer over the RRPs of the packets it passes one
\* after the other.  A slot that keeps its packet is, at each of them, still
\* between the read pointer and the write pointer: the first RRP after which it
\* were not would have freed the slot.
LEMMA KeptInSpan ==
  ASSUME NEW m, MasterOK(m), NEW s \in SlaveType, NEW k \in 1 .. Len(s.linkRxTx) + 1,
         NEW i \in Slot, m.retryBuffers[i] # NULL,
         \A j \in FirstLook(s, k) : ~InSpan(i, ReadAt(m, s, k, j), s.linkRxTx[j].rrp),
         NEW j \in FirstLook(s, k)
  PROVE  /\ InSpan(i, ReadAt(m, s, k, j), m.retBufWriteP)
         /\ InSpan(i, s.linkRxTx[j].rrp, m.retBufWriteP)
<1> DEFINE w == m.retBufWriteP
           new == FirstLook(s, k)
           from(b) == ReadAt(m, s, k, b)
           B == {b \in new : ~InSpan(i, s.linkRxTx[b].rrp, w)}
<1>1. w \in Slot /\ InSpan(i, m.retBufReadP, w)
  BY DEF MasterOK, MasterType, RingOK
<1>2. /\ new \subseteq Nat /\ \A b \in new : s.linkRxTx[b].rrp \in Slot
      /\ \A b : from(b) \in Slot
  BY FirstLookSlots
<1>3. ASSUME NEW b \in new, b - 1 \notin B PROVE InSpan(i, from(b), w)
  BY <1>1, <1>3 DEF ReadAt
<1>4. B = {}
  <2> SUFFICES ASSUME B # {} PROVE FALSE
    OBVIOUS
  <2>1. B \in SUBSET Nat
    BY <1>2
  <2>2. PICK b \in B : \A c \in B : b <= c
    BY <2>1, LeastElement
  <2>3. b \in new /\ b \in Nat /\ ~InSpan(i, s.linkRxTx[b].rrp, w)
    BY <2>1
  <2>4. b - 1 \notin B
    BY <2>1, <2>2, <2>3
  <2>5. InSpan(i, from(b), w)
    BY <1>3, <2>3, <2>4
  <2> QED
    BY <1>1, <1>2, <2>3, <2>5, RestOfSpan
<1> QED
  BY <1>3, <1>4

LEMMA PassOverOK ==
  ASSUME NEW m, MasterOK(m), NEW s \in SlaveType,
         NEW k \in 1 .. Len(s.linkRxTx) + 1
  PROVE  MasterOK(PassOver(m, s, k).m)
<1> DEFINE new   == FirstLook(s, k)
           freed(i) == \E j \in new : InSpan(i, ReadAt(m, s, k, j), s.linkRxTx[j].rrp)
           ring  == [i \in Slot |-> IF freed(i) THEN NULL ELSE m.retryBuffers[i]]
           readP == IF k - 1 \in new THEN s.linkRxTx[k - 1].rrp ELSE m.retBufReadP
           n == [m EXCEPT !.retryBuffers = ring, !.retBufReadP = readP]
<1>1. /\ m.retBufReadP \in Slot /\ m.retBufWriteP \in Slot
      /\ m.retryBuffers \in [Slot -> Packet \cup {NULL}]
  BY DEF MasterOK, MasterType
<1>2. \A j \in new : s.linkRxTx[j].rrp \in Slot
  BY FirstLookSlots
<1>3. ASSUME NEW i \in Slot, ring[i] # NULL, NEW j \in new
      PROVE  InSpan(i, s.linkRxTx[j].rrp, m.retBufWriteP)
  <2>1. ~freed(i) /\ m.retryBuffers[i] # NULL
    BY <1>3
  <2> QED
    BY <2>1, KeptInSpan
<1>4. readP \in Slot
  BY <1>1, <1>2
<1>5. ring \in [Slot -> Packet \cup {NULL}]
  BY <1>1
<1>6. n \in MasterType
  <2> HIDE DEF ring, readP
  <2> QED
    BY <1>4, <1>5 DEF MasterOK, MasterType
<1>7. RingOK(n)
  <2> SUFFICES ASSUME NEW i \in Slot, ring[i] # NULL
               PROVE  InSpan(i, readP, m.retBufWriteP)
    <3> HIDE DEF ring, readP
    <3> QED
      BY DEF RingOK, MasterOK, MasterType
  <2>1. CASE k - 1 \in new
    BY <1>3, <2>1
  <2>2. CASE k - 1 \notin new
    <3>1. m.retryBuffers[i] # NULL
      OBVIOUS
    <3> QED
      BY <2>2, <3>1 DEF MasterOK, RingOK
  <2> QED
    BY <2>1, <2>2
<1>8. n.error = m.error
  BY DEF MasterOK, MasterType
<1>9. PassOver(m, s, k).m = n
  BY DEF PassOver, FirstLook, ReadAt
<1> HIDE DEF n
<1> QED
  BY <1>6, <1>7, <1>8, <1>9 DEF MasterOK

LEMMA PassOverSlave ==
  ASSUME NEW m, NEW s \in SlaveType, NEW k \in 1 .. Len(s.linkRxTx) + 1
  PROVE  /\ PassOver(m, s, k).s \in SlaveType
         /\ Len(PassOver(m, s, k).s.linkRxTx) = Len(s.linkRxTx)
<1> DEFINE q == s.linkRxTx
           rx == [j \in 1 .. Len(q) |->
                    IF j < k THEN [q[j] EXCEPT !.chkRRP = TRUE] ELSE q[j]]
           c == IF k = 1 THEN s.countdownCRC
                ELSE IF CountdownAt(s, k) > 0 THEN CountdownAt(s, k) ELSE 0
           crc == s.startCRC \/ k > 1
<1>1. Len(q) \in Nat /\ q \in Seq(Packet)
  BY LenProperties DEF SlaveType
<1>2. ASSUME NEW j \in 1 .. Len(q)
      PROVE  q[j] \in Packet /\ [q[j] EXCEPT !.chkRRP = TRUE] \in Packet
  <2>1. q[j] \in Packet
    BY RxPacket
  <2> QED
    BY <2>1 DEF Packet
<1>3. rx \in [1 .. Len(q) -> Packet]
  BY <1>2
<1>4. rx \in Seq(Packet) /\ Len(rx) = Len(q)
  BY <1>1, <1>3, FunctionIsSeq
<1>5. c \in Nat
  <2>1. s.countdownCRC \in Nat
    BY DEF SlaveType
  <2>2. ASSUME k # 1 PROVE CountdownAt(s, k) \in Int
    <3>1. 1 \in 1 .. Len(q)
      BY <1>1, <2>2
    <3>2. q[1].lng \in 1 .. MAX_LINK_BUF
      BY <3>1, RxPacket, PacketFields
    <3>3. CRC_CAL_CYCLE[q[1].lng] \in Nat
      BY <3>2, CRCAssumption
    <3> QED
      BY <2>1, <3>3 DEF CountdownAt
  <2> QED
    BY <2>1, <2>2
<1>6. crc \in BOOLEAN
  OBVIOUS
<1>7. PassOver(m, s, k).s = [s EXCEPT !.linkRxTx = rx, !.startCRC = crc, !.countdownCRC = c]
  BY DEF PassOver
<1> HIDE DEF rx, c, crc
<1> QED
  BY <1>4, <1>5, <1>6, <1>7 DEF SlaveType

\* A slave's buffer holds whole packets, so that it has a packet at its head.
SlaveOK(s) == s \in SlaveType /\ Whole(s.Buffers)

LEMMA FlitsElements ==
  ASSUME NEW p \in Packet
  PROVE  /\ Flits(p) \in Seq(Packet \cup {NULL})
         /\ Len(Flits(p)) = p.lng
         /\ Flits(p)[1] = p
         /\ \A i \in 2 .. p.lng : Flits(p)[i] = NULL
<1> DEFINE tail == [i \in 1 .. p.lng - 1 |-> NULL]
<1>1. p.lng \in Nat \ {0} /\ p.lng - 1 \in Nat
  BY PacketFields
<1>2. tail \in Seq(Packet \cup {NULL})
  BY <1>1, FunctionIsSeq
<1>3. Len(tail) = p.lng - 1
  <2>1. DOMAIN tail = 1 .. p.lng - 1
    OBVIOUS
  <2> HIDE DEF tail
  <2> QED
    BY <1>1, <1>2, <2>1, LenProperties
<1>4. <<p>> \in Seq(Packet \cup {NULL}) /\ Len(<<p>>) = 1 /\ <<p>>[1] = p
  OBVIOUS
<1>5. /\ Len(<<p>> \o tail) = p.lng
      /\ \A i \in 1 .. p.lng : (<<p>> \o tail)[i] = IF i <= 1 THEN <<p>>[i] ELSE tail[i - 1]
  <2> HIDE DEF tail
  <2> QED
    BY <1>1, <1>2, <1>3, <1>4, ConcatProperties
<1>6. \A i \in 2 .. p.lng : tail[i - 1] = NULL
  BY <1>1
<1> QED
  BY <1>1, <1>4, <1>5, <1>6, FlitsType DEF Flits

LEMMA WholeAppend ==
  ASSUME NEW q \in Seq(Packet \cup {NULL}), Whole(q), NEW p \in Packet
  PROVE  /\ q \o Flits(p) \in Seq(Packet \cup {NULL})
         /\ Whole(q \o Flits(p))
<1> DEFINE f == Flits(p)
           r == q \o f
           n == Len(q)
<1>1. p.lng \in Nat \ {0} /\ n \in Nat /\ p # NULL
  BY PacketFields, LenProperties, NullAssumption
<1>2. /\ f \in Seq(Packet \cup {NULL}) /\ Len(f) = p.lng /\ f[1] = p
      /\ \A i \in 2 .. p.lng : f[i] = NULL
  BY FlitsElements
<1>3. /\ r \in Seq(Packet \cup {NULL}) /\ Len(r) = n + p.lng
      /\ \A i \in 1 .. n : r[i] = q[i]
      /\ \A i \in n + 1 .. n + p.lng : r[i] = f[i - n]
  <2> HIDE DEF f
  <2> QED
    BY <1>1, <1>2, ConcatProperties
<1>4. r[n + 1] = p /\ \A i \in n + 2 .. n + p.lng : r[i] = NULL
  <2> HIDE DEF f, r
  <2>1. n + 1 \in n + 1 .. n + p.lng /\ (n + 1) - n = 1
    BY <1>1
  <2>2. r[n + 1] = f[(n + 1) - n]
    BY <1>3, <2>1
  <2>3. ASSUME NEW i \in n + 2 .. n + p.lng PROVE r[i] = NULL
    <3>1. i - n \in 2 .. p.lng /\ i \in n + 1 .. n + p.lng
      BY <1>1
    <3> QED
      BY <1>2, <1>3, <3>1
  <2> QED
    BY <1>2, <2>1, <2>2, <2>3
<1>5. ASSUME NEW i \in 1 .. n, r[i] # NULL
      PROVE  /\ i + r[i].lng - 1 <= Len(r)
             /\ \A j \in i + 1 .. i + r[i].lng - 1 : r[j] = NULL
             /\ i + r[i].lng <= Len(r) => r[i + r[i].lng] # NULL
  <2> DEFINE l == q[i].lng
  <2>1. q[i] \in Packet /\ r[i] = q[i]
    BY <1>3, <1>5, ElementOfSeq
  <2>2. l \in Nat \ {0}
    BY <2>1, PacketFields
  <2>3. /\ i + l - 1 <= n
        /\ \A j \in i + 1 .. i + l - 1 : q[j] = NULL
        /\ i + l <= n => q[i + l] # NULL
    BY <1>5, <2>1 DEF Whole
  <2>4. r[i].lng = l
    BY <2>1
  <2> HIDE DEF f, r, l
  <2>5. i + l - 1 <= Len(r)
    BY <1>1, <1>3, <2>2, <2>3
  <2>6. ASSUME NEW j \in i + 1 .. i + l - 1 PROVE r[j] = NULL
    <3>1. j \in 1 .. n
      BY <1>1, <2>2, <2>3
    <3> QED
      BY <1>3, <2>3, <3>1
  <2>7. r[i + l] # NULL
    <3>1. CASE i + l <= n
      <4>1. i + l \in 1 .. n
        BY <2>2, <3>1
      <4> QED
        BY <1>3, <2>3, <3>1, <4>1
    <3>2. CASE i + l = n + 1
      BY <1>1, <1>4, <3>2
    <3> QED
      BY <1>1, <2>2, <2>3, <3>1, <3>2
  <2> QED
    BY <2>4, <2>5, <2>6, <2>7
<1>6. ASSUME NEW i \in n + 1 .. n + p.lng, r[i] # NULL
      PROVE  i = n + 1
  <2> HIDE DEF f, r
  <2> QED
    BY <1>1, <1>4, <1>6
<1>7. r[1] # NULL
  <2> HIDE DEF f, r
  <2>1. CASE n = 0
    BY <1>1, <1>4, <2>1
  <2>2. CASE n # 0
    <3>1. q[1] # NULL
      BY <1>1, <2>2, EmptySeq DEF Whole
    <3> QED
      BY <1>1, <1>3, <2>2, <3>1
  <2> QED
    BY <2>1, <2>2
<1>8. ASSUME NEW i \in 1 .. Len(r), r[i] # NULL, i \notin 1 .. n
      PROVE  /\ i + r[i].lng - 1 <= Len(r)
             /\ \A j \in i + 1 .. i + r[i].lng - 1 : r[j] = NULL
             /\ ~(i + r[i].lng <= Len(r))
  <2> HIDE DEF f, r
  <2>1. i \in n + 1 .. n + p.lng
    BY <1>1, <1>3, <1>8
  <2>2. i = n + 1 /\ r[i] = p
    BY <1>4, <1>6, <1>8, <2>1
  <2>3. i + p.lng - 1 = n + p.lng /\ i + p.lng > n + p.lng /\ i + 1 = n + 2
    <3> DEFINE l == p.lng
    <3>1. l \in Nat
      BY <1>1
    <3> HIDE DEF l
    <3>2. i + l - 1 = n + l /\ i + l > n + l /\ i + 1 = n + 2
      BY <1>1, <2>2, <3>1
    <3> QED
      BY <3>2 DEF l
  <2>4. i + p.lng - 1 <= Len(r) /\ ~(i + p.lng <= Len(r))
    <3>1. n + p.lng \in Nat /\ i + p.lng \in Nat
      BY <1>1, <2>2
    <3> QED
      BY <1>3, <2>3, <3>1
  <2>5. \A j \in i + 1 .. i + p.lng - 1 : r[j] = NULL
    BY <1>4, <2>3
  <2> QED
    BY <2>2, <2>4, <2>5
<1>9. Whole(r)
  <2> HIDE DEF f, r
  <2> QED
    BY <1>5, <1>7, <1>8 DEF Whole
<1> QED
  BY <1>3, <1>9

LEMMA WholeDrop ==
  ASSUME NEW q \in Seq(Packet \cup {NULL}), Whole(q), q # <<>>
  PROVE  /\ Head(q) \in Packet
         /\ SubSeq(q, Head(q).lng + 1, Len(q)) \in Seq(Packet \cup {NULL})
         /\ Whole(SubSeq(q, Head(q).lng + 1, Len(q)))
<1> DEFINE l == Head(q).lng
           r == SubSeq(q, l + 1, Len(q))
<1>1. Head(q) = q[1] /\ Len(q) \in Nat \ {0}
  BY EmptySeq
<1>2. Head(q) \in Packet
  <2>1. q[1] # NULL
    BY DEF Whole
  <2> QED
    BY <1>1, <2>1, HeadType
<1>3. l \in Nat \ {0}
  BY <1>2, PacketFields
<1>4. l <= Len(q) /\ (l + 1 <= Len(q) => q[l + 1] # NULL)
  <2>1. /\ 1 + q[1].lng - 1 <= Len(q)
        /\ 1 + q[1].lng <= Len(q) => q[1 + q[1].lng] # NULL
    <3>1. 1 \in 1 .. Len(q) /\ q[1] # NULL
      BY <1>1 DEF Whole
    <3> QED
      BY <3>1 DEF Whole
  <2>2. q[1].lng = l
    BY <1>1
  <2> HIDE DEF l
  <2>3. 1 + l = l + 1 /\ 1 + l - 1 = l
    BY <1>3
  <2> QED
    BY <2>1, <2>2, <2>3
<1>5. r \in Seq(Packet \cup {NULL})
  BY <1>3, DropType
<1>6. /\ Len(r) = Len(q) - l
      /\ \A i \in 1 .. Len(q) - l : r[i] = q[l + i]
  <2> HIDE DEF l
  <2>1. \A i \in l + 1 .. Len(q) : q[i] \in Packet \cup {NULL}
    BY <1>3, ElementOfSeq
  <2> QED
    BY <1>1, <1>3, <1>4, <2>1, SubSeqProperties
<1>7. ASSUME NEW i \in 1 .. Len(r), r[i] # NULL
      PROVE  /\ i + r[i].lng - 1 <= Len(r)
             /\ \A j \in i + 1 .. i + r[i].lng - 1 : r[j] = NULL
             /\ i + r[i].lng <= Len(r) => r[i + r[i].lng] # NULL
  <2> DEFINE k == r[i].lng
  <2>1. r[i] \in Packet
    BY <1>5, <1>7, ElementOfSeq
  <2>2. k \in Nat \ {0}
    BY <2>1, PacketFields
  <2> HIDE DEF l, r, k
  <2>3. l + i \in 1 .. Len(q) /\ q[l + i] = r[i]
    BY <1>1, <1>3, <1>4, <1>6
  <2>4. /\ (l + i) + k - 1 <= Len(q)
        /\ \A j \in (l + i) + 1 .. (l + i) + k - 1 : q[j] = NULL
        /\ (l + i) + k <= Len(q) => q[(l + i) + k] # NULL
    BY <1>7, <2>3 DEF Whole, k
  <2>5. i + k - 1 <= Len(r)
    BY <1>1, <1>3, <1>6, <2>2, <2>4
  <2>6. ASSUME NEW j \in i + 1 .. i + k - 1 PROVE r[j] = NULL
    BY <1>1, <1>3, <1>6, <2>2, <2>4, <2>5
  <2>7. ASSUME i + k <= Len(r) PROVE r[i + k] # NULL
    <3>1. r[i + k] = q[l + (i + k)]
      BY <1>1, <1>3, <1>4, <1>6, <2>2, <2>7
    <3>2. (l + i) + k <= Len(q) /\ (l + i) + k = l + (i + k)
      BY <1>1, <1>3, <1>6, <2>2, <2>7
    <3> QED
      BY <2>4, <3>1, <3>2
  <2> QED
    BY <2>5, <2>6, <2>7 DEF k
<1>8. Whole(r)
  <2>1. r # <<>> => r[1] # NULL
    <3> HIDE DEF l, r
    <3>1. r # <<>> => Len(r) \in Nat \ {0}
      BY <1>5, EmptySeq
    <3> QED
      BY <1>1, <1>3, <1>4, <1>6, <3>1
  <2> HIDE DEF l, r
  <2> QED
    BY <1>7, <2>1 DEF Whole
<1> QED
  BY <1>2, <1>5, <1>8

-----------------------------------------------------------------------------
(* LinkSlave::Update.                                                      *)

ResultOK(r) == MasterOK(r.m) /\ SlaveOK(r.s)

LEMMA RemoveRxOK ==
  ASSUME NEW s, SlaveOK(s), NEW k \in 1 .. Len(s.linkRxTx)
  PROVE  SlaveOK(RemoveRx(s, k)) /\ RemoveRx(s, k).Buffers = s.Buffers
BY RemoveRxType DEF SlaveOK, SlaveType, RemoveRx

LEMMA ReceiveIRTRYOK ==
  ASSUME NEW m, MasterOK(m), NEW s, SlaveOK(s), NEW k \in 1 .. Len(s.linkRxTx)
  PROVE  ResultOK(ReceiveIRTRY(m, s, k))
<1> DEFINE n == UpdateRetryPointer(m, s.linkRxTx[k].rrp)
           rest == RemoveRx(s, k)
           active == [rest EXCEPT !.currentState = "ACTIVE", !.slaveSEQ = 0]
<1>1. MasterOK(n)
  BY RxPacket, PacketFields, UpdateRetryPointerOK DEF SlaveOK
<1>2. SlaveOK(rest)
  BY RemoveRxOK
<1>3. SlaveOK(active)
  <2>1. 0 \in 0 .. SEQ_MAX
    BY SizeAssumption
  <2> HIDE DEF rest
  <2> QED
    BY <1>2, <2>1 DEF SlaveOK, SlaveType
<1>4. MasterOK(LinkRetry(n)) /\ MasterOK(FinishRetry(n))
  BY <1>1, LinkRetryOK, FinishRetryOK
<1> HIDE DEF n, rest
<1> QED
  BY <1>1, <1>2, <1>3, <1>4 DEF ResultOK, ReceiveIRTRY, n, rest

LEMMA ReceiveOK ==
  ASSUME NEW m, MasterOK(m), NEW s, SlaveOK(s), NEW p \in Packet
  PROVE  ResultOK(Receive(m, s, p))
<1> DEFINE q == s.Buffers \o Flits(p)
           t == [s EXCEPT !.Buffers = q]
<1>1. s.Buffers \in Seq(Packet \cup {NULL}) /\ Whole(s.Buffers)
  BY DEF SlaveOK, SlaveType
<1>2. q \in Seq(Packet \cup {NULL}) /\ Whole(q)
  BY <1>1, WholeAppend
<1>3. t.Buffers = q /\ t \in SlaveType
  <2> HIDE DEF q
  <2> QED
    BY <1>2 DEF SlaveOK, SlaveType
<1>4. SlaveOK(t)
  <2> HIDE DEF t
  <2> QED
    BY <1>2, <1>3 DEF SlaveOK
<1>5. MasterOK(Fail(m, "link slave buffer is FULL"))
  BY FailOK DEF Error
<1> QED
  BY <1>4, <1>5 DEF ResultOK, Receive

LEMMA CheckPacketOK ==
  ASSUME NEW m, MasterOK(m), NEW s, SlaveOK(s), NEW k \in 1 .. Len(s.linkRxTx),
         s.linkRxTx[k].kind # "IRTRY"
  PROVE  ResultOK(CheckPacket(m, s, k))
<1> DEFINE p == s.linkRxTx[k]
           m1 == IF p.chkRRP THEN m ELSE UpdateRetryPointer(m, p.rrp)
           seq == IF s.slaveSEQ < SEQ_MAX THEN s.slaveSEQ + 1 ELSE s.slaveSEQ
           s1 == [CountSEQ(s) EXCEPT !.startCRC = CRC_CHECK, !.countdownCRC = 0]
           good == UpdateToken(ReturnRetryPointer(m1, p), p)
           m2 == IF m1.retryStartPacket THEN Fail(m1, "retryStartPacket is NOT NULL")
                 ELSE [m1 EXCEPT !.retryStartPacket = TRUE]
           s2 == [s1 EXCEPT !.linkRxTx = <<>>, !.currentState = "START_RETRY",
                            !.startCRC = FALSE]
<1>1. p \in Packet /\ p.rrp \in Slot /\ p.frp \in Slot
  BY RxPacket, PacketFields DEF SlaveOK
<1>2. MasterOK(m1)
  BY <1>1, UpdateRetryPointerOK
<1>3. MasterOK(good)
  <2> HIDE DEF m1, p
  <2> QED
    BY <1>1, <1>2, ReturnRetryPointerOK, UpdateTokenOK
<1>4. MasterOK(StartRetry(m2))
  <2> HIDE DEF m1
  <2>1. MasterOK(Fail(m1, "retryStartPacket is NOT NULL"))
    BY <1>2, FailOK DEF Error
  <2>2. MasterOK([m1 EXCEPT !.retryStartPacket = TRUE])
    BY <1>2 DEF MasterOK, RingOK, MasterType
  <2> QED
    BY <2>1, <2>2, StartRetryOK
<1>5. SlaveOK(s1) /\ s1.linkRxTx = s.linkRxTx
  <2>1. seq \in 0 .. SEQ_MAX
    <3>1. s.slaveSEQ \in 0 .. SEQ_MAX
      BY DEF SlaveOK, SlaveType
    <3> QED
      BY <3>1, SizeAssumption
  <2>2. CountSEQ(s) = [s EXCEPT !.slaveSEQ = seq]
    BY DEF CountSEQ
  <2> HIDE DEF seq
  <2>3. SlaveOK(CountSEQ(s)) /\ CountSEQ(s).linkRxTx = s.linkRxTx
    BY <2>1, <2>2 DEF SlaveOK, SlaveType
  <2>4. CRC_CHECK \in BOOLEAN
    BY SizeAssumption
  <2> QED
    BY <2>3, <2>4 DEF SlaveOK, SlaveType
<1>6. SlaveOK(s2)
  <2>1. <<>> \in Seq(Packet)
    OBVIOUS
  <2> HIDE DEF s1
  <2> QED
    BY <1>5, <2>1 DEF SlaveOK, SlaveType
<1>7. SlaveOK(RemoveRx(s1, k))
  <2> HIDE DEF s1
  <2> QED
    BY <1>5, RemoveRxOK
<1>8. ResultOK(Receive(good, RemoveRx(s1, k), p))
  <2> HIDE DEF s1, good, p
  <2> QED
    BY <1>1, <1>3, <1>7, ReceiveOK
<1>9. CheckPacket(m, s, k) =
        IF ~CheckNoError(s, p) THEN [m |-> StartRetry(m2), s |-> s2]
        ELSE IF p.kind = "TRET" THEN [m |-> good, s |-> RemoveRx(s1, k)]
        ELSE Receive(good, RemoveRx(s1, k), p)
  BY DEF CheckPacket
<1> HIDE DEF p, m2, s2, s1, good
<1> QED
  BY <1>3, <1>4, <1>6, <1>7, <1>8, <1>9 DEF ResultOK

LEMMA ProcessOK ==
  ASSUME NEW m, MasterOK(m), NEW s, SlaveOK(s), NEW k \in 1 .. Len(s.linkRxTx) + 1
  PROVE  ResultOK(Process(m, s, k))
<1>1. CASE k > Len(s.linkRxTx)
  BY <1>1 DEF Process, ResultOK
<1>2. CASE ~(k > Len(s.linkRxTx))
  <2>1. k \in 1 .. Len(s.linkRxTx)
    BY <1>2, LenProperties DEF SlaveOK, SlaveType
  <2>2. SlaveOK(RemoveRx(s, k))
    BY <2>1, RemoveRxOK
  <2>3. MasterOK(UpdateRetryPointer(m, s.linkRxTx[k].rrp))
    BY <2>1, RxPacket, PacketFields, UpdateRetryPointerOK DEF SlaveOK
  <2>4. CASE s.linkRxTx[k].kind = "IRTRY"
    BY <1>2, <2>1, <2>4, ReceiveIRTRYOK DEF Process
  <2>5. CASE s.linkRxTx[k].kind # "IRTRY"
    <3>1. ResultOK(CheckPacket(m, s, k))
      BY <2>1, <2>5, CheckPacketOK
    <3>2. ResultOK([m |-> m, s |-> RemoveRx(s, k)])
      BY <2>2 DEF ResultOK
    <3>3. ResultOK([m |-> UpdateRetryPointer(m, s.linkRxTx[k].rrp), s |-> RemoveRx(s, k)])
      BY <2>2, <2>3 DEF ResultOK
    <3> QED
      BY <1>2, <2>5, <3>1, <3>2, <3>3 DEF Process
  <2> QED
    BY <2>4, <2>5
<1> QED
  BY <1>1, <1>2

LEMMA ReceivingOK ==
  ASSUME NEW m, MasterOK(m), NEW s, SlaveOK(s), NEW k \in 1 .. Len(s.linkRxTx) + 1
  PROVE  ResultOK(Receiving(m, s, k))
<1> DEFINE r == PassOver(m, s, k)
<1>1. MasterOK(r.m)
  BY PassOverOK DEF SlaveOK
<1>2. r.s \in SlaveType /\ Len(r.s.linkRxTx) = Len(s.linkRxTx)
  BY PassOverSlave DEF SlaveOK
<1>3. r.s.Buffers = s.Buffers
  BY DEF PassOver, SlaveOK, SlaveType
<1> HIDE DEF r
<1>4. SlaveOK(r.s)
  BY <1>2, <1>3 DEF SlaveOK
<1>5. ResultOK(Process(r.m, r.s, k))
  BY <1>1, <1>2, <1>4, ProcessOK
<1> QED
  BY <1>5 DEF Receiving, r

LEMMA ForwardingOK ==
  ASSUME NEW m, MasterOK(m), NEW s, SlaveOK(s), s.Buffers # <<>>
  PROVE  ResultOK(Forwarding(m, s)) /\ Head(s.Buffers).id \in Nat
<1> DEFINE p == Head(s.Buffers)
           q == SubSeq(s.Buffers, p.lng + 1, Len(s.Buffers))
           t == [s EXCEPT !.Buffers = q]
<1>1. s.Buffers \in Seq(Packet \cup {NULL}) /\ Whole(s.Buffers)
  BY DEF SlaveOK, SlaveType
<1>2. p \in Packet /\ q \in Seq(Packet \cup {NULL}) /\ Whole(q)
  BY <1>1, WholeDrop
<1>3. MasterOK(ReturnTocken(m, p))
  BY <1>2, ReturnTockenOK
<1>4. t.Buffers = q /\ t \in SlaveType
  <2> HIDE DEF q
  <2> QED
    BY <1>2 DEF SlaveOK, SlaveType
<1>5. SlaveOK(t)
  <2> HIDE DEF t
  <2> QED
    BY <1>2, <1>4 DEF SlaveOK
<1>6. p.id \in Nat
  BY <1>2, PacketFields
<1> QED
  BY <1>3, <1>5, <1>6 DEF Forwarding, ResultOK

-----------------------------------------------------------------------------
(* The inductive invariant.  TypeOK alone is not inductive: a forwarded    *)
(* packet is a packet because slave buffers hold whole packets, and the    *)
(* slot of a new packet is free because the ring is in order.              *)

IInv ==
  /\ TypeOK
  /\ \A e \in End : MasterOK(master[e]) /\ SlaveOK(slave[e])

LEMMA InitMasterOK == MasterOK(InitMaster)
<1>1. InitMaster \in MasterType
  <2>1. /\ <<>> \in Seq(Packet \cup {NULL}) /\ <<>> \in Seq(Packet)
        /\ [i \in Slot |-> NULL] \in [Slot -> Packet \cup {NULL}]
    OBVIOUS
  <2>2. MAX_LINK_BUF \in Int /\ 0 \in Slot /\ 0 \in 0 .. SEQ_MAX
    BY SlotIsNat, SizeAssumption
  <2> QED
    BY <2>1, <2>2 DEF InitMaster, MasterType, LinkState, Error
<1> QED
  BY <1>1 DEF MasterOK, RingOK, InitMaster

LEMMA InitSlaveOK == SlaveOK(InitSlave)
<1>1. /\ <<>> \in Seq(Packet \cup {NULL}) /\ <<>> \in Seq(Packet)
      /\ 0 \in 0 .. SEQ_MAX
  BY SizeAssumption
<1>2. Len(<<>>) = 0
  OBVIOUS
<1> QED
  BY <1>1, <1>2 DEF InitSlave, SlaveOK, SlaveType, Whole

LEMMA InitIInv == LinkInit => IInv
<1> SUFFICES ASSUME LinkInit PROVE IInv
  OBVIOUS
<1>1. \A e \in End : MasterOK(master[e]) /\ SlaveOK(slave[e])
  BY InitMasterOK, InitSlaveOK DEF LinkInit
<1>2. /\ master \in [End -> MasterType] /\ slave \in [End -> SlaveType]
  BY InitMasterOK, InitSlaveOK DEF LinkInit, MasterOK, SlaveOK
<1>3. TypeOK
  BY <1>2 DEF TypeOK, LinkInit
<1> QED
  BY <1>1, <1>3 DEF IInv

\* A step that changes one end's master, slave or neither, and nothing else that
\* the invariant is about.
LEMMA MasterStep ==
  ASSUME IInv, NEW e \in End, NEW m, MasterOK(m),
         master' = [master EXCEPT ![e] = m]
  PROVE  /\ master' \in [End -> MasterType]
         /\ \A f \in End : MasterOK(master'[f])
<1>1. m \in MasterType
  BY DEF MasterOK
<1> QED
  BY <1>1 DEF IInv, TypeOK

LEMMA SlaveStep ==
  ASSUME IInv, NEW e \in End, NEW s, SlaveOK(s),
         slave' = [slave EXCEPT ![e] = s]
  PROVE  /\ slave' \in [End -> SlaveType]
         /\ \A f \in End : SlaveOK(slave'[f])
<1>1. s \in SlaveType
  BY DEF SlaveOK
<1> QED
  BY <1>1 DEF IInv, TypeOK

LEMMA SubmitStep ==
  ASSUME IInv, NEW e \in End, Submit(e)
  PROVE  IInv'
<1> DEFINE n == submitted[e] + 1
           p == NewPacket("DATA", n, Traffic[e][n])
           q == master[e].Buffers \o Flits(p)
           m == [master[e] EXCEPT !.Buffers = q]
<1>1. MasterOK(master[e])
  BY DEF IInv
<1>2. submitted[e] \in Nat
  BY DEF IInv, TypeOK
<1>3. Traffic[e][n] \in 1 .. MAX_LINK_BUF
  <2>1. n \in 1 .. Len(Traffic[e])
    BY <1>2 DEF Submit
  <2>2. Traffic[e] \in Seq(1 .. MAX_LINK_BUF)
    BY TrafficAssumption
  <2> HIDE DEF n
  <2> QED
    BY <2>1, <2>2, ElementOfSeq
<1>4. p \in Packet
  BY <1>2, <1>3, NewPacketType
<1>5. q \in Seq(Packet \cup {NULL})
  <2>1. master[e].Buffers \in Seq(Packet \cup {NULL})
    BY <1>1 DEF MasterOK, MasterType
  <2> HIDE DEF p
  <2> QED
    BY <1>4, <2>1, FlitsType, ConcatProperties
<1>6. MasterOK(m)
  BY <1>1, <1>5, NewBuffersOK
<1>7. master' = [master EXCEPT ![e] = m]
  BY DEF Submit
<1>8. submitted' \in [End -> Nat]
  BY <1>2 DEF Submit, IInv, TypeOK
<1>9. UNCHANGED <<slave, inFlight, delivered, errors>>
  BY DEF Submit
<1> HIDE DEF m
<1>10. master' \in [End -> MasterType] /\ \A f \in End : MasterOK(master'[f])
  BY <1>6, <1>7, MasterStep
<1> QED
  BY <1>8, <1>9, <1>10 DEF IInv, TypeOK

LEMMA MasterUpdateStep ==
  ASSUME IInv, NEW e \in End, MasterUpdate(e)
  PROVE  IInv'
<1> DEFINE m == RunRetryTimer(FinishLinkRetry(SendHead(master[e])))
<1>1. MasterOK(m)
  BY SendHeadOK, FinishLinkRetryOK, RunRetryTimerOK DEF IInv
<1>2. master' = [master EXCEPT ![e] = m]
  BY DEF MasterUpdate
<1>3. UNCHANGED <<slave, inFlight, submitted, delivered, errors>>
  BY DEF MasterUpdate
<1> HIDE DEF m
<1>4. master' \in [End -> MasterType] /\ \A f \in End : MasterOK(master'[f])
  BY <1>1, <1>2, MasterStep
<1> QED
  BY <1>3, <1>4 DEF IInv, TypeOK

LEMMA LinkStartStep ==
  ASSUME IInv, NEW e \in End, LinkStart(e)
  PROVE  IInv'
<1> DEFINE q == master[e].linkRxTx
           m == [master[e] EXCEPT !.linkRxTx = Tail(q)]
<1>1. MasterOK(master[e]) /\ q # <<>>
  BY DEF IInv, LinkStart
<1>2. q \in Seq(Packet)
  BY <1>1 DEF MasterOK, MasterType
<1>3. Head(q) \in Packet /\ Tail(q) \in Seq(Packet)
  BY <1>1, <1>2, HeadTailProperties
<1>4. MasterOK(m)
  BY <1>1, <1>3 DEF MasterOK, RingOK, MasterType
<1>5. master' = [master EXCEPT ![e] = m]
  BY DEF LinkStart
<1>6. inFlight' \in [End -> Packet \cup {NULL}]
  BY <1>3 DEF LinkStart, IInv, TypeOK
<1>7. UNCHANGED <<slave, submitted, delivered, errors>>
  BY DEF LinkStart
<1> HIDE DEF m
<1>8. master' \in [End -> MasterType] /\ \A f \in End : MasterOK(master'[f])
  BY <1>4, <1>5, MasterStep
<1> QED
  BY <1>6, <1>7, <1>8 DEF IInv, TypeOK

LEMMA ArriveStep ==
  ASSUME IInv, NEW e \in End, NEW p \in Packet, Arrive(e, p), errors' \in Nat
  PROVE  IInv'
<1> DEFINE f == Peer(e)
           s == [slave[f] EXCEPT !.linkRxTx = Append(@, p)]
<1>1. f \in End
  BY DEF Peer, End
<1>2. SlaveOK(slave[f])
  BY <1>1 DEF IInv
<1>3. Append(slave[f].linkRxTx, p) \in Seq(Packet)
  BY <1>2, AppendProperties DEF SlaveOK, SlaveType
<1>4. SlaveOK(s)
  BY <1>2, <1>3 DEF SlaveOK, SlaveType
<1>5. slave' = [slave EXCEPT ![f] = s]
  BY DEF Arrive
<1>6. inFlight' \in [End -> Packet \cup {NULL}]
  BY DEF Arrive, IInv, TypeOK
<1>7. UNCHANGED <<master, submitted, delivered>>
  BY DEF Arrive
<1> HIDE DEF s, f
<1>8. slave' \in [End -> SlaveType] /\ \A g \in End : SlaveOK(slave'[g])
  BY <1>1, <1>4, <1>5, SlaveStep
<1> QED
  BY <1>6, <1>7, <1>8 DEF IInv, TypeOK

LEMMA LinkDoneStep ==
  ASSUME IInv, NEW e \in End, LinkDone(e)
  PROVE  IInv'
<1>1. inFlight[e] \in Packet
  BY DEF IInv, TypeOK, LinkDone, Arrive
<1>2. errors' \in Nat
  BY DEF IInv, TypeOK, LinkDone
<1> QED
  BY <1>1, <1>2, ArriveStep DEF LinkDone

LEMMA LinkNoiseStep ==
  ASSUME IInv, NEW e \in End, LinkNoise(e)
  PROVE  IInv'
<1>1. inFlight[e] \in Packet
  BY DEF IInv, TypeOK, LinkNoise
<1>2. [inFlight[e] EXCEPT !.bad = TRUE] \in Packet
  BY <1>1 DEF Packet
<1>3. errors' \in Nat
  BY DEF IInv, TypeOK, LinkNoise
<1> QED
  BY <1>2, <1>3, ArriveStep DEF LinkNoise

LEMMA SlaveUpdateStep ==
  ASSUME IInv, NEW e \in End, SlaveUpdate(e)
  PROVE  IInv'
<1>1. PICK k \in 1 .. Len(slave[e].linkRxTx) + 1 :
        LET r == Receiving(master[e], slave[e], k) IN
        /\ master' = [master EXCEPT ![e] = r.m]
        /\ slave' = [slave EXCEPT ![e] = r.s]
  BY DEF SlaveUpdate
<1> DEFINE r == Receiving(master[e], slave[e], k)
<1>2. MasterOK(r.m) /\ SlaveOK(r.s)
  BY ReceivingOK DEF IInv, ResultOK
<1>3. UNCHANGED <<inFlight, submitted, delivered, errors>>
  BY DEF SlaveUpdate
<1> HIDE DEF r
<1>4. master' \in [End -> MasterType] /\ \A f \in End : MasterOK(master'[f])
  BY <1>1, <1>2, MasterStep DEF r
<1>5. slave' \in [End -> SlaveType] /\ \A f \in End : SlaveOK(slave'[f])
  BY <1>1, <1>2, SlaveStep DEF r
<1> QED
  BY <1>3, <1>4, <1>5 DEF IInv, TypeOK

LEMMA SlaveForwardStep ==
  ASSUME IInv, NEW e \in End, SlaveForward(e)
  PROVE  IInv'
<1>1. PICK k \in 1 .. Len(slave[e].linkRxTx) + 1 :
        LET r == Receiving(master[e], slave[e], k)
            f == Forwarding(r.m, r.s)
        IN
        /\ r.s.Buffers # <<>>
        /\ master' = [master EXCEPT ![e] = f.m]
        /\ slave' = [slave EXCEPT ![e] = f.s]
        /\ delivered' = [delivered EXCEPT ![e] = Append(@, Head(r.s.Buffers).id)]
  BY DEF SlaveForward
<1> DEFINE r == Receiving(master[e], slave[e], k)
           f == Forwarding(r.m, r.s)
           id == Head(r.s.Buffers).id
<1>2. MasterOK(r.m) /\ SlaveOK(r.s)
  BY ReceivingOK DEF IInv, ResultOK
<1>3. MasterOK(f.m) /\ SlaveOK(f.s) /\ id \in Nat
  BY <1>1, <1>2, ForwardingOK DEF ResultOK
<1>4. UNCHANGED <<inFlight, submitted, errors>>
  BY DEF SlaveForward
<1> HIDE DEF r, f, id
<1>5. master' \in [End -> MasterType] /\ \A g \in End : MasterOK(master'[g])
  BY <1>1, <1>3, MasterStep DEF r, f
<1>6. slave' \in [End -> SlaveType] /\ \A g \in End : SlaveOK(slave'[g])
  BY <1>1, <1>3, SlaveStep DEF r, f
<1>7. delivered' \in [End -> Seq(Nat)]
  <2>1. delivered' = [delivered EXCEPT ![e] = Append(delivered[e], id)]
    BY <1>1 DEF r, id
  <2>2. Append(delivered[e], id) \in Seq(Nat)
    BY <1>3, AppendProperties DEF IInv, TypeOK
  <2> QED
    BY <2>1, <2>2 DEF IInv, TypeOK
<1> QED
  BY <1>4, <1>5, <1>6, <1>7 DEF IInv, TypeOK

LEMMA NextIInv == IInv /\ [LinkNext]_linkVars => IInv'
<1> SUFFICES ASSUME IInv, [LinkNext]_linkVars PROVE IInv'
  OBVIOUS
<1>1. CASE UNCHANGED linkVars
  BY <1>1 DEF IInv, TypeOK, linkVars
<1>2. CASE LinkNext
  <2>1. PICK e \in End : \/ Submit(e) \/ MasterUpdate(e) \/ LinkStart(e) \/ LinkDone(e)
                         \/ LinkNoise(e) \/ SlaveUpdate(e) \/ SlaveForward(e)
    BY <1>2 DEF LinkNext
  <2> QED
    BY <2>1, SubmitStep, MasterUpdateStep, LinkStartStep, LinkDoneStep, LinkNoiseStep,
       SlaveUpdateStep, SlaveForwardStep
<1> QED
  BY <1>1, <1>2

LEMMA SpecIInv == LinkSpec => []IInv
BY InitIInv, NextIInv, PTL DEF LinkSpec

\* Type correctness: whatever is lost, repeated or late, every pointer and every
\* RRP and FRP that travels is a slot of the retry buffer, every counter keeps
\* its range and every forwarded element is a packet, never a virtual tail.
THEOREM TypeCorrect == LinkSpec => []TypeOK
<1>1. IInv => TypeOK
  BY DEF IInv
<1> QED
  BY <1>1, SpecIInv, PTL

\* Only slots between the read and the write pointer of a retry buffer hold a
\* packet: UpdateRetryPointer frees what it passes, UpdateField fills what the
\* near-full test of Update admits, and LinkRetry empties what it takes back.
THEOREM RetryRingInOrder == LinkSpec => []RetrySlots
<1>1. IInv => RetrySlots
  BY DEF IInv, MasterOK, RingOK, RetrySlots
<1> QED
  BY <1>1, SpecIInv, PTL

\* The exit at LinkMaster.cpp 437 is never taken: no packet is saved over another.
THEOREM NeverOverwritten == LinkSpec => []NoOverwrite
<1>1. IInv => NoOverwrite
  BY DEF IInv, MasterOK, NoOverwrite
<1> QED
  BY <1>1, SpecIInv, PTL
=============================================================================
