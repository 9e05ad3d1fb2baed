--------------------------- MODULE LinkWhole_proofs ---------------------------
(***************************************************************************)
(* Proof that every buffer of a link holds whole packets (WholePackets of  *)
(* LinkLayer), for every value of the constants, every interleaving, any   *)
(* noise and time-outs at any moment.                                      *)
(*                                                                         *)
(* A master's buffer is refilled from its retry buffer, so the retry       *)
(* buffer has to hold whole packets too (RingWhole), from whatever slot    *)
(* the peer's pointers let it be read; and a TRET is put behind the head   *)
(* only while startCRC is set, so startCRC needs a packet to compute for.  *)
(***************************************************************************)
EXTENDS LinkLayer_proofs

-----------------------------------------------------------------------------
(* The retry buffer.                                                       *)

\* A saved packet ends at or before the write pointer, its virtual tail is NULL
\* and the next packet, if any, follows it.  The read pointer plays no part: it
\* may come to stand anywhere.
RingWhole(m) ==
  \A i \in Slot : m.retryBuffers[i] # NULL =>
    LET lng == m.retryBuffers[i].lng
        d == SpanLength(i, m.retBufWriteP)
    IN  /\ lng <= d
        /\ \A j \in 1 .. lng - 1 : m.retryBuffers[Wrap(i + j)] = NULL
        /\ lng < d => m.retryBuffers[Wrap(i + lng)] # NULL

LEMMA SpanLengthType ==
  ASSUME NEW a \in Slot, NEW b \in Slot
  PROVE  SpanLength(a, b) \in 0 .. MAX_RETRY_BUF - 1
BY SizeAssumption DEF SpanLength, Slot

\* A step of less than a round from a slot leads to a slot.
LEMMA StepInSlot ==
  ASSUME NEW i \in Slot, NEW j \in 0 .. MAX_RETRY_BUF
  PROVE  Wrap(i + j) \in Slot
BY SizeAssumption DEF Wrap, Slot

\* A packet that is not freed with the slots from a to b does not lose the packet
\* behind it either.
LEMMA NextKept ==
  ASSUME NEW i \in Slot, NEW a \in Slot, NEW b \in Slot, NEW w \in Slot,
         InSpan(i, a, w), ~InSpan(i, a, b), NEW lng \in Nat, lng < SpanLength(i, w)
  PROVE  ~InSpan(Wrap(i + lng), a, b)
BY SizeAssumption DEF InSpan, SpanLength, Wrap, Slot

\* With room for a packet the distance of a saved one to the write pointer grows
\* by the packet's length.
LEMMA RoomAddsLength ==
  ASSUME NEW m, m.retBufReadP \in Slot, m.retBufWriteP \in Slot,
         NEW lng \in Nat \ {0}, RetryRoom(m, lng),
         NEW i \in Slot, InSpan(i, m.retBufReadP, m.retBufWriteP) \/ i = m.retBufWriteP
  PROVE  SpanLength(i, Wrap(m.retBufWriteP + lng)) = SpanLength(i, m.retBufWriteP) + lng
BY SizeAssumption DEF RetryRoom, InSpan, SpanLength, Wrap, Slot

\* The slots of a new packet are not in the span.
LEMMA RoomIsFree ==
  ASSUME NEW m, m.retBufReadP \in Slot, m.retBufWriteP \in Slot,
         NEW lng \in Nat \ {0}, RetryRoom(m, lng), NEW j \in 0 .. lng - 1
  PROVE  /\ Wrap(m.retBufWriteP + j) \in Slot
         /\ ~InSpan(Wrap(m.retBufWriteP + j), m.retBufReadP, m.retBufWriteP)
         /\ j # 0 => Wrap(m.retBufWriteP + j) # m.retBufWriteP
BY SizeAssumption DEF RetryRoom, InSpan, Wrap, Slot

\* Within the distance to the write pointer a step leads to a slot before it, the
\* distance itself to the write pointer.
LEMMA StepWithinSpan ==
  ASSUME NEW i \in Slot, NEW w \in Slot, NEW j \in Nat
  PROVE  /\ j < SpanLength(i, w) => Wrap(i + j) # w
         /\ j = SpanLength(i, w) => Wrap(i + j) = w
BY SizeAssumption DEF SpanLength, Wrap, Slot

\* The k-th slot from a is k - 1 slots nearer to b than a is.
LEMMA DistanceOfSaved ==
  ASSUME NEW a \in Slot, NEW b \in Slot, NEW k \in 1 .. SpanLength(a, b)
  PROVE  /\ Wrap(a + k - 1) \in Slot
         /\ SpanLength(Wrap(a + k - 1), b) = SpanLength(a, b) - (k - 1)
BY SizeAssumption DEF SpanLength, Wrap, Slot

LEMMA WrapTwice ==
  ASSUME NEW a \in Slot, NEW b \in Slot, NEW k \in 1 .. SpanLength(a, b),
         NEW j \in Nat, k + j <= SpanLength(a, b)
  PROVE  Wrap(Wrap(a + k - 1) + j) = Wrap(a + (k + j) - 1)
BY SizeAssumption DEF SpanLength, Wrap, Slot

-----------------------------------------------------------------------------
(* Buffers.                                                                *)

\* Element i of q is a packet that lies in q as a whole, the next behind it.
WholeAt(q, i) ==
  /\ i + q[i].lng - 1 <= Len(q)
  /\ \A j \in i + 1 .. i + q[i].lng - 1 : q[j] = NULL
  /\ i + q[i].lng <= Len(q) => q[i + q[i].lng] # NULL

LEMMA WholeByElement ==
  ASSUME NEW q
  PROVE  Whole(q) <=> /\ q # <<>> => q[1] # NULL
                      /\ \A i \in 1 .. Len(q) : q[i] # NULL => WholeAt(q, i)
BY DEF Whole, WholeAt

\* Two buffers of whole packets make one.
LEMMA WholeConcat ==
  ASSUME NEW q \in Seq(Packet \cup {NULL}), NEW r \in Seq(Packet \cup {NULL}),
         Whole(q), Whole(r)
  PROVE  q \o r \in Seq(Packet \cup {NULL}) /\ Whole(q \o r)
<1> DEFINE c == q \o r
           n == Len(q)
<1>1. n \in Nat /\ Len(r) \in Nat
  BY LenProperties
<1>2. /\ c \in Seq(Packet \cup {NULL}) /\ Len(c) = n + Len(r)
      /\ \A i \in 1 .. n : c[i] = q[i]
      /\ \A i \in n + 1 .. n + Len(r) : c[i] = r[i - n]
  BY <1>1, ConcatProperties
<1>3. r # <<>> => Len(r) # 0 /\ c[n + 1] # NULL
  <2> SUFFICES ASSUME r # <<>> PROVE Len(r) # 0 /\ c[n + 1] # NULL
    OBVIOUS
  <2>1. Len(r) # 0 /\ r[1] # NULL
    BY EmptySeq DEF Whole
  <2> HIDE DEF c
  <2>2. n + 1 \in n + 1 .. n + Len(r) /\ (n + 1) - n = 1
    BY <1>1, <2>1
  <2> QED
    BY <1>2, <2>1, <2>2
<1>4. ASSUME NEW i \in 1 .. n, c[i] # NULL
      PROVE  WholeAt(c, i)
  <2> DEFINE l == q[i].lng
  <2>1. q[i] \in Packet /\ c[i] = q[i]
    BY <1>2, <1>4, ElementOfSeq
  <2>2. l \in Nat \ {0}
    BY <2>1, PacketFields
  <2>3. /\ i + l - 1 <= n
        /\ \A j \in i + 1 .. i + l - 1 : q[j] = NULL
        /\ i + l <= n => q[i + l] # NULL
    BY <1>4, <2>1, WholeByElement DEF WholeAt
  <2>4. c[i].lng = l
    BY <2>1
  <2> HIDE DEF c, l, n
  <2>5. i + l - 1 <= Len(c)
    BY <1>1, <1>2, <2>2, <2>3
  <2>6. ASSUME NEW j \in i + 1 .. i + l - 1 PROVE c[j] = NULL
    <3>1. j \in 1 .. n
      BY <1>1, <2>2, <2>3
    <3> QED
      BY <1>2, <2>3, <3>1
  <2>7. ASSUME i + l <= Len(c) PROVE c[i + l] # NULL
    <3>1. CASE i + l <= n
      <4>1. i + l \in 1 .. n
        BY <2>2, <3>1
      <4> QED
        BY <1>2, <2>3, <3>1, <4>1
    <3>2. CASE ~(i + l <= n)
      <4>1. i + l = n + 1 /\ Len(r) # 0
        BY <1>1, <1>2, <2>2, <2>3, <2>7, <3>2
      <4> QED
        BY <1>3, <4>1, EmptySeq
    <3> QED
      BY <3>1, <3>2
  <2> QED
    BY <2>4, <2>5, <2>6, <2>7 DEF WholeAt
<1>5. ASSUME NEW k \in 1 .. Len(r), c[n + k] # NULL
      PROVE  WholeAt(c, n + k)
  <2> DEFINE l == r[k].lng
  <2>1. \A j \in 1 .. Len(r) : c[n + j] = r[j]
    <3> HIDE DEF c
    <3>1. ASSUME NEW j \in 1 .. Len(r) PROVE c[n + j] = r[j]
      <4>1. n + j \in n + 1 .. n + Len(r) /\ (n + j) - n = j
        BY <1>1
      <4> QED
        BY <1>2, <4>1
    <3> QED
      BY <3>1
  <2>2. r[k] \in Packet /\ c[n + k] = r[k]
    BY <1>5, <2>1, ElementOfSeq
  <2>3. l \in Nat \ {0}
    BY <2>2, PacketFields
  <2>4. /\ k + l - 1 <= Len(r)
        /\ \A j \in k + 1 .. k + l - 1 : r[j] = NULL
        /\ k + l <= Len(r) => r[k + l] # NULL
    BY <1>5, <2>2, WholeByElement DEF WholeAt
  <2>5. c[n + k].lng = l
    BY <2>2
  <2> HIDE DEF c, l, n
  <2>6. (n + k) + l - 1 <= Len(c)
    BY <1>1, <1>2, <2>3, <2>4
  <2>7. ASSUME NEW j \in (n + k) + 1 .. (n + k) + l - 1 PROVE c[j] = NULL
    <3>1. j - n \in k + 1 .. k + l - 1 /\ j - n \in 1 .. Len(r) /\ n + (j - n) = j
      BY <1>1, <2>3, <2>4
    <3> QED
      BY <2>1, <2>4, <3>1
  <2>8. ASSUME (n + k) + l <= Len(c) PROVE c[(n + k) + l] # NULL
    <3>1. k + l \in 1 .. Len(r) /\ n + (k + l) = (n + k) + l
      BY <1>1, <1>2, <2>3, <2>8
    <3> QED
      BY <2>1, <2>4, <3>1
  <2> QED
    BY <2>5, <2>6, <2>7, <2>8 DEF WholeAt
<1>6. ASSUME c # <<>> PROVE c[1] # NULL
  <2>1. CASE q = <<>>
    <3>1. n = 0 /\ r # <<>>
      BY <1>1, <1>2, <1>6, <2>1, EmptySeq
    <3> QED
      BY <1>3, <3>1
  <2>2. CASE q # <<>>
    <3>1. 1 \in 1 .. n /\ q[1] # NULL
      BY <1>1, <2>2, EmptySeq DEF Whole
    <3> QED
      BY <1>2, <3>1
  <2> QED
    BY <2>1, <2>2
<1>7. ASSUME NEW i \in 1 .. Len(c), c[i] # NULL PROVE WholeAt(c, i)
  <2>1. CASE i \in 1 .. n
    BY <1>4, <1>7, <2>1
  <2>2. CASE i \notin 1 .. n
    <3> HIDE DEF c, n
    <3>1. i - n \in 1 .. Len(r) /\ n + (i - n) = i
      BY <1>1, <1>2, <2>2
    <3> QED
      BY <1>5, <1>7, <3>1
  <2> QED
    BY <2>1, <2>2
<1> HIDE DEF c
<1> QED
  BY <1>2, <1>6, <1>7, WholeByElement DEF c

LEMMA WholeEmpty == <<>> \in Seq(Packet \cup {NULL}) /\ Whole(<<>>)
<1>1. Len(<<>>) = 0
  OBVIOUS
<1> QED
  BY <1>1 DEF Whole

\* A packet of one FLIT has no virtual tail.
LEMMA WholeSingle ==
  ASSUME NEW p \in Packet, p.lng = 1
  PROVE  <<p>> \in Seq(Packet \cup {NULL}) /\ Whole(<<p>>)
<1>1. p # NULL
  BY NullAssumption
<1>2. Len(<<p>>) = 1 /\ <<p>>[1] = p /\ <<p>> \in Seq(Packet \cup {NULL})
  OBVIOUS
<1> DEFINE q == <<p>>
<1> HIDE DEF q
<1>3. Len(q) = 1 /\ q[1] = p
  BY <1>2 DEF q
<1>4. Whole(q)
  BY <1>1, <1>3 DEF Whole
<1> QED
  BY <1>2, <1>4 DEF q

\* The first packet of a buffer lies in it as a whole.
LEMMA WholeTake ==
  ASSUME NEW q \in Seq(Packet \cup {NULL}), Whole(q), q # <<>>
  PROVE  /\ Head(q) = q[1] /\ Head(q) \in Packet /\ Head(q).lng \in 1 .. Len(q)
         /\ SubSeq(q, 1, Head(q).lng) \in Seq(Packet \cup {NULL})
         /\ Whole(SubSeq(q, 1, Head(q).lng))
<1> DEFINE l == Head(q).lng
           r == SubSeq(q, 1, l)
<1>1. Head(q) = q[1] /\ Len(q) \in Nat \ {0}
  BY EmptySeq
<1>2. Head(q) \in Packet
  BY WholeDrop
<1>3. l \in Nat \ {0}
  BY <1>2, PacketFields
<1>4. q[1] # NULL
  BY DEF Whole
<1>5. l <= Len(q) /\ \A j \in 2 .. l : q[j] = NULL
  <2>1. WholeAt(q, 1)
    BY <1>1, <1>4, WholeByElement
  <2>2. /\ 1 + l - 1 <= Len(q)
        /\ \A j \in 1 + 1 .. 1 + l - 1 : q[j] = NULL
    BY <1>1, <2>1 DEF WholeAt
  <2> HIDE DEF l
  <2>3. 1 + l - 1 = l /\ 1 + 1 = 2
    BY <1>3
  <2> QED
    BY <2>2, <2>3
<1>6. r \in Seq(Packet \cup {NULL})
  BY <1>1, <1>3, <1>5, SubSeqType
<1>7. Len(r) = l /\ \A i \in 1 .. l : r[i] = q[i]
  <2> HIDE DEF l
  <2>1. \A i \in 1 .. l : q[i] \in Packet \cup {NULL}
    BY <1>3, <1>5, ElementOfSeq
  <2>2. Len(r) = l - 1 + 1 /\ \A i \in 1 .. l - 1 + 1 : r[i] = q[1 + i - 1]
    BY <1>1, <1>3, <1>5, <2>1, SubSeqProperties
  <2> QED
    BY <1>3, <2>2
<1>8. ASSUME NEW i \in 1 .. Len(r), r[i] # NULL PROVE WholeAt(r, i)
  <2> HIDE DEF l, r
  <2>1. i = 1
    BY <1>3, <1>5, <1>7, <1>8
  <2>2. r[1].lng = l
    BY <1>1, <1>3, <1>7 DEF l
  <2> QED
    BY <1>3, <1>5, <1>7, <2>1, <2>2 DEF WholeAt
<1>9. r[1] # NULL
  BY <1>3, <1>4, <1>7
<1> HIDE DEF r
<1>10. Whole(r)
  BY <1>8, <1>9, WholeByElement
<1>11. l \in 1 .. Len(q)
  BY <1>1, <1>3, <1>5
<1> QED
  BY <1>1, <1>2, <1>6, <1>10, <1>11 DEF r

\* A buffer whose packets change other fields than their length is still whole.
LEMMA WholeSameLengths ==
  ASSUME NEW q \in Seq(Packet \cup {NULL}), Whole(q),
         NEW r \in Seq(Packet \cup {NULL}), Len(r) = Len(q),
         \A i \in 1 .. Len(q) : /\ r[i] = NULL <=> q[i] = NULL
                                /\ q[i] # NULL => r[i].lng = q[i].lng
  PROVE  Whole(r)
<1>1. Len(q) \in Nat
  BY LenProperties
<1>2. ASSUME r # <<>> PROVE r[1] # NULL
  <2>1. q # <<>> /\ 1 \in 1 .. Len(q)
    BY <1>1, <1>2, EmptySeq
  <2> QED
    BY <2>1 DEF Whole
<1>3. ASSUME NEW i \in 1 .. Len(r), r[i] # NULL PROVE WholeAt(r, i)
  <2> DEFINE l == q[i].lng
  <2>1. q[i] # NULL /\ q[i] \in Packet /\ r[i].lng = l
    BY <1>3, ElementOfSeq
  <2>2. l \in Nat \ {0}
    BY <2>1, PacketFields
  <2>3. /\ i + l - 1 <= Len(q)
        /\ \A j \in i + 1 .. i + l - 1 : q[j] = NULL
        /\ i + l <= Len(q) => q[i + l] # NULL
    BY <2>1, WholeByElement DEF WholeAt
  <2> HIDE DEF l
  <2>4. ASSUME NEW j \in i + 1 .. i + l - 1 PROVE r[j] = NULL
    <3>1. j \in 1 .. Len(q)
      BY <1>1, <2>2, <2>3
    <3> QED
      BY <2>3, <3>1
  <2>5. ASSUME i + l <= Len(r) PROVE r[i + l] # NULL
    <3>1. i + l \in 1 .. Len(q)
      BY <1>1, <2>2, <2>5
    <3> QED
      BY <2>3, <3>1
  <2> QED
    BY <2>1, <2>3, <2>4, <2>5 DEF WholeAt
<1> QED
  BY <1>2, <1>3, WholeByElement

-----------------------------------------------------------------------------
(* LinkMaster.                                                             *)

\* Exits that whole packets rule out: LinkMaster.cpp 296, an insertion past the
\* end at 155, and 258, which is reached only with the pointers equal after line
\* 227 has found a packet at the read pointer.
SplitError ==
  {"Buffers[0] is NULL", "insertion past the end of Buffers",
   "retry buffer has no packets"}

MasterWhole(m) ==
  /\ MasterOK(m)
  /\ Whole(m.Buffers)
  /\ Whole(m.backupBuffers)
  /\ RingWhole(m)
  /\ m.startCRC => m.Buffers # <<>>
  /\ m.error \notin SplitError

LEMMA MasterFields ==
  ASSUME NEW m, MasterOK(m)
  PROVE  /\ m \in MasterType
         /\ m.Buffers \in Seq(Packet \cup {NULL})
         /\ m.backupBuffers \in Seq(Packet \cup {NULL})
         /\ m.retBufReadP \in Slot /\ m.retBufWriteP \in Slot
         /\ m.retryBuffers \in [Slot -> Packet \cup {NULL}]
BY DEF MasterOK, MasterType

\* What is whole depends on five fields only.
LEMMA SameFieldsWhole ==
  ASSUME NEW m, MasterWhole(m), NEW n, MasterOK(n),
         n.Buffers = m.Buffers, n.backupBuffers = m.backupBuffers,
         n.retryBuffers = m.retryBuffers, n.retBufWriteP = m.retBufWriteP,
         n.startCRC = m.startCRC, n.error \notin SplitError
  PROVE  MasterWhole(n)
<1>1. RingWhole(n)
  BY DEF MasterWhole, RingWhole
<1> QED
  BY <1>1 DEF MasterWhole

LEMMA FailWhole ==
  ASSUME NEW m, MasterWhole(m), NEW why \in Error \ SplitError,
         why # "retry slot is not NULL"
  PROVE  MasterWhole(Fail(m, why))
<1> DEFINE n == Fail(m, why)
<1>1. MasterOK(n)
  BY FailOK DEF MasterWhole
<1>2. /\ n.Buffers = m.Buffers /\ n.backupBuffers = m.backupBuffers
      /\ n.retryBuffers = m.retryBuffers /\ n.retBufWriteP = m.retBufWriteP
      /\ n.startCRC = m.startCRC /\ n.error \notin SplitError
  BY DEF Fail, MasterWhole, MasterOK, MasterType
<1> HIDE DEF n
<1>3. MasterWhole(n)
  BY <1>1, <1>2, SameFieldsWhole
<1> QED
  BY <1>3 DEF n

\* The retry buffer stays whole when the slots up to some pointer are emptied: a
\* pointer outside the span empties it all.
LEMMA UpdateRetryPointerWhole ==
  ASSUME NEW m, MasterWhole(m), NEW rrp \in Slot
  PROVE  MasterWhole(UpdateRetryPointer(m, rrp))
<1> DEFINE n == UpdateRetryPointer(m, rrp)
           w == m.retBufWriteP
<1>1. MasterOK(n)
  BY UpdateRetryPointerOK DEF MasterWhole
<1>2. /\ m.retBufReadP \in Slot /\ w \in Slot
      /\ m.retryBuffers \in [Slot -> Packet \cup {NULL}]
  BY MasterFields DEF MasterWhole
<1>3. /\ n.Buffers = m.Buffers /\ n.backupBuffers = m.backupBuffers
      /\ n.retryBuffers = Freed(m.retryBuffers, m.retBufReadP, rrp)
      /\ n.retBufWriteP = w /\ n.startCRC = m.startCRC /\ n.error = m.error
  BY DEF UpdateRetryPointer, MasterWhole, MasterOK, MasterType
<1> HIDE DEF n
<1>4. RingWhole(n)
  <2> SUFFICES ASSUME NEW i \in Slot, n.retryBuffers[i] # NULL
               PROVE  LET lng == n.retryBuffers[i].lng
                          d == SpanLength(i, w)
                      IN  /\ lng <= d
                          /\ \A j \in 1 .. lng - 1 : n.retryBuffers[Wrap(i + j)] = NULL
                          /\ lng < d => n.retryBuffers[Wrap(i + lng)] # NULL
    BY <1>3 DEF RingWhole
  <2> DEFINE p == m.retryBuffers[i]
             lng == p.lng
             d == SpanLength(i, w)
  <2>1. /\ n.retryBuffers[i] = p /\ p # NULL
        /\ ~InSpan(i, m.retBufReadP, rrp)
    BY <1>3 DEF Freed
  <2>2. p \in Packet
    BY <1>2, <2>1
  <2>3. lng \in Nat \ {0} /\ d \in 0 .. MAX_RETRY_BUF - 1 /\ MAX_RETRY_BUF \in Nat
    BY <1>2, <2>2, PacketFields, SpanLengthType, SizeAssumption
  <2>4. /\ lng <= d
        /\ \A j \in 1 .. lng - 1 : m.retryBuffers[Wrap(i + j)] = NULL
        /\ lng < d => m.retryBuffers[Wrap(i + lng)] # NULL
    BY <2>1 DEF MasterWhole, RingWhole
  <2>5. InSpan(i, m.retBufReadP, w)
    BY <2>1 DEF MasterWhole, MasterOK, RingOK
  <2> HIDE DEF lng, d, w, p
  <2>6. ASSUME NEW j \in 1 .. lng - 1 PROVE n.retryBuffers[Wrap(i + j)] = NULL
    <3>1. j \in 0 .. MAX_RETRY_BUF
      BY <2>3, <2>4
    <3>2. Wrap(i + j) \in Slot
      BY <3>1, StepInSlot
    <3> QED
      BY <1>3, <2>4, <3>2 DEF Freed
  <2>7. ASSUME lng < d PROVE n.retryBuffers[Wrap(i + lng)] # NULL
    <3>1. lng \in 0 .. MAX_RETRY_BUF
      BY <2>3, <2>4
    <3>2. Wrap(i + lng) \in Slot
      BY <3>1, StepInSlot
    <3>3. ~InSpan(Wrap(i + lng), m.retBufReadP, rrp)
      BY <1>2, <2>1, <2>3, <2>5, <2>7, NextKept DEF d
    <3> QED
      BY <1>3, <2>4, <2>7, <3>2, <3>3 DEF Freed
  <2> QED
    BY <2>1, <2>4, <2>6, <2>7 DEF lng, d
<1>5. MasterWhole(n)
  BY <1>1, <1>3, <1>4 DEF MasterWhole
<1> QED
  BY <1>5 DEF n

LEMMA ReturnRetryPointerWhole ==
  ASSUME NEW m, MasterWhole(m), NEW p \in Packet, p.frp \in Slot
  PROVE  MasterWhole(ReturnRetryPointer(m, p))
<1> DEFINE n == ReturnRetryPointer(m, p)
<1>1. MasterOK(n)
  BY ReturnRetryPointerOK DEF MasterWhole
<1>2. /\ n.Buffers = m.Buffers /\ n.backupBuffers = m.backupBuffers
      /\ n.retryBuffers = m.retryBuffers /\ n.retBufWriteP = m.retBufWriteP
      /\ n.startCRC = m.startCRC /\ n.error \notin SplitError
  BY DEF ReturnRetryPointer, MasterWhole, MasterOK, MasterType
<1> HIDE DEF n
<1>3. MasterWhole(n)
  BY <1>1, <1>2, SameFieldsWhole
<1> QED
  BY <1>3 DEF n

LEMMA UpdateTokenWhole ==
  ASSUME NEW m, MasterWhole(m), NEW p \in Packet
  PROVE  MasterWhole(UpdateToken(m, p))
<1> DEFINE n == UpdateToken(m, p)
<1>1. MasterOK(n)
  BY UpdateTokenOK DEF MasterWhole
<1>2. /\ n.Buffers = m.Buffers /\ n.backupBuffers = m.backupBuffers
      /\ n.retryBuffers = m.retryBuffers /\ n.retBufWriteP = m.retBufWriteP
      /\ n.startCRC = m.startCRC /\ n.error \notin SplitError
  BY DEF UpdateToken, Fail, MasterWhole, MasterOK, MasterType, SplitError
<1> HIDE DEF n
<1>3. MasterWhole(n)
  BY <1>1, <1>2, SameFieldsWhole
<1> QED
  BY <1>3 DEF n

LEMMA StartRetryWhole ==
  ASSUME NEW m, MasterWhole(m)
  PROVE  MasterWhole(StartRetry(m))
<1> DEFINE n == StartRetry(m)
<1>1. MasterOK(n)
  BY StartRetryOK DEF MasterWhole
<1>2. /\ n.Buffers = m.Buffers /\ n.backupBuffers = m.backupBuffers
      /\ n.retryBuffers = m.retryBuffers /\ n.retBufWriteP = m.retBufWriteP
      /\ n.startCRC = m.startCRC /\ n.error \notin SplitError
  BY DEF StartRetry, MasterWhole, MasterOK, MasterType
<1> HIDE DEF n
<1>3. MasterWhole(n)
  BY <1>1, <1>2, SameFieldsWhole
<1> QED
  BY <1>3 DEF n

LEMMA FinishRetryWhole ==
  ASSUME NEW m, MasterWhole(m)
  PROVE  MasterWhole(FinishRetry(m))
<1> DEFINE n == FinishRetry(m)
<1>1. MasterOK(n)
  BY FinishRetryOK DEF MasterWhole
<1>2. /\ n.Buffers = m.Buffers /\ n.backupBuffers = m.backupBuffers
      /\ n.retryBuffers = m.retryBuffers /\ n.retBufWriteP = m.retBufWriteP
      /\ n.startCRC = m.startCRC /\ n.error \notin SplitError
  BY DEF FinishRetry, MasterWhole, MasterOK, MasterType
<1> HIDE DEF n
<1>3. MasterWhole(n)
  BY <1>1, <1>2, SameFieldsWhole
<1> QED
  BY <1>3 DEF n

\* A nonempty buffer replaced by a nonempty one, or a backup buffer by another.
LEMMA NewBuffersWhole ==
  ASSUME NEW m, MasterWhole(m), NEW q \in Seq(Packet \cup {NULL}), Whole(q)
  PROVE  /\ q # <<>> => MasterWhole([m EXCEPT !.Buffers = q])
         /\ MasterWhole([m EXCEPT !.backupBuffers = q])
<1> DEFINE a == [m EXCEPT !.Buffers = q]
           b == [m EXCEPT !.backupBuffers = q]
<1>1. MasterOK(a) /\ MasterOK(b)
  BY NewBuffersOK DEF MasterWhole
<1>2. /\ a.Buffers = q /\ a.backupBuffers = m.backupBuffers
      /\ a.retryBuffers = m.retryBuffers /\ a.retBufWriteP = m.retBufWriteP
      /\ a.startCRC = m.startCRC /\ a.error = m.error
  BY DEF MasterWhole, MasterOK, MasterType
<1>3. /\ b.Buffers = m.Buffers /\ b.backupBuffers = q
      /\ b.retryBuffers = m.retryBuffers /\ b.retBufWriteP = m.retBufWriteP
      /\ b.startCRC = m.startCRC /\ b.error = m.error
  BY DEF MasterWhole, MasterOK, MasterType
<1> HIDE DEF a, b
<1>4. RingWhole(a) /\ RingWhole(b)
  BY <1>2, <1>3 DEF MasterWhole, RingWhole
<1>5. q # <<>> => MasterWhole(a)
  BY <1>1, <1>2, <1>4 DEF MasterWhole
<1>6. MasterWhole(b)
  BY <1>1, <1>3, <1>4 DEF MasterWhole
<1> QED
  BY <1>5, <1>6 DEF a, b

\* Wherever the TRET goes it stands between two packets, and there is a place for
\* it: the packet whose CRC is being computed is at the head and complete.
LEMMA ReturnTockenWhole ==
  ASSUME NEW m, MasterWhole(m), NEW p \in Packet
  PROVE  MasterWhole(ReturnTocken(m, p))
<1> DEFINE S == Packet \cup {NULL}
           q == m.Buffers
           tret == [NewPacket("TRET", 0, 1) EXCEPT !.rtc = p.lng]
           first == FirstPacket(q)
           headLng == Head(q).lng
           embedded == [i \in 1 .. Len(q) |->
                          IF i \in first THEN [q[i] EXCEPT !.rtc = @ + p.lng]
                          ELSE q[i]]
           behind == SubSeq(q, 1, headLng) \o <<tret>> \o SubSeq(q, headLng + 1, Len(q))
<1>0. /\ q \in Seq(S) /\ m.backupBuffers \in Seq(S) /\ Len(q) \in Nat
      /\ Whole(q) /\ Whole(m.backupBuffers)
  BY MasterFields, LenProperties DEF MasterWhole
<1>1. tret \in Packet /\ tret.lng = 1
  <2>1. p.lng \in Nat
    BY PacketFields
  <2> QED
    BY <2>1, FlowPacketType DEF Packet, NewPacket
<1> HIDE DEF tret
<1>2. <<tret>> \in Seq(S) /\ Whole(<<tret>>)
  BY <1>1, WholeSingle
<1>3. ASSUME first # {} PROVE MasterWhole([m EXCEPT !.Buffers = embedded])
  <2>1. ASSUME NEW i \in 1 .. Len(q)
        PROVE  /\ embedded[i] \in S /\ (embedded[i] = NULL <=> q[i] = NULL)
               /\ q[i] # NULL => embedded[i].lng = q[i].lng
    <3>1. p.lng \in Nat
      BY PacketFields
    <3>2. CASE i \in first
      <4>1. q[i] \in Packet
        BY <1>0, <3>2, FirstPacketType
      <4>2. [q[i] EXCEPT !.rtc = @ + p.lng] \in Packet
        BY <3>1, <4>1, AddTokensType
      <4>3. [q[i] EXCEPT !.rtc = @ + p.lng].lng = q[i].lng
        BY <4>1 DEF Packet
      <4>4. embedded[i] = [q[i] EXCEPT !.rtc = @ + p.lng]
        BY <3>2
      <4> HIDE DEF embedded, q
      <4> QED
        BY <4>1, <4>2, <4>3, <4>4, NullAssumption
    <3>3. CASE i \notin first
      <4>1. embedded[i] = q[i]
        BY <3>3
      <4>2. q[i] \in S
        BY <1>0, ElementOfSeq
      <4> QED
        BY <4>1, <4>2
    <3> QED
      BY <3>2, <3>3
  <2>2. DOMAIN embedded = 1 .. Len(q)
    OBVIOUS
  <2>3. embedded \in [1 .. Len(q) -> S]
    <3>1. embedded = [i \in 1 .. Len(q) |-> embedded[i]]
      OBVIOUS
    <3> HIDE DEF embedded
    <3> QED
      BY <2>1, <3>1
  <2> HIDE DEF embedded, q
  <2>4. embedded \in Seq(S) /\ Len(embedded) = Len(q)
    BY <1>0, <2>2, <2>3, FunctionIsSeq, LenProperties
  <2>5. Whole(embedded)
    BY <1>0, <2>1, <2>4, WholeSameLengths
  <2>6. embedded # <<>>
    <3>1. Len(q) # 0
      BY <1>0, <1>3 DEF first, FirstPacket
    <3> QED
      BY <2>4, <3>1
  <2> QED
    BY <2>4, <2>5, <2>6, NewBuffersWhole
<1>4. MasterWhole([m EXCEPT !.backupBuffers = Append(@, tret)])
  <2>1. /\ m.backupBuffers \o <<tret>> \in Seq(S) /\ Whole(m.backupBuffers \o <<tret>>)
    BY <1>0, <1>2, WholeConcat
  <2>2. Append(m.backupBuffers, tret) = m.backupBuffers \o <<tret>>
    BY <1>0, <1>1, AppendIsConcat
  <2> QED
    BY <2>1, <2>2, NewBuffersWhole
<1>5. MasterWhole([m EXCEPT !.Buffers = <<tret>> \o @])
  <2>1. <<tret>> \o q \in Seq(S) /\ Whole(<<tret>> \o q)
    BY <1>0, <1>2, WholeConcat
  <2>2. <<tret>> \o q # <<>>
    BY <1>0, <1>2, ConcatEqualIffEmpty
  <2> QED
    BY <2>1, <2>2, NewBuffersWhole
<1>6. ASSUME m.startCRC
      PROVE  /\ 1 \in first /\ headLng <= Len(q)
             /\ MasterWhole([m EXCEPT !.Buffers = behind])
  <2> DEFINE x == SubSeq(q, 1, headLng)
             y == SubSeq(q, headLng + 1, Len(q))
  <2>1. q # <<>>
    BY <1>6 DEF MasterWhole
  <2>2. /\ headLng \in 1 .. Len(q) /\ x \in Seq(S) /\ Whole(x)
    BY <1>0, <2>1, WholeTake
  <2>3. y \in Seq(S) /\ Whole(y)
    BY <1>0, <2>1, WholeDrop
  <2>4. 1 \in first
    <3>1. 1 \in 1 .. Len(q) /\ q[1] # NULL
      BY <1>0, <2>1, EmptySeq DEF Whole
    <3> QED
      BY <3>1 DEF FirstPacket
  <2>5. behind = (x \o <<tret>>) \o y
    OBVIOUS
  <2> HIDE DEF x, y, behind
  <2> DEFINE z == x \o <<tret>>
  <2>6. z \in Seq(S) /\ Whole(z) /\ z # <<>>
    <3>1. z \in Seq(S) /\ Whole(z)
      BY <1>2, <2>2, WholeConcat
    <3>2. z # <<>>
      BY <1>2, <2>2, ConcatEqualIffEmpty
    <3> QED
      BY <3>1, <3>2
  <2> HIDE DEF z
  <2>7. behind \in Seq(S) /\ Whole(behind) /\ behind # <<>>
    <3>1. behind = z \o y
      BY <2>5 DEF z
    <3>2. z \o y \in Seq(S) /\ Whole(z \o y)
      BY <2>3, <2>6, WholeConcat
    <3>3. z \o y # <<>>
      BY <2>3, <2>6, ConcatEqualIffEmpty
    <3> QED
      BY <3>1, <3>2, <3>3
  <2>8. MasterWhole([m EXCEPT !.Buffers = behind])
    BY <2>7, NewBuffersWhole
  <2> QED
    BY <2>2, <2>4, <2>8
<1>7. m.startCRC \in BOOLEAN
  BY DEF MasterWhole, MasterOK, MasterType
<1>8. ReturnTocken(m, p) =
        IF \E i \in first : q[i].lng <= m.tokenCount THEN [m EXCEPT !.Buffers = embedded]
        ELSE IF m.currentState = "LINK_RETRY"
        THEN [m EXCEPT !.backupBuffers = Append(@, tret)]
        ELSE IF ~m.startCRC THEN [m EXCEPT !.Buffers = <<tret>> \o @]
        ELSE IF 1 \in first /\ headLng <= Len(q) THEN [m EXCEPT !.Buffers = behind]
        ELSE Fail(m, "insertion past the end of Buffers")
  BY DEF ReturnTocken, tret
<1> HIDE DEF embedded, behind, first, headLng, q
<1> QED
  BY <1>3, <1>4, <1>5, <1>6, <1>7, <1>8

\* The saved slots, read from the read pointer on, are whole packets if the read
\* pointer stands on one, as LinkRetry checks.
LEMMA SavedWhole ==
  ASSUME NEW m, MasterWhole(m), m.retryBuffers[m.retBufReadP] # NULL
  PROVE  Saved(m) \in Seq(Packet \cup {NULL}) /\ Whole(Saved(m)) /\ Saved(m) # <<>>
<1> DEFINE S == Packet \cup {NULL}
           r == m.retBufReadP
           w == m.retBufWriteP
           len == SpanLength(r, w)
           ring == m.retryBuffers
           q == [i \in 1 .. len |-> ring[Wrap(r + i - 1)]]
<1>1. r \in Slot /\ w \in Slot /\ ring \in [Slot -> S]
  BY MasterFields DEF MasterWhole
<1>2. len \in 1 .. MAX_RETRY_BUF - 1
  <2>1. len \in 0 .. MAX_RETRY_BUF - 1
    BY <1>1, SpanLengthType
  <2>2. InSpan(r, r, w)
    BY <1>1 DEF MasterWhole, MasterOK, RingOK
  <2>3. len # 0
    BY <1>1, <2>2, SizeAssumption DEF InSpan, SpanLength, Slot
  <2> HIDE DEF len
  <2> QED
    BY <2>1, <2>3, SizeAssumption
<1>3. Saved(m) = q
  BY DEF Saved
<1>4. q \in Seq(S) /\ Len(q) = len /\ \A i \in 1 .. len : q[i] = ring[Wrap(r + i - 1)]
  <2>1. \A i \in 1 .. len : Wrap(r + i - 1) \in Slot
    BY <1>1, DistanceOfSaved
  <2>2. q \in [1 .. len -> S] /\ DOMAIN q = 1 .. len
    BY <1>1, <2>1
  <2>3. \A i \in 1 .. len : q[i] = ring[Wrap(r + i - 1)]
    OBVIOUS
  <2> HIDE DEF q, len
  <2>4. q \in Seq(S)
    BY <1>2, <2>2, FunctionIsSeq
  <2> QED
    BY <1>2, <2>2, <2>3, <2>4, LenProperties
<1> HIDE DEF q
<1>5. q[1] # NULL
  <2>1. Wrap(r + 1 - 1) = r
    BY <1>1, SizeAssumption DEF Wrap, Slot
  <2>2. 1 \in 1 .. len
    BY <1>2
  <2> QED
    BY <1>4, <2>1, <2>2
<1>6. ASSUME NEW k \in 1 .. len, q[k] # NULL PROVE WholeAt(q, k)
  <2> DEFINE i == Wrap(r + k - 1)
             lng == q[k].lng
             d == SpanLength(i, w)
  <2>1. i \in Slot /\ d = len - (k - 1)
    BY <1>1, DistanceOfSaved
  <2>2. q[k] \in Packet /\ ring[i] = q[k]
    BY <1>4, <1>6, ElementOfSeq
  <2>3. lng \in Nat \ {0}
    BY <2>2, PacketFields
  <2>4. /\ lng <= d
        /\ \A j \in 1 .. lng - 1 : ring[Wrap(i + j)] = NULL
        /\ lng < d => ring[Wrap(i + lng)] # NULL
    BY <1>6, <2>1, <2>2 DEF MasterWhole, RingWhole
  <2>5. ASSUME NEW j \in Nat, k + j <= len PROVE q[k + j] = ring[Wrap(i + j)]
    <3>1. Wrap(i + j) = Wrap(r + (k + j) - 1)
      BY <1>1, <2>5, WrapTwice
    <3>2. k + j \in 1 .. len
      BY <2>5
    <3> QED
      BY <1>4, <3>1, <3>2
  <2> HIDE DEF i, lng, d, len
  <2>6. k + lng - 1 <= len
    BY <1>2, <2>1, <2>3, <2>4
  <2>7. ASSUME NEW j \in k + 1 .. k + lng - 1 PROVE q[j] = NULL
    <3>1. j - k \in 1 .. lng - 1 /\ j - k \in Nat /\ k + (j - k) = j /\ k + (j - k) <= len
      BY <1>2, <2>3, <2>6
    <3> QED
      BY <2>4, <2>5, <3>1
  <2>8. ASSUME k + lng <= len PROVE q[k + lng] # NULL
    <3>1. lng < d
      BY <1>2, <2>1, <2>3, <2>8
    <3> QED
      BY <2>3, <2>4, <2>5, <2>8, <3>1
  <2> QED
    BY <1>4, <2>6, <2>7, <2>8 DEF WholeAt, lng
<1>7. Whole(q)
  BY <1>4, <1>5, <1>6, WholeByElement
<1>8. q # <<>>
  BY <1>2, <1>4
<1> QED
  BY <1>3, <1>4, <1>7, <1>8

LEMMA LinkRetryWhole ==
  ASSUME NEW m, MasterWhole(m)
  PROVE  MasterWhole(LinkRetry(m))
<1> DEFINE n == LinkRetry(m)
           first == m.retryBuffers[m.retBufReadP]
<1>1. MasterOK(n)
  BY LinkRetryOK DEF MasterWhole
<1>2. /\ m.backupBuffers \o m.Buffers \in Seq(Packet \cup {NULL})
      /\ Whole(m.backupBuffers \o m.Buffers)
  BY MasterFields, WholeConcat DEF MasterWhole
<1>3. CASE first = NULL
  <2>1. /\ n.Buffers = <<>> /\ n.backupBuffers = m.backupBuffers \o m.Buffers
        /\ n.retryBuffers = m.retryBuffers /\ n.retBufWriteP = m.retBufWriteP
        /\ n.startCRC = FALSE /\ n.error \notin SplitError
    BY <1>3 DEF LinkRetry, Fail, SplitError, MasterWhole, MasterOK, MasterType
  <2> HIDE DEF n
  <2>2. RingWhole(n)
    BY <2>1 DEF MasterWhole, RingWhole
  <2> QED
    BY <1>1, <1>2, <2>1, <2>2, WholeEmpty DEF MasterWhole, n
<1>4. CASE first # NULL
  <2>1. m.retBufReadP # m.retBufWriteP
    <3>1. m.retBufReadP \in Slot /\ m.retBufWriteP \in Slot
      BY MasterFields DEF MasterWhole
    <3>2. InSpan(m.retBufReadP, m.retBufReadP, m.retBufWriteP)
      BY <1>4, <3>1 DEF MasterWhole, MasterOK, RingOK
    <3> QED
      BY <3>1, <3>2, WriteSlotNotInSpan
  <2>2. /\ n.Buffers = Saved(m) /\ n.backupBuffers = m.backupBuffers \o m.Buffers
        /\ n.retryBuffers = Freed(m.retryBuffers, m.retBufReadP, m.retBufWriteP)
        /\ n.startCRC = FALSE /\ n.error = m.error
    BY <1>4, <2>1 DEF LinkRetry, MasterWhole, MasterOK, MasterType
  <2> HIDE DEF n
  <2>3. RingWhole(n)
    <3>1. \A i \in Slot : n.retryBuffers[i] = NULL
      BY <2>2 DEF Freed, MasterWhole, MasterOK, RingOK
    <3> QED
      BY <3>1 DEF RingWhole
  <2>4. Whole(Saved(m))
    BY <1>4, SavedWhole
  <2>5. MasterWhole(n)
    BY <1>1, <1>2, <2>2, <2>3, <2>4 DEF MasterWhole
  <2> QED
    BY <2>5 DEF n
<1> QED
  BY <1>3, <1>4

\* The packet goes into free slots behind the last saved one.
LEMMA UpdateFieldWhole ==
  ASSUME NEW m, MasterWhole(m), m.Buffers # <<>>, RetryRoom(m, Head(m.Buffers).lng)
  PROVE  MasterWhole(UpdateField(m))
<1> DEFINE S == Packet \cup {NULL}
           n == UpdateField(m)
           h == Head(m.Buffers)
           lng == h.lng
           w == m.retBufWriteP
           x == Wrap(w + lng)
           tail == {Wrap(w + i) : i \in 1 .. lng - 1}
<1>1. /\ m.Buffers \in Seq(S) /\ w \in Slot /\ m.retBufReadP \in Slot
      /\ m.retryBuffers \in [Slot -> S] /\ Whole(m.Buffers)
  BY MasterFields DEF MasterWhole
<1>2. h \in Packet /\ Whole(SubSeq(m.Buffers, lng + 1, Len(m.Buffers)))
  BY <1>1, WholeDrop
<1>3. lng \in Nat \ {0}
  BY <1>2, PacketFields
<1>4. MasterOK(n)
  <2>1. h # NULL
    BY <1>2, NullAssumption
  <2> QED
    BY <2>1, UpdateFieldOK DEF MasterWhole
<1>5. m.retryBuffers[w] = NULL
  BY <1>1, WriteSlotNotInSpan DEF MasterWhole, MasterOK, RingOK
<1>6. PICK p : /\ p.lng = lng /\ p # NULL
               /\ n.retryBuffers = [i \in Slot |-> IF i = w THEN p ELSE IF i \in tail THEN NULL
                                                   ELSE m.retryBuffers[i]]
               /\ n.retBufWriteP = x
               /\ n.Buffers = SubSeq(m.Buffers, lng + 1, Len(m.Buffers))
               /\ n.backupBuffers = m.backupBuffers
               /\ n.startCRC = FALSE /\ n.error = m.error
  <2> DEFINE p == [h EXCEPT !.seq = IF m.masterSEQ < SEQ_MAX THEN m.masterSEQ ELSE 0,
                            !.rrp = m.lastestRRP, !.frp = x, !.bad = FALSE]
  <2>1. p.lng = lng
    BY <1>2 DEF Packet
  <2>2. /\ n.retryBuffers = [i \in Slot |-> IF i = w THEN p ELSE IF i \in tail THEN NULL
                                            ELSE m.retryBuffers[i]]
        /\ n.retBufWriteP = p.frp
        /\ n.Buffers = SubSeq(m.Buffers, lng + 1, Len(m.Buffers))
        /\ n.backupBuffers = m.backupBuffers
        /\ n.startCRC = FALSE /\ n.error = m.error
    BY <1>5 DEF UpdateField, MasterWhole, MasterOK, MasterType
  <2>3. p.frp = x
    BY <1>2 DEF Packet
  <2>4. p # NULL
    <3>1. w \in Slot /\ n.retryBuffers[w] = p
      BY <1>1, <2>2
    <3>2. x \in Slot /\ x \in Nat
      BY <1>1, <1>3, RoomInSlot, SlotIsNat
    <3>3. (IF m.masterSEQ < SEQ_MAX THEN m.masterSEQ ELSE 0) \in 0 .. SEQ_MAX
      <4>1. m.masterSEQ \in 0 .. SEQ_MAX
        BY DEF MasterWhole, MasterOK, MasterType
      <4> QED
        BY <4>1, SizeAssumption
    <3>4. m.lastestRRP \in Slot
      BY DEF MasterWhole, MasterOK, MasterType
    <3>5. p \in Packet
      <4> HIDE DEF x
      <4> QED
        BY <1>2, <3>2, <3>3, <3>4 DEF Packet
    <3> QED
      BY <3>5, NullAssumption
  <2> HIDE DEF p, n
  <2> QED
    BY <2>1, <2>2, <2>3, <2>4
<1> HIDE DEF n
<1>7. x \in Slot /\ SpanLength(w, x) = lng
  <2>1. x \in Slot
    BY <1>1, <1>3, RoomInSlot
  <2>2. SpanLength(w, x) = SpanLength(w, w) + lng
    BY <1>1, <1>3, RoomAddsLength
  <2> HIDE DEF x, w, lng
  <2>3. w \in Nat
    BY <1>1, SlotIsNat
  <2>4. SpanLength(w, w) = 0
    BY <2>3 DEF SpanLength
  <2> QED
    BY <1>3, <2>1, <2>2, <2>4
<1>8. \A i \in Slot : \/ i = w /\ n.retryBuffers[i] = p
                      \/ i # w /\ n.retryBuffers[i] = m.retryBuffers[i]
  <2> SUFFICES ASSUME NEW i \in Slot, i # w
               PROVE  n.retryBuffers[i] = m.retryBuffers[i]
    BY <1>6
  <2>1. CASE i \in tail
    <3>1. PICK j \in 1 .. lng - 1 : i = Wrap(w + j)
      BY <2>1
    <3>2. ~InSpan(i, m.retBufReadP, w)
      <4>1. j \in 0 .. lng - 1
        BY <3>1
      <4> QED
        BY <1>1, <1>3, <3>1, <4>1, RoomIsFree
    <3>3. m.retryBuffers[i] = NULL
      BY <3>2 DEF MasterWhole, MasterOK, RingOK
    <3> QED
      BY <1>6, <2>1, <3>3
  <2>2. CASE i \notin tail
    BY <1>6, <2>2
  <2> QED
    BY <2>1, <2>2
<1>9. RingWhole(n)
  <2> SUFFICES ASSUME NEW i \in Slot, n.retryBuffers[i] # NULL
               PROVE  LET l == n.retryBuffers[i].lng
                          d == SpanLength(i, x)
                      IN  /\ l <= d
                          /\ \A j \in 1 .. l - 1 : n.retryBuffers[Wrap(i + j)] = NULL
                          /\ l < d => n.retryBuffers[Wrap(i + l)] # NULL
    BY <1>6 DEF RingWhole
  <2>1. CASE i = w
    <3>1. n.retryBuffers[i].lng = lng
      BY <1>6, <1>8, <2>1
    <3>2. ASSUME NEW j \in 1 .. lng - 1 PROVE n.retryBuffers[Wrap(i + j)] = NULL
      <4>1. j \in 0 .. lng - 1 /\ j # 0
        BY <1>3
      <4>2. /\ Wrap(w + j) \in Slot /\ Wrap(w + j) # w
            /\ ~InSpan(Wrap(w + j), m.retBufReadP, w)
        BY <1>1, <1>3, <4>1, RoomIsFree
      <4>3. m.retryBuffers[Wrap(w + j)] = NULL
        BY <4>2 DEF MasterWhole, MasterOK, RingOK
      <4> QED
        BY <1>8, <2>1, <4>2, <4>3
    <3> HIDE DEF lng, x, w
    <3> QED
      BY <1>3, <1>7, <2>1, <3>1, <3>2
  <2>2. CASE i # w
    <3> DEFINE l == m.retryBuffers[i].lng
               d == SpanLength(i, w)
    <3>1. n.retryBuffers[i] = m.retryBuffers[i] /\ m.retryBuffers[i] # NULL
      BY <1>8, <2>2
    <3>2. l \in Nat \ {0} /\ d \in 0 .. MAX_RETRY_BUF - 1 /\ MAX_RETRY_BUF \in Nat
      BY <1>1, <3>1, PacketFields, SpanLengthType, SizeAssumption
    <3>3. /\ l <= d
          /\ \A j \in 1 .. l - 1 : m.retryBuffers[Wrap(i + j)] = NULL
          /\ l < d => m.retryBuffers[Wrap(i + l)] # NULL
      BY <3>1 DEF MasterWhole, RingWhole
    <3>4. SpanLength(i, x) = d + lng
      <4>1. InSpan(i, m.retBufReadP, w)
        BY <3>1 DEF MasterWhole, MasterOK, RingOK
      <4> QED
        BY <1>1, <1>3, <4>1, RoomAddsLength
    <3>5. n.retryBuffers[i].lng = l
      BY <3>1
    <3>6. \A j \in 0 .. d : Wrap(i + j) \in Slot
      BY <3>2, StepInSlot
    <3>7. /\ \A j \in 1 .. l - 1 : Wrap(i + j) # w
          /\ l < d => Wrap(i + l) # w
          /\ l = d => Wrap(i + l) = w
      BY <1>1, <3>2, <3>3, StepWithinSpan
    <3> HIDE DEF l, d, lng, x, w
    <3>8. l <= SpanLength(i, x)
      BY <1>3, <3>2, <3>3, <3>4
    <3>9. ASSUME NEW j \in 1 .. l - 1 PROVE n.retryBuffers[Wrap(i + j)] = NULL
      <4>1. Wrap(i + j) \in Slot
        BY <3>2, <3>3, <3>6
      <4> QED
        BY <1>8, <3>3, <3>7, <4>1
    <3>10. n.retryBuffers[Wrap(i + l)] # NULL
      <4>1. l \in 0 .. d
        BY <3>2, <3>3
      <4>2. Wrap(i + l) \in Slot
        BY <3>6, <4>1
      <4>3. CASE l < d
        BY <1>8, <3>3, <3>7, <4>2, <4>3
      <4>4. CASE l = d
        BY <1>1, <1>6, <1>8, <3>7, <4>4
      <4> QED
        BY <3>2, <3>3, <4>3, <4>4
    <3> QED
      BY <3>5, <3>8, <3>9, <3>10
  <2> QED
    BY <2>1, <2>2
<1>10. MasterWhole(n)
  BY <1>2, <1>4, <1>6, <1>9 DEF MasterWhole
<1> QED
  BY <1>10 DEF n

LEMMA SendHeadWhole ==
  ASSUME NEW m, MasterWhole(m)
  PROVE  MasterWhole(SendHead(m))
<1> DEFINE n == SendHead(m)
           lng == Head(m.Buffers).lng
<1>1. MasterOK(n)
  BY SendHeadOK DEF MasterWhole
<1>2. CASE m.Buffers = <<>> \/ ~RetryRoom(m, lng)
  <2>1. Head(m.Buffers) # NULL \/ m.Buffers = <<>>
    BY MasterFields, WholeDrop, NullAssumption DEF MasterWhole
  <2>2. n = m
    BY <1>2, <2>1 DEF SendHead
  <2> QED
    BY <2>2
<1>3. CASE m.Buffers # <<>> /\ RetryRoom(m, lng)
  <2> DEFINE u == UpdateField(m)
             v == [u EXCEPT !.countdownCRC = 0]
             c == IF m.startCRC THEN m.countdownCRC ELSE CRC_CAL_CYCLE[lng]
             waiting == [m EXCEPT !.startCRC = TRUE, !.countdownCRC = c - 1]
  <2>1. Head(m.Buffers) # NULL
    BY <1>3, MasterFields, WholeDrop, NullAssumption DEF MasterWhole
  <2>2. MasterWhole(u)
    BY <1>3, UpdateFieldWhole
  <2>3. n = v => MasterWhole(n)
    <3> HIDE DEF u, n
    <3>1. /\ v.Buffers = u.Buffers /\ v.backupBuffers = u.backupBuffers
          /\ v.retryBuffers = u.retryBuffers /\ v.retBufWriteP = u.retBufWriteP
          /\ v.startCRC = u.startCRC /\ v.error \notin SplitError
      BY <2>2 DEF MasterWhole, MasterOK, MasterType
    <3> HIDE DEF v
    <3> QED
      BY <1>1, <2>2, <3>1, SameFieldsWhole
  <2>4. n = waiting => MasterWhole(n)
    <3> HIDE DEF n
    <3>1. /\ waiting.Buffers = m.Buffers /\ waiting.backupBuffers = m.backupBuffers
          /\ waiting.retryBuffers = m.retryBuffers
          /\ waiting.retBufWriteP = m.retBufWriteP /\ waiting.error = m.error
      BY DEF MasterWhole, MasterOK, MasterType
    <3> HIDE DEF waiting
    <3>2. RingWhole(waiting)
      BY <3>1 DEF MasterWhole, RingWhole
    <3> QED
      BY <1>1, <1>3, <3>1, <3>2 DEF MasterWhole
  <2>5. n \in {m, v, waiting}
    BY <1>3, <2>1 DEF SendHead, CRCCountdown
  <2> QED
    BY <2>3, <2>4, <2>5
<1> QED
  BY <1>2, <1>3

LEMMA FinishLinkRetryWhole ==
  ASSUME NEW m, MasterWhole(m)
  PROVE  MasterWhole(FinishLinkRetry(m))
<1> DEFINE n == FinishLinkRetry(m)
<1>1. MasterOK(n)
  BY FinishLinkRetryOK DEF MasterWhole
<1>2. CASE n.Buffers = m.Buffers /\ n.backupBuffers = m.backupBuffers
  <2>1. /\ n.retryBuffers = m.retryBuffers /\ n.retBufWriteP = m.retBufWriteP
        /\ n.startCRC = m.startCRC /\ n.error \notin SplitError
    BY DEF FinishLinkRetry, Fail, SplitError, MasterWhole, MasterOK, MasterType
  <2> HIDE DEF n
  <2>2. MasterWhole(n)
    BY <1>1, <1>2, <2>1, SameFieldsWhole
  <2> QED
    BY <2>2 DEF n
<1>3. CASE ~(n.Buffers = m.Buffers /\ n.backupBuffers = m.backupBuffers)
  <2>1. /\ m.Buffers = <<>> /\ n.Buffers = m.backupBuffers /\ n.backupBuffers = <<>>
        /\ n.retryBuffers = m.retryBuffers /\ n.retBufWriteP = m.retBufWriteP
        /\ n.startCRC = m.startCRC /\ n.error = m.error
    BY <1>3 DEF FinishLinkRetry, Fail, MasterWhole, MasterOK, MasterType
  <2> HIDE DEF n
  <2>2. RingWhole(n)
    BY <2>1 DEF MasterWhole, RingWhole
  <2>3. ~m.startCRC
    BY <2>1 DEF MasterWhole
  <2>4. MasterWhole(n)
    BY <1>1, <2>1, <2>2, <2>3, WholeEmpty DEF MasterWhole
  <2> QED
    BY <2>4 DEF n
<1> QED
  BY <1>2, <1>3

LEMMA RunRetryTimerWhole ==
  ASSUME NEW m, MasterWhole(m)
  PROVE  MasterWhole(RunRetryTimer(m))
<1> DEFINE n == RunRetryTimer(m)
<1>1. MasterOK(n)
  BY RunRetryTimerOK DEF MasterWhole
<1>2. /\ n.Buffers = m.Buffers /\ n.backupBuffers = m.backupBuffers
      /\ n.retryBuffers = m.retryBuffers /\ n.retBufWriteP = m.retBufWriteP
      /\ n.startCRC = m.startCRC /\ n.error = m.error
  <2>1. m \in MasterType
    BY DEF MasterWhole, MasterOK
  <2> QED
    BY <2>1 DEF RunRetryTimer, FinishRetry, StartRetry, MasterType
<1> HIDE DEF n
<1>3. MasterWhole(n)
  BY <1>1, <1>2, SameFieldsWhole DEF MasterWhole
<1> QED
  BY <1>3 DEF n

-----------------------------------------------------------------------------
(* LinkSlave::Update; what it does to the slave is in LinkLayer_proofs.    *)

\* As UpdateRetryPointerWhole, for one pointer after the other: a packet that none
\* of them frees does not lose the packet behind it to any of them.
LEMMA PassOverWhole ==
  ASSUME NEW m, MasterWhole(m), NEW s \in SlaveType, NEW k \in 1 .. Len(s.linkRxTx) + 1
  PROVE  MasterWhole(PassOver(m, s, k).m)
<1> DEFINE n == PassOver(m, s, k).m
           w == m.retBufWriteP
           freed(i) == \E j \in FirstLook(s, k) :
                         InSpan(i, ReadAt(m, s, k, j), s.linkRxTx[j].rrp)
<1>1. MasterOK(n) /\ MasterOK(m)
  BY PassOverOK DEF MasterWhole
<1>2. w \in Slot /\ m.retryBuffers \in [Slot -> Packet \cup {NULL}]
  BY MasterFields DEF MasterWhole
<1>3. /\ n.Buffers = m.Buffers /\ n.backupBuffers = m.backupBuffers
      /\ n.retBufWriteP = w /\ n.startCRC = m.startCRC /\ n.error = m.error
      /\ n.retryBuffers = [i \in Slot |-> IF freed(i) THEN NULL ELSE m.retryBuffers[i]]
  BY <1>1 DEF PassOver, FirstLook, ReadAt, MasterOK, MasterType
<1>4. /\ \A j \in FirstLook(s, k) : s.linkRxTx[j].rrp \in Slot
      /\ \A j : ReadAt(m, s, k, j) \in Slot
  BY <1>1, FirstLookSlots
<1> HIDE DEF n
<1>5. RingWhole(n)
  <2> SUFFICES ASSUME NEW i \in Slot, n.retryBuffers[i] # NULL
               PROVE  LET lng == n.retryBuffers[i].lng
                          d == SpanLength(i, w)
                      IN  /\ lng <= d
                          /\ \A j \in 1 .. lng - 1 : n.retryBuffers[Wrap(i + j)] = NULL
                          /\ lng < d => n.retryBuffers[Wrap(i + lng)] # NULL
    BY <1>3 DEF RingWhole
  <2> DEFINE p == m.retryBuffers[i]
             lng == p.lng
             d == SpanLength(i, w)
  <2>1. n.retryBuffers[i] = p /\ p # NULL /\ ~freed(i)
    BY <1>3
  <2>2. p \in Packet
    BY <1>2, <2>1
  <2>3. lng \in Nat \ {0} /\ d \in 0 .. MAX_RETRY_BUF - 1 /\ MAX_RETRY_BUF \in Nat
    BY <1>2, <2>2, PacketFields, SpanLengthType, SizeAssumption
  <2>4. /\ lng <= d
        /\ \A j \in 1 .. lng - 1 : m.retryBuffers[Wrap(i + j)] = NULL
        /\ lng < d => m.retryBuffers[Wrap(i + lng)] # NULL
    BY <2>1 DEF MasterWhole, RingWhole
  <2>5. ASSUME NEW j \in FirstLook(s, k) PROVE InSpan(i, ReadAt(m, s, k, j), w)
    BY <1>1, <2>1, KeptInSpan
  <2> HIDE DEF lng, d, w, p
  <2>6. ASSUME NEW j \in 1 .. lng - 1 PROVE n.retryBuffers[Wrap(i + j)] = NULL
    <3>1. j \in 0 .. MAX_RETRY_BUF
      BY <2>3, <2>4
    <3>2. Wrap(i + j) \in Slot
      BY <3>1, StepInSlot
    <3> QED
      BY <1>3, <2>4, <3>2
  <2>7. ASSUME lng < d PROVE n.retryBuffers[Wrap(i + lng)] # NULL
    <3>1. lng \in 0 .. MAX_RETRY_BUF
      BY <2>3, <2>4
    <3>2. Wrap(i + lng) \in Slot
      BY <3>1, StepInSlot
    <3>3. ASSUME NEW j \in FirstLook(s, k)
          PROVE  ~InSpan(Wrap(i + lng), ReadAt(m, s, k, j), s.linkRxTx[j].rrp)
      <4>1. ~InSpan(i, ReadAt(m, s, k, j), s.linkRxTx[j].rrp)
        BY <2>1
      <4> QED
        BY <1>2, <1>4, <2>3, <2>5, <2>7, <4>1, NextKept DEF d
    <3>4. ~freed(Wrap(i + lng))
      BY <3>3
    <3> QED
      BY <1>3, <2>4, <2>7, <3>2, <3>4
  <2> QED
    BY <2>1, <2>4, <2>6, <2>7 DEF lng, d
<1>6. MasterWhole(n)
  BY <1>1, <1>3, <1>5 DEF MasterWhole
<1> QED
  BY <1>6 DEF n

LEMMA ReceiveIRTRYWhole ==
  ASSUME NEW m, MasterWhole(m), NEW s, SlaveOK(s), NEW k \in 1 .. Len(s.linkRxTx)
  PROVE  MasterWhole(ReceiveIRTRY(m, s, k).m)
<1> DEFINE n == UpdateRetryPointer(m, s.linkRxTx[k].rrp)
<1>1. MasterWhole(n)
  BY RxPacket, PacketFields, UpdateRetryPointerWhole DEF SlaveOK
<1>2. MasterWhole(LinkRetry(n)) /\ MasterWhole(FinishRetry(n))
  BY <1>1, LinkRetryWhole, FinishRetryWhole
<1>3. ReceiveIRTRY(m, s, k).m \in {LinkRetry(n), FinishRetry(n), n}
  BY DEF ReceiveIRTRY
<1> HIDE DEF n
<1> QED
  BY <1>1, <1>2, <1>3

LEMMA CheckPacketWhole ==
  ASSUME NEW m, MasterWhole(m), NEW s, SlaveOK(s), NEW k \in 1 .. Len(s.linkRxTx),
         s.linkRxTx[k].kind # "IRTRY"
  PROVE  MasterWhole(CheckPacket(m, s, k).m)
<1> DEFINE p == s.linkRxTx[k]
           m1 == IF p.chkRRP THEN m ELSE UpdateRetryPointer(m, p.rrp)
           s1 == [CountSEQ(s) EXCEPT !.startCRC = CRC_CHECK, !.countdownCRC = 0]
           good == UpdateToken(ReturnRetryPointer(m1, p), p)
           m2 == IF m1.retryStartPacket THEN Fail(m1, "retryStartPacket is NOT NULL")
                 ELSE [m1 EXCEPT !.retryStartPacket = TRUE]
<1>1. p \in Packet /\ p.rrp \in Slot /\ p.frp \in Slot
  BY RxPacket, PacketFields DEF SlaveOK
<1>2. MasterWhole(m1)
  BY <1>1, UpdateRetryPointerWhole
<1>3. MasterWhole(good) /\ MasterWhole(Fail(good, "link slave buffer is FULL"))
  <2>1. MasterWhole(ReturnRetryPointer(m1, p))
    <3> HIDE DEF m1, p
    <3> QED
      BY <1>1, <1>2, ReturnRetryPointerWhole
  <2>2. MasterWhole(good)
    <3> HIDE DEF m1, p
    <3> QED
      BY <1>1, <2>1, UpdateTokenWhole
  <2> HIDE DEF good
  <2> QED
    BY <2>2, FailWhole DEF Error, SplitError
<1>4. MasterWhole(StartRetry(m2))
  <2> HIDE DEF m1
  <2>1. MasterWhole(Fail(m1, "retryStartPacket is NOT NULL"))
    BY <1>2, FailWhole DEF Error, SplitError
  <2> DEFINE t == [m1 EXCEPT !.retryStartPacket = TRUE]
  <2>2. /\ MasterOK(t) /\ t.Buffers = m1.Buffers /\ t.backupBuffers = m1.backupBuffers
        /\ t.retryBuffers = m1.retryBuffers /\ t.retBufWriteP = m1.retBufWriteP
        /\ t.startCRC = m1.startCRC /\ t.error \notin SplitError
    BY <1>2 DEF MasterWhole, MasterOK, RingOK, MasterType
  <2> HIDE DEF t
  <2>3. MasterWhole(t)
    BY <1>2, <2>2, SameFieldsWhole
  <2>4. MasterWhole(m2)
    BY <2>1, <2>3 DEF t
  <2> HIDE DEF m2
  <2> QED
    BY <2>4, StartRetryWhole
<1>5. CheckPacket(m, s, k).m \in
        {StartRetry(m2), good, Fail(good, "link slave buffer is FULL")}
  <2>1. Receive(good, RemoveRx(s1, k), p).m \in
          {good, Fail(good, "link slave buffer is FULL")}
    <3> HIDE DEF good, s1
    <3> QED
      BY DEF Receive
  <2> HIDE DEF good
  <2> QED
    BY <2>1 DEF CheckPacket, good
<1> HIDE DEF good, m2
<1> QED
  BY <1>3, <1>4, <1>5

LEMMA ReceivingWhole ==
  ASSUME NEW m, MasterWhole(m), NEW s, SlaveOK(s), NEW k \in 1 .. Len(s.linkRxTx) + 1
  PROVE  MasterWhole(Receiving(m, s, k).m)
<1> DEFINE n == PassOver(m, s, k).m
           t == PassOver(m, s, k).s
<1>1. MasterWhole(n)
  BY PassOverWhole DEF SlaveOK
<1>2. t \in SlaveType /\ Len(t.linkRxTx) = Len(s.linkRxTx)
  BY PassOverSlave DEF SlaveOK
<1>3. t.Buffers = s.Buffers
  BY DEF PassOver, SlaveOK, SlaveType
<1>4. Receiving(m, s, k) = Process(n, t, k)
  BY DEF Receiving
<1> HIDE DEF n, t
<1>5. SlaveOK(t)
  BY <1>2, <1>3 DEF SlaveOK
<1>6. CASE k > Len(t.linkRxTx)
  BY <1>1, <1>4, <1>6 DEF Process
<1>7. CASE ~(k > Len(t.linkRxTx))
  <2>1. k \in 1 .. Len(t.linkRxTx)
    BY <1>2, <1>7, LenProperties DEF SlaveType
  <2>2. MasterWhole(UpdateRetryPointer(n, t.linkRxTx[k].rrp))
    BY <1>1, <1>2, <2>1, RxPacket, PacketFields, UpdateRetryPointerWhole
  <2>3. CASE t.linkRxTx[k].kind = "IRTRY"
    <3>1. Process(n, t, k) = ReceiveIRTRY(n, t, k)
      BY <1>7, <2>3 DEF Process
    <3> QED
      BY <1>1, <1>4, <1>5, <2>1, <3>1, ReceiveIRTRYWhole
  <2>4. CASE t.linkRxTx[k].kind # "IRTRY"
    <3>1. MasterWhole(CheckPacket(n, t, k).m)
      BY <1>1, <1>5, <2>1, <2>4, CheckPacketWhole
    <3>2. Process(n, t, k).m \in
            {n, UpdateRetryPointer(n, t.linkRxTx[k].rrp), CheckPacket(n, t, k).m}
      BY <1>7, <2>4 DEF Process
    <3> QED
      BY <1>1, <1>4, <2>2, <3>1, <3>2
  <2> QED
    BY <2>3, <2>4
<1> QED
  BY <1>6, <1>7

-----------------------------------------------------------------------------
(* The inductive invariant.                                                *)

WholeInv == \A e \in End : MasterWhole(master[e])

LEMMA InitWhole == LinkInit => WholeInv
<1>1. MasterWhole(InitMaster)
  <2>1. RingWhole(InitMaster)
    BY DEF RingWhole, InitMaster
  <2> QED
    BY <2>1, InitMasterOK, WholeEmpty DEF MasterWhole, InitMaster, SplitError
<1> QED
  BY <1>1 DEF LinkInit, WholeInv

LEMMA NextWhole == IInv /\ WholeInv /\ [LinkNext]_linkVars => WholeInv'
<1> SUFFICES ASSUME IInv, WholeInv, [LinkNext]_linkVars PROVE WholeInv'
  OBVIOUS
<1> USE DEF WholeInv
<1>0. ASSUME NEW e \in End, NEW m, MasterWhole(m), master' = [master EXCEPT ![e] = m]
      PROVE  WholeInv'
  BY <1>0 DEF IInv, TypeOK
<1>1. ASSUME NEW e \in End, Submit(e) PROVE WholeInv'
  <2> DEFINE n == submitted[e] + 1
             p == NewPacket("DATA", n, Traffic[e][n])
             q == master[e].Buffers \o Flits(p)
             m == [master[e] EXCEPT !.Buffers = q]
  <2>1. p \in Packet
    <3>1. submitted[e] \in Nat
      BY DEF IInv, TypeOK
    <3>2. n \in 1 .. Len(Traffic[e])
      BY <1>1, <3>1 DEF Submit
    <3>3. Traffic[e] \in Seq(1 .. MAX_LINK_BUF)
      BY TrafficAssumption
    <3>4. Traffic[e][n] \in 1 .. MAX_LINK_BUF
      <4> HIDE DEF n
      <4> QED
        BY <3>2, <3>3, ElementOfSeq
    <3> QED
      BY <3>1, <3>4, NewPacketType
  <2>2. /\ master[e].Buffers \in Seq(Packet \cup {NULL})
        /\ Whole(master[e].Buffers) /\ MasterWhole(master[e])
    BY MasterFields DEF MasterWhole
  <2>3. master' = [master EXCEPT ![e] = m]
    BY <1>1 DEF Submit
  <2> HIDE DEF p
  <2>4. q \in Seq(Packet \cup {NULL}) /\ Whole(q)
    BY <2>1, <2>2, WholeAppend
  <2>5. q # <<>>
    <3>1. /\ Flits(p) \in Seq(Packet \cup {NULL}) /\ Len(Flits(p)) = p.lng
          /\ p.lng \in Nat \ {0}
      BY <2>1, FlitsElements, PacketFields
    <3>2. Flits(p) # <<>>
      BY <3>1, EmptySeq
    <3> QED
      BY <2>2, <3>1, <3>2, ConcatEqualIffEmpty
  <2> HIDE DEF q
  <2>6. MasterWhole(m)
    BY <2>2, <2>4, <2>5, NewBuffersWhole
  <2> HIDE DEF m
  <2> QED
    BY <1>0, <2>3, <2>6
<1>2. ASSUME NEW e \in End, MasterUpdate(e) PROVE WholeInv'
  <2>1. MasterWhole(RunRetryTimer(FinishLinkRetry(SendHead(master[e]))))
    BY SendHeadWhole, FinishLinkRetryWhole, RunRetryTimerWhole
  <2> QED
    BY <1>0, <1>2, <2>1 DEF MasterUpdate
<1>3. ASSUME NEW e \in End, LinkStart(e) PROVE WholeInv'
  <2> DEFINE m == [master[e] EXCEPT !.linkRxTx = Tail(@)]
  <2>1. MasterWhole(master[e]) /\ IInv'
    BY <1>3, LinkStartStep
  <2>2. master' = [master EXCEPT ![e] = m]
    BY <1>3 DEF LinkStart
  <2>3. MasterOK(m)
    BY <2>1, <2>2 DEF IInv, TypeOK
  <2>4. /\ m.Buffers = master[e].Buffers /\ m.backupBuffers = master[e].backupBuffers
        /\ m.retryBuffers = master[e].retryBuffers
        /\ m.retBufWriteP = master[e].retBufWriteP
        /\ m.startCRC = master[e].startCRC /\ m.error \notin SplitError
    BY <2>1 DEF MasterWhole, MasterOK, MasterType
  <2> HIDE DEF m
  <2>5. MasterWhole(m)
    BY <2>1, <2>3, <2>4, SameFieldsWhole
  <2> QED
    BY <1>0, <2>2, <2>5
<1>4. ASSUME NEW e \in End, LinkDone(e) \/ LinkNoise(e) PROVE WholeInv'
  BY <1>4 DEF LinkDone, LinkNoise, Arrive
<1>5. ASSUME NEW e \in End, SlaveUpdate(e) PROVE WholeInv'
  <2>1. PICK k \in 1 .. Len(slave[e].linkRxTx) + 1 :
          master' = [master EXCEPT ![e] = Receiving(master[e], slave[e], k).m]
    BY <1>5 DEF SlaveUpdate
  <2>2. MasterWhole(Receiving(master[e], slave[e], k).m)
    BY ReceivingWhole DEF IInv
  <2> QED
    BY <1>0, <2>1, <2>2
<1>6. ASSUME NEW e \in End, SlaveForward(e) PROVE WholeInv'
  <2>1. PICK k \in 1 .. Len(slave[e].linkRxTx) + 1 :
          LET r == Receiving(master[e], slave[e], k)
          IN  /\ r.s.Buffers # <<>>
              /\ master' = [master EXCEPT ![e] = ReturnTocken(r.m, Head(r.s.Buffers))]
    BY <1>6 DEF SlaveForward, Forwarding
  <2> DEFINE r == Receiving(master[e], slave[e], k)
  <2>2. MasterWhole(r.m) /\ SlaveOK(r.s)
    BY ReceivingWhole, ReceivingOK DEF IInv, ResultOK
  <2> HIDE DEF r
  <2>3. Head(r.s.Buffers) \in Packet
    BY <2>1, <2>2, WholeDrop DEF SlaveOK, SlaveType, r
  <2>4. MasterWhole(ReturnTocken(r.m, Head(r.s.Buffers)))
    BY <2>2, <2>3, ReturnTockenWhole
  <2> QED
    BY <1>0, <2>1, <2>4 DEF r
<1>7. CASE UNCHANGED linkVars
  BY <1>7 DEF linkVars
<1> QED
  BY <1>1, <1>2, <1>3, <1>4, <1>5, <1>6, <1>7 DEF LinkNext

LEMMA SpecWhole == LinkSpec => [](IInv /\ WholeInv)
<1>1. IInv /\ WholeInv /\ [LinkNext]_linkVars => (IInv /\ WholeInv)'
  BY NextIInv, NextWhole
<1> QED
  BY <1>1, InitIInv, InitWhole, PTL DEF LinkSpec

\* Buffers, backupBuffers and the slave's buffer hold whole packets, whatever is
\* inserted, restored from the retry buffer or taken out, for any sizes of the
\* buffers and any place the peer's retry pointers move the read pointer to.
THEOREM BuffersWhole == LinkSpec => []WholePackets
<1>1. IInv /\ WholeInv => WholePackets
  BY DEF IInv, WholeInv, MasterWhole, SlaveOK, WholePackets
<1> QED
  BY <1>1, SpecWhole, PTL

\* No master has taken one of the three exits that split packets would lead to.
NoSplitExit == \A e \in End : master[e].error \notin SplitError

\* The exits at LinkMaster.cpp 296 and 258 are dead code and the insertion at 155
\* stays inside Buffers: SendHead never finds a virtual tail at the head, LinkRetry
\* never finds equal pointers, ReturnTocken always finds the whole head packet.
THEOREM SplitExitsDead == LinkSpec => []NoSplitExit
<1>1. WholeInv => NoSplitExit
  BY DEF WholeInv, MasterWhole, NoSplitExit
<1> QED
  BY <1>1, SpecWhole, PTL
=============================================================================
