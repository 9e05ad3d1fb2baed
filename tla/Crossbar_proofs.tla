-------------------------- MODULE Crossbar_proofs --------------------------
(***************************************************************************)
(* Theorems about Crossbar: its invariants, and that it implements         *)
(* CubeMemory.                                                             *)
(*                                                                         *)
(* A request is at each moment in one of five stages.  What is under way   *)
(* for it in a stage - the packets in all buffers, the pending tags and    *)
(* the pending packet - is given by its blocks, and each packet lies in    *)
(* one place (Good).  The buffers keep whole packets, each of them once    *)
(* (Tidy).                                                                 *)
(***************************************************************************)
EXTENDS Crossbar, SumsAndLoops, FiniteSetTheorems

Flit == PacketType \cup {NULL}

Long(t) == Requests[t].size > BLOCK

\* The segment of request t for block b.
RequestSegment(t, b) ==
  [RequestPacket(t) EXCEPT !.size = BLOCK, !.lng = IF Requests[t].cmd = "WR" THEN 1 + BLOCK ELSE 1,
                           !.adrs = b, !.segment = TRUE, !.trace = (b = Requests[t].adrs)]

\* What a vault gets of request t for block b.
Part(t, b) == IF Long(t) THEN RequestSegment(t, b) ELSE RequestPacket(t)

\* The response to request t that leaves the crossbar.
Answer(t) ==
  LET r == Requests[t]
      data == IF Long(t) THEN SegmentCount(r.size) * BLOCK ELSE r.size
  IN [RequestPacket(t) EXCEPT !.size = 1, !.lng = IF r.cmd = "RD" THEN 1 + data ELSE 1]

-----------------------------------------------------------------------------
(* The places where a packet can be, and what they hold.                   *)

Place == {<<"down", 0>>, <<"up", 0>>}
           \cup {"in", "banks", "out"} \X Vault \cup {"link"} \X Link

Contents(down, up, in, banks, out, links) ==
  [x \in Place |-> CASE x[1] = "down" -> Packets(down)
                     [] x[1] = "up" -> Packets(up)
                     [] x[1] = "in" -> Packets(in[x[2]])
                     [] x[1] = "banks" -> banks[x[2]]
                     [] x[1] = "out" -> Packets(out[x[2]])
                     [] x[1] = "link" -> Packets(links[x[2]])]

IsPart(p) == p.adrs \in Blocks(p.tag) /\ p = Part(p.tag, p.adrs)
IsReply(p) == p.adrs \in Blocks(p.tag) /\ p = RespondPacket(Part(p.tag, p.adrs))

\* What a place may hold.
Admits(x, p) ==
  CASE x[1] = "down" -> IsPart(p) \/ p = RequestPacket(p.tag)
    [] x[1] \in {"in", "banks"} -> IsPart(p)
    [] x[1] = "out" -> IsReply(p)
    [] x[1] = "up" -> IsReply(p) \/ p = Answer(p.tag)
    [] x[1] = "link" -> p = Answer(p.tag)

\* No packet is in two places, each is in a place that may hold it.
Placed(held) ==
  /\ held \in [Place -> SUBSET PacketType]
  /\ \A x \in Place : \A p \in held[x] : Admits(x, p)
  /\ \A x, y \in Place : x # y => held[x] \cap held[y] = {}

Everything(held) == UNION {held[x] : x \in Place}

-----------------------------------------------------------------------------
(* The stages of a request t: here = its packets in all places, n = its    *)
(* tags in pendingSegTag, pend = its pending packets, acc = the blocks     *)
(* accessed for it.                                                        *)

\* The pending packet when the blocks in A are back.
Partial(t, A, q) ==
  LET r == Requests[t] IN
  /\ q \in PacketType
  /\ q.tag = t /\ q.cmd = r.cmd /\ q.size = 1 /\ q.segment
  /\ q.lng = IF r.cmd = "RD" THEN 1 + Cardinality(A) * BLOCK ELSE 1
  /\ q.trace <=> r.adrs \in A
  /\ q.trace => q.adrs = r.adrs

Divided(t, here, n, pend, acc) ==
  LET left == {p.adrs : p \in here} IN
  /\ Long(t)
  /\ left \subseteq Blocks(t)
  /\ \A p \in here :
       p \in {RequestSegment(t, p.adrs), RespondPacket(RequestSegment(t, p.adrs))}
  /\ \A p, q \in here : p.adrs = q.adrs => p = q
  /\ n = Cardinality(left) /\ n > 0
  /\ acc = {b \in Blocks(t) : RequestSegment(t, b) \notin here}
  /\ IF left = Blocks(t) THEN pend = {}
     ELSE \E q \in pend : pend = {q} /\ Partial(t, Blocks(t) \ left, q)

Stage(t, here, n, pend, in, acc, ans) ==
  \/ ~in /\ here = {} /\ n = 0 /\ pend = {} /\ acc = {} /\ ans = 0
  \/ in /\ here = {RequestPacket(t)} /\ n = 0 /\ pend = {} /\ acc = {} /\ ans = 0
  \/ in /\ Divided(t, here, n, pend, acc) /\ ans = 0
  \/ in /\ here = {Answer(t)} /\ n = 0 /\ pend = {} /\ acc = Blocks(t) /\ ans = 0
  \/ in /\ here = {} /\ n = 0 /\ pend = {} /\ acc = Blocks(t) /\ ans = 1

Of(t, S) == {p \in S : p.tag = t}
Count(tags, t) == Cardinality({j \in 1 .. Len(tags) : tags[j] = t})
BlocksIn(pairs, t) == {b \in Blocks(t) : <<t, b>> \in pairs}

\* Types, and no two pending packets of one request.
Kept(tags, pending, acc, pairs, ans) ==
  /\ tags \in Seq(Tag) /\ pending \in Seq(PacketType)
  /\ \A m, n \in 1 .. Len(pending) : pending[m].tag = pending[n].tag => m = n
  /\ acc \in SUBSET Tag /\ pairs \in SUBSET (Tag \X Nat) /\ ans \in [Tag -> Nat]

StageOf(t, here, tags, pending, acc, pairs, ans) ==
  Stage(t, here, Count(tags, t), Of(t, ToSet(pending)), t \in acc, BlocksIn(pairs, t), ans[t])

Good(held, tags, pending, acc, pairs, ans) ==
  /\ Placed(held)
  /\ Kept(tags, pending, acc, pairs, ans)
  /\ \A t \in Tag : StageOf(t, Of(t, Everything(held)), tags, pending, acc, pairs, ans)

-----------------------------------------------------------------------------
\* Buffer q holds whole packets, none of them twice.
Tidy(q) ==
  /\ q \in Seq(Flit)
  /\ Whole(q)
  /\ \A i, j \in 1 .. Len(q) : q[i] # NULL /\ q[i] = q[j] => i = j

Buffers(down, up, in, out, links) ==
  /\ Tidy(down) /\ Tidy(up)
  /\ in \in [Vault -> Seq(Flit)] /\ out \in [Vault -> Seq(Flit)] /\ links \in [Link -> Seq(Flit)]
  /\ \A v \in Vault : Tidy(in[v]) /\ Len(in[v]) <= MAX_VLT_BUF
  /\ \A v \in Vault : Tidy(out[v]) /\ Len(out[v]) <= MAX_VLT_BUF
  /\ \A l \in Link : Tidy(links[l]) /\ Len(links[l]) <= MAX_LINK_BUF

InOrder(down, in, banks, out, tags, pending, acc, pairs, ans, up, links) ==
  /\ Buffers(down, up, in, out, links)
  /\ Good(Contents(down, up, in, banks, out, links), tags, pending, acc, pairs, ans)

NoError == ""

CrossbarType ==
  [downBuffers : Seq(Flit), upBuffers : Seq(Flit), pendingSegTag : Seq(Tag),
   pendingSegPacket : Seq(PacketType), inServiceLink : Int, error : {NoError}]

VaultType == [downBuffers : Seq(Flit), banks : SUBSET PacketType, upBuffers : Seq(Flit)]

Ins == [v \in Vault |-> vault[v].downBuffers]
Banks == [v \in Vault |-> vault[v].banks]
Outs == [v \in Vault |-> vault[v].upBuffers]

IInv ==
  /\ crossbar \in CrossbarType /\ vault \in [Vault -> VaultType]
  /\ InOrder(crossbar.downBuffers, Ins, Banks, Outs, crossbar.pendingSegTag,
             crossbar.pendingSegPacket, accepted, accessed, answered, crossbar.upBuffers, link)

-----------------------------------------------------------------------------
(* Buffers.                                                                *)

LEMMA PacketFields ==
  ASSUME NEW p \in PacketType
  PROVE  /\ p.tag \in Tag /\ p.cmd \in {"RD", "WR"} /\ p.adrs \in Nat
         /\ p.size \in Nat \ {0} /\ p.lng \in Nat \ {0}
         /\ p.segment \in BOOLEAN /\ p.trace \in BOOLEAN
         /\ p # NULL
BY NullAssumption DEF PacketType

\* What Tidy says of the element at i, a packet.
WholeAt(q, i) ==
  /\ q[i] \in PacketType /\ q[i].lng \in Nat \ {0}
  /\ i + q[i].lng - 1 <= Len(q)
  /\ \A j \in i + 1 .. i + q[i].lng : j <= Len(q) => (q[j] = NULL <=> j < i + q[i].lng)
  /\ \A j \in 1 .. Len(q) : q[j] = q[i] => j = i

\* A buffer is tidy element by element.
LEMMA TidyByElement ==
  ASSUME NEW q \in Seq(Flit)
  PROVE  Tidy(q) <=> \A i \in 1 .. Len(q) : IF q[i] = NULL THEN i > 1 ELSE WholeAt(q, i)
<1>1. \A i \in 1 .. Len(q) : q[i] # NULL => q[i] \in PacketType /\ q[i].lng \in Nat \ {0}
  BY PacketFields DEF Flit
<1>2. ASSUME Tidy(q), NEW i \in 1 .. Len(q)
      PROVE  IF q[i] = NULL THEN i > 1 ELSE WholeAt(q, i)
  BY <1>1, <1>2 DEF Tidy, Whole, WholeAt
<1>3. ASSUME \A i \in 1 .. Len(q) : IF q[i] = NULL THEN i > 1 ELSE WholeAt(q, i)
      PROVE  Tidy(q)
  <2>1. Whole(q)
    BY <1>3 DEF Whole, WholeAt
  <2>2. \A i, j \in 1 .. Len(q) : q[i] # NULL /\ q[i] = q[j] => i = j
    BY <1>3 DEF WholeAt
  <2> QED BY <2>1, <2>2 DEF Tidy
<1> QED BY <1>2, <1>3

\* The empty buffer.
LEMMA TidyEmpty == Tidy(<<>>) /\ Packets(<<>>) = {} /\ Len(<<>>) = 0
<1>1. <<>> \in Seq(Flit) /\ Len(<<>>) = 0
  OBVIOUS
<1> QED BY <1>1 DEF Tidy, Whole, Packets

\* What it takes to be a packet of a buffer.
LEMMA PacketsOf ==
  ASSUME NEW q \in Seq(Flit), NEW p
  PROVE  p \in Packets(q) <=> \E i \in 1 .. Len(q) : q[i] # NULL /\ q[i] = p
BY DEF Packets

\* A buffer's packets are packets.
LEMMA PacketsType ==
  ASSUME NEW q \in Seq(Flit)
  PROVE  Packets(q) \subseteq PacketType
BY DEF Packets, Flit

\* A packet as a buffer holds it: itself, and a NULL for each further flit.
LEMMA FlitsOf ==
  ASSUME NEW p \in PacketType
  PROVE  /\ Flits(p) \in Seq(Flit) /\ Len(Flits(p)) = p.lng
         /\ \A i \in 1 .. p.lng : Flits(p)[i] = IF i = 1 THEN p ELSE NULL
<1> DEFINE n == p.lng
           tail == [i \in 1 .. n - 1 |-> NULL]
<1>1. n \in Nat \ {0}
  BY PacketFields
<1> HIDE DEF n
<1>2. tail \in Seq(Flit) /\ Len(tail) = n - 1 /\ \A i \in 1 .. n - 1 : tail[i] = NULL
  BY <1>1 DEF Flit
<1> HIDE DEF tail
<1>3. <<p>> \in Seq(Flit) /\ Len(<<p>>) = 1 /\ <<p>>[1] = p
  BY DEF Flit
<1>4. Flits(p) = <<p>> \o tail
  BY DEF Flits, tail, n
<1>5. /\ <<p>> \o tail \in Seq(Flit) /\ Len(<<p>> \o tail) = 1 + (n - 1)
      /\ \A i \in 1 .. 1 + (n - 1) : (<<p>> \o tail)[i] = IF i <= 1 THEN <<p>>[i] ELSE tail[i - 1]
  BY <1>2, <1>3, ConcatProperties
<1>6. 1 + (n - 1) = n
  BY <1>1
<1>7. ASSUME NEW i \in 1 .. n PROVE (<<p>> \o tail)[i] = IF i = 1 THEN p ELSE NULL
  BY <1>1, <1>2, <1>3, <1>5, <1>6
<1> QED BY <1>4, <1>5, <1>6, <1>7 DEF n

\* Such a row is a tidy buffer of one packet.
LEMMA TidyFlits ==
  ASSUME NEW p \in PacketType
  PROVE  Tidy(Flits(p)) /\ Packets(Flits(p)) = {p} /\ Len(Flits(p)) = p.lng /\ Flits(p)[1] = p
<1> DEFINE q == Flits(p)
           n == p.lng
<1>1. n \in Nat \ {0} /\ p # NULL
  BY PacketFields
<1>2. q \in Seq(Flit) /\ Len(q) = n /\ \A i \in 1 .. n : q[i] = IF i = 1 THEN p ELSE NULL
  BY FlitsOf
<1> HIDE DEF q
<1>3. q[1] = p /\ q[1].lng = n
  BY <1>1, <1>2
<1> HIDE DEF n
<1>4. WholeAt(q, 1)
  BY <1>1, <1>2, <1>3 DEF WholeAt
<1>5. ASSUME NEW i \in 1 .. Len(q) PROVE IF q[i] = NULL THEN i > 1 ELSE WholeAt(q, i)
  BY <1>1, <1>2, <1>3, <1>4
<1>6. Tidy(q)
  BY <1>2, <1>5, TidyByElement
<1>7. Packets(q) = {p}
  BY <1>1, <1>2, <1>3 DEF Packets
<1> QED BY <1>2, <1>3, <1>6, <1>7 DEF q, n

\* Two buffers without a common packet make one.
LEMMA TidyConcat ==
  ASSUME NEW q, Tidy(q), NEW r, Tidy(r), Packets(q) \cap Packets(r) = {}
  PROVE  /\ Tidy(q \o r) /\ Packets(q \o r) = Packets(q) \cup Packets(r)
         /\ Len(q \o r) = Len(q) + Len(r)
<1> DEFINE c == q \o r
           n == Len(q)
           m == Len(r)
<1>1. q \in Seq(Flit) /\ r \in Seq(Flit) /\ n \in Nat /\ m \in Nat
  BY LenProperties DEF Tidy
<1>2. /\ c \in Seq(Flit) /\ Len(c) = n + m
      /\ \A i \in 1 .. n + m : c[i] = IF i <= n THEN q[i] ELSE r[i - n]
  BY <1>1, ConcatProperties
<1>3. /\ \A i \in 1 .. n : IF q[i] = NULL THEN i > 1 ELSE WholeAt(q, i)
      /\ \A i \in 1 .. m : IF r[i] = NULL THEN i > 1 ELSE WholeAt(r, i)
  BY <1>1, TidyByElement
<1>4. \A i \in 1 .. n, j \in 1 .. m : q[i] # NULL => q[i] # r[j]
  BY <1>1 DEF Packets
<1> HIDE DEF c
<1>5. \A i \in 1 .. n : i \in 1 .. n + m /\ c[i] = q[i]
  BY <1>1, <1>2
<1>6. \A k \in 1 .. m : n + k \in 1 .. n + m /\ c[n + k] = r[k]
  <2> HIDE DEF n, m
  <2>1. ASSUME NEW k \in 1 .. m PROVE n + k \in 1 .. n + m /\ c[n + k] = r[k]
    <3>1. n + k \in 1 .. n + m /\ ~(n + k <= n) /\ (n + k) - n = k
      BY <1>1
    <3> QED BY <1>2, <3>1
  <2> QED BY <2>1
<1>7. \A i \in 1 .. n + m : i \in 1 .. n \/ \E k \in 1 .. m : i = n + k
  <2>1. ASSUME NEW i \in 1 .. n + m, i \notin 1 .. n PROVE i - n \in 1 .. m /\ i = n + (i - n)
    BY <1>1, <2>1
  <2> QED BY <2>1
<1> HIDE DEF n, m
<1>8. ASSUME NEW i \in 1 .. n, q[i] # NULL PROVE WholeAt(c, i)
  <2> DEFINE l == q[i].lng
  <2>1. /\ q[i] \in PacketType /\ l \in Nat \ {0} /\ i + l - 1 <= n
        /\ \A j \in i + 1 .. i + l : j <= n => (q[j] = NULL <=> j < i + l)
        /\ \A j \in 1 .. n : q[j] = q[i] => j = i
    BY <1>3, <1>8 DEF WholeAt, n
  <2>2. c[i] = q[i] /\ c[i].lng = l
    BY <1>5
  <2> HIDE DEF l
  <2>3. i + l - 1 <= n + m
    BY <1>1, <2>1
  <2>4. ASSUME NEW j \in i + 1 .. i + l, j <= n + m PROVE c[j] = NULL <=> j < i + l
    <3>1. CASE j <= n
      <4>1. j \in 1 .. n
        BY <1>1, <2>1, <3>1
      <4> QED BY <1>5, <2>1, <3>1, <4>1
    <3>2. CASE j > n
      <4>1. j = n + 1 /\ j = i + l /\ 1 \in 1 .. m
        BY <1>1, <2>1, <2>4, <3>2
      <4>2. r[1] # NULL
        BY <1>3, <4>1
      <4>3. c[j] = r[1]
        BY <1>6, <4>1
      <4> QED BY <1>1, <4>1, <4>2, <4>3
    <3> QED BY <1>1, <2>1, <3>1, <3>2
  <2>5. ASSUME NEW j \in 1 .. n + m, c[j] = c[i] PROVE j = i
    <3>1. CASE j \in 1 .. n
      BY <1>5, <2>1, <2>5, <3>1
    <3>2. ASSUME NEW k \in 1 .. m, j = n + k PROVE FALSE
      BY <1>4, <1>5, <1>6, <1>8, <2>5, <3>2
    <3> QED BY <1>7, <3>1, <3>2
  <2> QED BY <1>2, <2>1, <2>2, <2>3, <2>4, <2>5 DEF WholeAt
<1>9. ASSUME NEW k \in 1 .. m, r[k] # NULL PROVE WholeAt(c, n + k)
  <2> DEFINE l == r[k].lng
  <2>1. /\ r[k] \in PacketType /\ l \in Nat \ {0} /\ k + l - 1 <= m
        /\ \A j \in k + 1 .. k + l : j <= m => (r[j] = NULL <=> j < k + l)
        /\ \A j \in 1 .. m : r[j] = r[k] => j = k
    BY <1>3, <1>9 DEF WholeAt, m
  <2>2. c[n + k] = r[k] /\ c[n + k].lng = l
    BY <1>6
  <2> HIDE DEF l
  <2>3. (n + k) + l - 1 <= n + m
    BY <1>1, <2>1
  <2>4. ASSUME NEW j \in (n + k) + 1 .. (n + k) + l, j <= n + m
        PROVE  c[j] = NULL <=> j < (n + k) + l
    <3>1. j - n \in k + 1 .. k + l /\ j - n \in 1 .. m /\ n + (j - n) = j
      BY <1>1, <2>1, <2>4
    <3>2. c[j] = r[j - n]
      BY <1>6, <3>1
    <3>3. r[j - n] = NULL <=> j - n < k + l
      BY <2>1, <3>1
    <3> QED BY <1>1, <2>1, <3>1, <3>2, <3>3
  <2>5. ASSUME NEW j \in 1 .. n + m, c[j] = c[n + k] PROVE j = n + k
    <3>1. CASE j \in 1 .. n
      BY <1>4, <1>5, <1>9, <2>2, <2>5, <3>1
    <3>2. ASSUME NEW h \in 1 .. m, j = n + h PROVE h = k
      BY <1>6, <2>1, <2>2, <2>5, <3>2
    <3> QED BY <1>7, <3>1, <3>2
  <2> QED BY <1>2, <2>1, <2>2, <2>3, <2>4, <2>5 DEF WholeAt
<1>10. ASSUME NEW i \in 1 .. n + m PROVE IF c[i] = NULL THEN i > 1 ELSE WholeAt(c, i)
  <2>1. CASE i \in 1 .. n
    BY <1>3, <1>5, <1>8, <2>1
  <2>2. ASSUME NEW k \in 1 .. m, i = n + k, i \notin 1 .. n
        PROVE  IF c[i] = NULL THEN i > 1 ELSE WholeAt(c, i)
    <3>1. CASE c[i] = NULL
      <4>1. r[k] = NULL
        BY <1>6, <2>2, <3>1
      <4>2. k > 1
        BY <1>3, <4>1
      <4> QED BY <1>1, <2>2, <3>1, <4>2
    <3>2. CASE c[i] # NULL
      BY <1>6, <1>9, <2>2, <3>2
    <3> QED BY <3>1, <3>2
  <2> QED BY <1>7, <2>1, <2>2
<1>11. Tidy(c)
  BY <1>2, <1>10, TidyByElement
<1>12. ASSUME NEW p PROVE p \in Packets(c) <=> p \in Packets(q) \cup Packets(r)
  <2>1. ASSUME NEW i \in 1 .. n + m, c[i] # NULL, c[i] = p
        PROVE  p \in Packets(q) \cup Packets(r)
    <3>1. CASE i \in 1 .. n
      BY <1>1, <1>5, <2>1, <3>1, PacketsOf DEF n
    <3>2. ASSUME NEW k \in 1 .. m, i = n + k PROVE p \in Packets(r)
      BY <1>1, <1>6, <2>1, <3>2, PacketsOf DEF m
    <3> QED BY <1>7, <3>1, <3>2
  <2>2. ASSUME NEW i \in 1 .. n, q[i] # NULL, q[i] = p PROVE p \in Packets(c)
    BY <1>2, <1>5, <2>2, PacketsOf
  <2>3. ASSUME NEW i \in 1 .. m, r[i] # NULL, r[i] = p PROVE p \in Packets(c)
    BY <1>2, <1>6, <2>3, PacketsOf
  <2> QED BY <1>1, <1>2, <2>1, <2>2, <2>3, PacketsOf DEF n, m
<1> QED BY <1>2, <1>11, <1>12 DEF c, n, m

\* The elements of q from c + 1 to d.
LEMMA Stretch ==
  ASSUME NEW q \in Seq(Flit), NEW c \in Nat, NEW d \in Nat, c <= d, d <= Len(q)
  PROVE  /\ SubSeq(q, c + 1, d) \in Seq(Flit) /\ Len(SubSeq(q, c + 1, d)) = d - c
         /\ \A k \in 1 .. d - c : c + k \in 1 .. Len(q) /\ SubSeq(q, c + 1, d)[k] = q[c + k]
<1>1. Len(q) \in Nat /\ \A k \in 1 .. Len(q) : q[k] \in Flit
  OBVIOUS
<1>2. \A k \in c + 1 .. d : q[k] \in Flit
  BY <1>1
<1>3. /\ SubSeq(q, c + 1, d) \in Seq(Flit)
      /\ Len(SubSeq(q, c + 1, d)) = IF c + 1 <= d THEN d - (c + 1) + 1 ELSE 0
      /\ \A k \in 1 .. d - (c + 1) + 1 : SubSeq(q, c + 1, d)[k] = q[(c + 1) + k - 1]
  BY <1>2, SubSeqProperties
<1>4. ASSUME NEW k \in 1 .. d - c
      PROVE  c + k \in 1 .. Len(q) /\ SubSeq(q, c + 1, d)[k] = q[c + k]
  <2>1. k \in 1 .. d - (c + 1) + 1 /\ (c + 1) + k - 1 = c + k /\ c + k \in 1 .. Len(q)
    BY <1>1
  <2> QED BY <1>3, <2>1
<1>5. (IF c + 1 <= d THEN d - (c + 1) + 1 ELSE 0) = d - c
  OBVIOUS
<1> QED BY <1>3, <1>4, <1>5

\* a lies in front of the packet at i, b behind it, from s + 1.
PartedAt(q, i, s, a, b) ==
  /\ i \in 1 .. Len(q) /\ q[i] # NULL
  /\ s = i + q[i].lng - 1
  /\ a \in Seq(Flit) /\ Len(a) = i - 1 /\ \A k \in 1 .. i - 1 : a[k] = q[k]
  /\ b \in Seq(Flit) /\ Len(b) = Len(q) - s /\ \A k \in 1 .. Len(q) - s : b[k] = q[s + k]

\* A tidy buffer without one of its packets falls into two tidy buffers.
LEMMA TidyParts ==
  ASSUME NEW q, Tidy(q), NEW i, NEW s, NEW a, NEW b, PartedAt(q, i, s, a, b)
  PROVE  /\ Tidy(a) /\ Tidy(b) /\ Len(a) + Len(b) + q[i].lng = Len(q)
         /\ q[i] \notin Packets(a) /\ q[i] \notin Packets(b)
         /\ Packets(a) \cap Packets(b) = {}
         /\ Packets(q) = Packets(a) \cup Packets(b) \cup {q[i]}
<1> DEFINE n == Len(q)
           l == q[i].lng
           m == n - s
<1>0. i \in 1 .. n /\ q[i] # NULL
  BY DEF PartedAt
<1>1. q \in Seq(Flit) /\ n \in Nat /\ i \in Nat /\ i >= 1 /\ i <= n
  BY <1>0, LenProperties DEF Tidy
<1>2. \A k \in 1 .. n : IF q[k] = NULL THEN k > 1 ELSE WholeAt(q, k)
  BY <1>1, TidyByElement
<1>3. /\ q[i] \in PacketType /\ l \in Nat \ {0} /\ i + l - 1 <= n
      /\ \A j \in i + 1 .. i + l : j <= n => (q[j] = NULL <=> j < i + l)
      /\ \A j \in 1 .. n : q[j] = q[i] => j = i
  BY <1>0, <1>2 DEF WholeAt
<1>4. /\ s = i + l - 1 /\ Len(b) = m /\ b \in Seq(Flit) /\ \A k \in 1 .. m : b[k] = q[s + k]
      /\ a \in Seq(Flit) /\ Len(a) = i - 1 /\ \A k \in 1 .. i - 1 : a[k] = q[k]
  BY DEF PartedAt
<1> HIDE DEF n, l
<1>6. s \in Nat /\ s <= n /\ i <= s /\ m = n - s /\ i + l = s + 1
  BY <1>1, <1>3, <1>4
<1> HIDE DEF m
<1>7. a \in Seq(Flit) /\ Len(a) = i - 1 /\ \A k \in 1 .. i - 1 : k \in 1 .. n /\ k < i /\ a[k] = q[k]
  BY <1>1, <1>4
<1>8. b \in Seq(Flit) /\ Len(b) = m
  BY <1>4
<1>9. \A k \in 1 .. m : s + k \in 1 .. n /\ s + k > i /\ b[k] = q[s + k]
  <2>1. ASSUME NEW k \in 1 .. m PROVE s + k \in 1 .. n /\ s + k > i
    BY <1>1, <1>6
  <2> QED BY <1>4, <2>1
<1>10. /\ \A k \in 1 .. i - 1 : k \in 1 .. n /\ k < i /\ a[k] = q[k]
       /\ \A k \in 1 .. m : s + k \in 1 .. n /\ s + k > i /\ b[k] = q[s + k]
  BY <1>7, <1>9
<1>11. ASSUME NEW k \in 1 .. i - 1, a[k] # NULL PROVE WholeAt(a, k)
  <2> DEFINE h == q[k].lng
  <2>1. a[k] = q[k] /\ k \in 1 .. n /\ k < i
    BY <1>10
  <2>2. /\ q[k] \in PacketType /\ h \in Nat \ {0} /\ k + h - 1 <= n
        /\ \A j \in k + 1 .. k + h : j <= n => (q[j] = NULL <=> j < k + h)
        /\ \A j \in 1 .. n : q[j] = q[k] => j = k
    BY <1>2, <1>11, <2>1 DEF WholeAt, n
  <2>3. a[k].lng = h
    BY <2>1
  <2> HIDE DEF h
  <2>4. k + h <= i
    <3>1. ASSUME k + h > i PROVE FALSE
      <4>1. i \in k + 1 .. k + h
        BY <1>1, <2>1, <2>2, <3>1
      <4>2. q[i] = NULL
        BY <1>1, <2>2, <3>1, <4>1
      <4> QED BY <1>0, <4>2
    <3> QED BY <1>1, <2>1, <2>2, <3>1
  <2>5. \A j \in k + 1 .. k + h : j <= i - 1 => (a[j] = NULL <=> j < k + h)
    BY <1>1, <1>10, <2>1, <2>2
  <2>6. \A j \in 1 .. i - 1 : a[j] = a[k] => j = k
    BY <1>10, <2>2
  <2>7. k + h - 1 <= i - 1
    BY <1>1, <2>1, <2>2, <2>4
  <2> QED BY <1>7, <2>1, <2>2, <2>3, <2>5, <2>6, <2>7 DEF WholeAt
<1>12. ASSUME NEW k \in 1 .. m, b[k] # NULL PROVE WholeAt(b, k)
  <2> DEFINE h == q[s + k].lng
  <2>1. b[k] = q[s + k] /\ s + k \in 1 .. n
    BY <1>10
  <2>2. /\ q[s + k] \in PacketType /\ h \in Nat \ {0} /\ (s + k) + h - 1 <= n
        /\ \A j \in (s + k) + 1 .. (s + k) + h : j <= n => (q[j] = NULL <=> j < (s + k) + h)
        /\ \A j \in 1 .. n : q[j] = q[s + k] => j = s + k
    BY <1>2, <1>12, <2>1 DEF WholeAt, n
  <2>3. b[k].lng = h
    BY <2>1
  <2> HIDE DEF h
  <2>4. k + h - 1 <= m
    BY <1>1, <1>6, <2>2
  <2>5. ASSUME NEW j \in k + 1 .. k + h, j <= m PROVE b[j] = NULL <=> j < k + h
    <3>1. j \in 1 .. m /\ s + j \in (s + k) + 1 .. (s + k) + h /\ s + j <= n
      BY <1>1, <1>6, <2>2, <2>5
    <3>2. b[j] = q[s + j]
      BY <1>10, <3>1
    <3>3. q[s + j] = NULL <=> s + j < (s + k) + h
      BY <2>2, <3>1
    <3> QED BY <1>6, <2>2, <3>1, <3>2, <3>3
  <2>6. ASSUME NEW j \in 1 .. m, b[j] = b[k] PROVE j = k
    <3>1. s + j \in 1 .. n /\ q[s + j] = q[s + k]
      BY <1>10, <2>1, <2>6
    <3>2. s + j = s + k
      BY <2>2, <3>1
    <3> QED BY <1>6, <3>2
  <2> QED BY <1>8, <2>1, <2>2, <2>3, <2>4, <2>5, <2>6 DEF WholeAt
<1>13. Tidy(a)
  <2>1. ASSUME NEW k \in 1 .. i - 1, a[k] = NULL PROVE k > 1
    BY <1>2, <1>10, <2>1
  <2>2. \A k \in 1 .. Len(a) : IF a[k] = NULL THEN k > 1 ELSE WholeAt(a, k)
    BY <1>7, <1>11, <2>1
  <2> QED BY <1>7, <2>2, TidyByElement
<1>14. Tidy(b)
  <2>1. ASSUME NEW k \in 1 .. m, b[k] = NULL PROVE k > 1
    <3>1. ASSUME k = 1 PROVE FALSE
      <4>1. s + 1 \in 1 .. n /\ b[1] = q[s + 1]
        BY <1>10, <2>1, <3>1
      <4>2. s + 1 \in i + 1 .. i + l /\ s + 1 <= n /\ ~(s + 1 < i + l)
        BY <1>1, <1>3, <1>6, <4>1
      <4>3. q[s + 1] # NULL
        BY <1>3, <4>2
      <4> QED BY <2>1, <3>1, <4>1, <4>3
    <3> QED BY <3>1
  <2>2. \A k \in 1 .. Len(b) : IF b[k] = NULL THEN k > 1 ELSE WholeAt(b, k)
    BY <1>8, <1>12, <2>1
  <2> QED BY <1>8, <2>2, TidyByElement
<1>15. q[i] \notin Packets(a) /\ q[i] \notin Packets(b)
  <2>1. q[i] \notin Packets(a)
    BY <1>3, <1>7, <1>10, PacketsOf
  <2>2. q[i] \notin Packets(b)
    BY <1>3, <1>8, <1>10, PacketsOf
  <2> QED BY <2>1, <2>2
<1>16. \A k \in 1 .. n : q[k] # NULL => k = i \/ k \in 1 .. i - 1 \/ k - s \in 1 .. m
  <2>1. ASSUME NEW k \in 1 .. n, q[k] # NULL, k > i PROVE k - s \in 1 .. m
    <3>1. ~(k < i + l)
      BY <1>1, <1>3, <2>1
    <3> QED BY <1>1, <1>6, <3>1
  <2> QED BY <1>1, <2>1
<1>17. Packets(a) \cap Packets(b) = {}
  <2>1. ASSUME NEW p, NEW j \in 1 .. i - 1, a[j] # NULL, a[j] = p, NEW k \in 1 .. m, b[k] = p
        PROVE  FALSE
    <3>1. q[j] = p /\ q[s + k] = p /\ j \in 1 .. n /\ s + k \in 1 .. n /\ j < i /\ s + k > i
      BY <1>10, <2>1
    <3>2. WholeAt(q, j)
      BY <1>2, <2>1, <3>1
    <3>3. j = s + k
      BY <3>1, <3>2 DEF WholeAt, n
    <3> QED BY <1>1, <1>6, <3>1, <3>3
  <2> QED BY <1>7, <1>8, <2>1, PacketsOf
<1>18. ASSUME NEW p PROVE p \in Packets(q) <=> p \in Packets(a) \cup Packets(b) \cup {q[i]}
  <2>1. ASSUME NEW k \in 1 .. n, q[k] # NULL, q[k] = p
        PROVE  p \in Packets(a) \cup Packets(b) \cup {q[i]}
    <3>1. CASE k = i
      BY <2>1, <3>1
    <3>2. CASE k \in 1 .. i - 1
      BY <1>7, <1>10, <2>1, <3>2, PacketsOf
    <3>3. CASE k - s \in 1 .. m
      <4>1. s + (k - s) = k
        BY <1>6
      <4>2. b[k - s] = p
        BY <1>10, <2>1, <3>3, <4>1
      <4> QED BY <1>8, <2>1, <3>3, <4>2, PacketsOf
    <3> QED BY <1>16, <2>1, <3>1, <3>2, <3>3
  <2>2. ASSUME NEW k \in 1 .. i - 1, a[k] # NULL, a[k] = p PROVE p \in Packets(q)
    BY <1>1, <1>10, <2>2, PacketsOf DEF n
  <2>3. ASSUME NEW k \in 1 .. m, b[k] # NULL, b[k] = p PROVE p \in Packets(q)
    BY <1>1, <1>10, <2>3, PacketsOf DEF n
  <2>4. q[i] \in Packets(q)
    BY <1>0, <1>1, PacketsOf DEF n
  <2>5. p \in Packets(q) <=> \E k \in 1 .. n : q[k] # NULL /\ q[k] = p
    BY <1>1, PacketsOf DEF n
  <2>6. p \in Packets(a) <=> \E k \in 1 .. i - 1 : a[k] # NULL /\ a[k] = p
    BY <1>7, PacketsOf
  <2>7. p \in Packets(b) <=> \E k \in 1 .. m : b[k] # NULL /\ b[k] = p
    BY <1>8, PacketsOf
  <2> QED BY <2>1, <2>2, <2>3, <2>4, <2>5, <2>6, <2>7
<1>19. Len(a) + Len(b) + l = n
  BY <1>1, <1>3, <1>7, <1>8, <1>6
<1> QED BY <1>13, <1>14, <1>15, <1>17, <1>18, <1>19 DEF n, l

\* A packet parts a buffer in two.
LEMMA TidyCut ==
  ASSUME NEW q, Tidy(q), NEW i \in 1 .. Len(q), q[i] # NULL
  PROVE  LET a == SubSeq(q, 1, i - 1)
             b == SubSeq(q, i + q[i].lng, Len(q))
         IN  /\ q[i] \in PacketType /\ Tidy(a) /\ Tidy(b)
             /\ Len(a) + Len(b) + q[i].lng = Len(q)
             /\ q[i] \notin Packets(a) /\ q[i] \notin Packets(b)
             /\ Packets(a) \cap Packets(b) = {}
             /\ Packets(q) = Packets(a) \cup Packets(b) \cup {q[i]}
<1> DEFINE n == Len(q)
           s == i + q[i].lng - 1
           a == SubSeq(q, 0 + 1, i - 1)
           b == SubSeq(q, s + 1, n)
<1>1. q \in Seq(Flit) /\ n \in Nat /\ i \in Nat /\ i >= 1 /\ i <= n
  BY LenProperties DEF Tidy
<1>2. WholeAt(q, i)
  BY <1>1, TidyByElement
<1>3. q[i] \in PacketType /\ q[i].lng \in Nat \ {0} /\ s <= n
  BY <1>2 DEF WholeAt
<1>4. s \in Nat /\ s + 1 = i + q[i].lng /\ i - 1 \in Nat /\ i - 1 <= n /\ i - 1 - 0 = i - 1 /\ 0 + 1 = 1
  BY <1>1, <1>3
<1>5. a = SubSeq(q, 1, i - 1) /\ b = SubSeq(q, i + q[i].lng, Len(q))
  BY <1>4
<1>6. s = i + q[i].lng - 1
  OBVIOUS
<1> HIDE DEF s
<1>7. /\ a \in Seq(Flit) /\ Len(a) = i - 1 - 0
      /\ \A k \in 1 .. i - 1 - 0 : 0 + k \in 1 .. n /\ a[k] = q[0 + k]
  <2> HIDE DEF n
  <2>1. n = Len(q) /\ 0 \in Nat /\ 0 <= i - 1
    BY <1>4 DEF n
  <2> QED BY <1>1, <1>4, <2>1, Stretch
<1>8. /\ b \in Seq(Flit) /\ Len(b) = n - s
      /\ \A k \in 1 .. n - s : s + k \in 1 .. n /\ b[k] = q[s + k]
  BY <1>1, <1>3, <1>4, Stretch
<1> HIDE DEF a, b
<1>9. \A k \in 1 .. i - 1 : a[k] = q[k]
  <2>1. ASSUME NEW k \in 1 .. i - 1 PROVE a[k] = q[k]
    <3>1. k \in 1 .. i - 1 - 0 /\ 0 + k = k
      BY <1>4
    <3> QED BY <1>7, <3>1
  <2> QED BY <2>1
<1>10. Len(a) = i - 1
  BY <1>4, <1>7
<1>11. /\ Tidy(a) /\ Tidy(b) /\ Len(a) + Len(b) + q[i].lng = Len(q)
       /\ q[i] \notin Packets(a) /\ q[i] \notin Packets(b)
       /\ Packets(a) \cap Packets(b) = {}
       /\ Packets(q) = Packets(a) \cup Packets(b) \cup {q[i]}
  <2>1. PartedAt(q, i, s, a, b)
    BY <1>6, <1>7, <1>8, <1>9, <1>10 DEF PartedAt
  <2> QED BY <2>1, TidyParts
<1> QED BY <1>3, <1>5, <1>11

\* A packet is taken out of a buffer.
LEMMA TidyErase ==
  ASSUME NEW q, Tidy(q), NEW i \in 1 .. Len(q), q[i] # NULL
  PROVE  /\ q[i] \in Packets(q) /\ q[i] \in PacketType
         /\ Tidy(Erase(q, i)) /\ Packets(Erase(q, i)) = Packets(q) \ {q[i]}
         /\ Len(Erase(q, i)) + q[i].lng = Len(q)
<1> DEFINE a == SubSeq(q, 1, i - 1)
           b == SubSeq(q, i + q[i].lng, Len(q))
<1>1. /\ q[i] \in PacketType /\ Tidy(a) /\ Tidy(b)
      /\ Len(a) + Len(b) + q[i].lng = Len(q)
      /\ q[i] \notin Packets(a) /\ q[i] \notin Packets(b)
      /\ Packets(a) \cap Packets(b) = {}
      /\ Packets(q) = Packets(a) \cup Packets(b) \cup {q[i]}
  BY TidyCut
<1>2. Erase(q, i) = a \o b
  BY DEF Erase
<1> HIDE DEF a, b
<1>3. Tidy(a \o b) /\ Packets(a \o b) = Packets(a) \cup Packets(b) /\ Len(a \o b) = Len(a) + Len(b)
  BY <1>1, TidyConcat
<1> QED BY <1>1, <1>2, <1>3

\* A packet is put behind a buffer, or in front of it.
LEMMA TidyPut ==
  ASSUME NEW q, Tidy(q), NEW p \in PacketType, p \notin Packets(q)
  PROVE  /\ Tidy(q \o Flits(p)) /\ Packets(q \o Flits(p)) = Packets(q) \cup {p}
         /\ Len(q \o Flits(p)) = Len(q) + p.lng
         /\ Tidy(Flits(p) \o q) /\ Packets(Flits(p) \o q) = Packets(q) \cup {p}
<1> DEFINE f == Flits(p)
<1>1. Tidy(f) /\ Packets(f) = {p} /\ Len(f) = p.lng
  BY TidyFlits
<1> HIDE DEF f
<1>2. Packets(q) \cap Packets(f) = {} /\ Packets(f) \cap Packets(q) = {}
  BY <1>1
<1>3. /\ Tidy(q \o f) /\ Packets(q \o f) = Packets(q) \cup Packets(f)
      /\ Len(q \o f) = Len(q) + Len(f)
  BY <1>1, <1>2, TidyConcat
<1>4. Tidy(f \o q) /\ Packets(f \o q) = Packets(f) \cup Packets(q)
  BY <1>1, <1>2, TidyConcat
<1> QED BY <1>1, <1>3, <1>4 DEF f

-----------------------------------------------------------------------------
(* The loops.                                                              *)

\* What each iteration of the loop over downBuffers keeps holds at its end.
LEMMA DownLoopStays ==
  ASSUME NEW S, NEW st \in S, Len(st.down) \in Nat, \A x \in S : DownStep(x) \in S
  PROVE  DownLoop(st) \in S
<1> DEFINE n == Len(st.down)
           SS == {{x} : x \in S}
           G == [y \in SS \X (0 .. n - 1) |-> {DownStep(x) : x \in y[1]}]
           Is(f) == f = [k \in 0 .. n |-> IF k = 0 THEN {st} ELSE {DownStep(x) : x \in f[k - 1]}]
           f == CHOOSE f : Is(f)
<1>1. \A X \in SS : {DownStep(x) : x \in X} \in SS
  <2>1. ASSUME NEW x \in S PROVE {DownStep(y) : y \in {x}} = {DownStep(x)} /\ {DownStep(x)} \in SS
    OBVIOUS
  <2> QED BY <2>1
<1>2. {st} \in SS /\ n \in Nat
  OBVIOUS
<1> HIDE DEF SS, n
<1>3. Rounds(G, SS, n)
  BY <1>1 DEF Rounds
<1>4. PICK g : Runs(g, G, SS, {st}, n)
  BY <1>2, <1>3, LoopExists
<1>5. Is(g)
  <2>1. /\ g \in [0 .. n -> SS] /\ g[0] = {st}
        /\ \A k \in 1 .. n : g[k] = G[<<g[k - 1], k - 1>>]
    BY <1>4 DEF Runs
  <2>2. ASSUME NEW k \in 1 .. n PROVE g[k] = {DownStep(x) : x \in g[k - 1]}
    <3>1. g[k - 1] \in SS /\ k - 1 \in 0 .. n - 1
      BY <1>2, <2>1
    <3>2. G[<<g[k - 1], k - 1>>] = {DownStep(x) : x \in g[k - 1]}
      BY <3>1
    <3> QED BY <2>1, <3>2
  <2>3. ASSUME NEW k \in 0 .. n
        PROVE  g[k] = IF k = 0 THEN {st} ELSE {DownStep(x) : x \in g[k - 1]}
    <3>1. k = 0 \/ (k \in 1 .. n /\ k # 0)
      BY <1>2
    <3> QED BY <2>1, <2>2, <3>1
  <2> QED BY <2>1, <2>3
<1>6. Is(f)
  <2> HIDE DEF Is
  <2> QED BY <1>5
<1> HIDE DEF f
<1>7. \A k \in 0 .. n : f[k] = IF k = 0 THEN {st} ELSE {DownStep(x) : x \in f[k - 1]}
  BY <1>6
<1> HIDE DEF Is
<1>8. f[0] \in SS /\ \A k \in 1 .. n : f[k - 1] \in SS => f[k] \in SS
  <2>1. f[0] = {st}
    <3>1. 0 \in 0 .. n
      BY <1>2
    <3> QED BY <1>7, <3>1
  <2>2. \A k \in 1 .. n : k \in 0 .. n /\ k # 0
    BY <1>2
  <2> QED BY <1>1, <1>2, <1>7, <2>1, <2>2
<1>9. f[n] \in SS
  BY <1>2, <1>8, LoopStays
<1>10. DownLoop(st) = CHOOSE x \in f[n] : TRUE
  BY DEF DownLoop, Iterate, f, Is, n
<1>11. PICK x \in S : f[n] = {x}
  BY <1>9 DEF SS
<1> QED BY <1>10, <1>11

-----------------------------------------------------------------------------
(* Requests and the loops.                                                 *)

\* The same for the loop over upBuffers.
LEMMA UpFlitsType ==
  ASSUME NEW st, Len(st.up) \in Nat, st.pending \in Seq(PacketType)
  PROVE  UpFlits(st) \in Nat
<1> DEFINE n == Len(st.pending)
           m == Len(st.up)
           G == [y \in Nat \X (0 .. n - 1) |-> y[1] + st.pending[y[2] + 1].lng]
           Is(f) == f = [k \in 0 .. n |-> IF k = 0 THEN m ELSE f[k - 1] + st.pending[k].lng]
           f == CHOOSE f : Is(f)
<1>1. n \in Nat /\ m \in Nat /\ \A k \in 1 .. n : st.pending[k].lng \in Nat
  BY PacketFields
<1>2. UpFlits(st) = f[n]
  BY DEF UpFlits, Is, f
<1> HIDE DEF n, m
<1>3. Rounds(G, Nat, n)
  BY <1>1 DEF Rounds
<1>4. PICK g : Runs(g, G, Nat, m, n)
  BY <1>1, <1>3, LoopExists
<1>5. Is(g)
  <2>1. /\ g \in [0 .. n -> Nat] /\ g[0] = m
        /\ \A k \in 1 .. n : g[k] = G[<<g[k - 1], k - 1>>]
    BY <1>4 DEF Runs
  <2>2. ASSUME NEW k \in 1 .. n PROVE g[k] = g[k - 1] + st.pending[k].lng
    <3>1. g[k - 1] \in Nat /\ k - 1 \in 0 .. n - 1 /\ (k - 1) + 1 = k
      BY <1>1, <2>1
    <3>2. G[<<g[k - 1], k - 1>>] = g[k - 1] + st.pending[(k - 1) + 1].lng
      BY <3>1
    <3> QED BY <2>1, <3>1, <3>2
  <2>3. \A k \in 0 .. n : g[k] = IF k = 0 THEN m ELSE g[k - 1] + st.pending[k].lng
    BY <1>1, <2>1, <2>2
  <2> QED BY <2>1, <2>3
<1>6. Is(f)
  <2> HIDE DEF Is
  <2> QED BY <1>5
<1> HIDE DEF f
<1>7. f[0] \in Nat /\ \A k \in 1 .. n : f[k - 1] \in Nat => f[k] \in Nat
  <2>1. \A k \in 0 .. n : f[k] = IF k = 0 THEN m ELSE f[k - 1] + st.pending[k].lng
    BY <1>6
  <2>2. f[0] = m
    <3>1. 0 \in 0 .. n
      BY <1>1
    <3> QED BY <2>1, <3>1
  <2>3. ASSUME NEW k \in 1 .. n, f[k - 1] \in Nat PROVE f[k] \in Nat
    <3>1. k \in 0 .. n /\ k # 0
      BY <1>1
    <3>2. f[k] = f[k - 1] + st.pending[k].lng /\ st.pending[k].lng \in Nat
      BY <1>1, <2>1, <3>1
    <3> QED BY <2>3, <3>2
  <2> QED BY <1>1, <2>2, <2>3
<1>8. f[n] \in Nat
  BY <1>1, <1>7, LoopStays
<1> QED BY <1>2, <1>8

\* What each iteration of the loop over upBuffers keeps holds at its end.
LEMMA UpLoopStays ==
  ASSUME NEW S, NEW st \in S, Len(st.up) \in Nat, st.pending \in Seq(PacketType),
         \A x \in S : UpStep(x) \in S
  PROVE  UpLoop(st) \in S
<1> DEFINE n == 2 * UpFlits(st)
           SS == {{x} : x \in S}
           G == [y \in SS \X (0 .. n - 1) |-> {UpStep(x) : x \in y[1]}]
           Is(f) == f = [k \in 0 .. n |-> IF k = 0 THEN {st} ELSE {UpStep(x) : x \in f[k - 1]}]
           f == CHOOSE f : Is(f)
<1>1. \A X \in SS : {UpStep(x) : x \in X} \in SS
  <2>1. ASSUME NEW x \in S PROVE {UpStep(y) : y \in {x}} = {UpStep(x)} /\ {UpStep(x)} \in SS
    OBVIOUS
  <2> QED BY <2>1
<1>2. {st} \in SS /\ n \in Nat
  <2>1. UpFlits(st) \in Nat
    BY UpFlitsType
  <2> QED BY <2>1
<1> HIDE DEF SS, n
<1>3. Rounds(G, SS, n)
  BY <1>1 DEF Rounds
<1>4. PICK g : Runs(g, G, SS, {st}, n)
  BY <1>2, <1>3, LoopExists
<1>5. Is(g)
  <2>1. /\ g \in [0 .. n -> SS] /\ g[0] = {st}
        /\ \A k \in 1 .. n : g[k] = G[<<g[k - 1], k - 1>>]
    BY <1>4 DEF Runs
  <2>2. ASSUME NEW k \in 1 .. n PROVE g[k] = {UpStep(x) : x \in g[k - 1]}
    <3>1. g[k - 1] \in SS /\ k - 1 \in 0 .. n - 1
      BY <1>2, <2>1
    <3>2. G[<<g[k - 1], k - 1>>] = {UpStep(x) : x \in g[k - 1]}
      BY <3>1
    <3> QED BY <2>1, <3>2
  <2>3. ASSUME NEW k \in 0 .. n
        PROVE  g[k] = IF k = 0 THEN {st} ELSE {UpStep(x) : x \in g[k - 1]}
    <3>1. k = 0 \/ (k \in 1 .. n /\ k # 0)
      BY <1>2
    <3> QED BY <2>1, <2>2, <3>1
  <2> QED BY <2>1, <2>3
<1>6. Is(f)
  <2> HIDE DEF Is
  <2> QED BY <1>5
<1> HIDE DEF f
<1>7. \A k \in 0 .. n : f[k] = IF k = 0 THEN {st} ELSE {UpStep(x) : x \in f[k - 1]}
  BY <1>6
<1> HIDE DEF Is
<1>8. f[0] \in SS /\ \A k \in 1 .. n : f[k - 1] \in SS => f[k] \in SS
  <2>1. f[0] = {st}
    <3>1. 0 \in 0 .. n
      BY <1>2
    <3> QED BY <1>7, <3>1
  <2>2. \A k \in 1 .. n : k \in 0 .. n /\ k # 0
    BY <1>2
  <2> QED BY <1>1, <1>2, <1>7, <2>1, <2>2
<1>9. f[n] \in SS
  BY <1>2, <1>8, LoopStays
<1>10. UpLoop(st) = CHOOSE x \in f[n] : TRUE
  BY DEF UpLoop, Iterate, f, Is, n
<1>11. PICK x \in S : f[n] = {x}
  BY <1>9 DEF SS
<1> QED BY <1>10, <1>11

-----------------------------------------------------------------------------
(* Numbers.                                                                *)

LEMMA RequestFields ==
  ASSUME NEW t \in Tag
  PROVE  /\ Requests[t].cmd \in {"RD", "WR"} /\ Requests[t].adrs \in Nat
         /\ Requests[t].size \in Nat \ {0}
         /\ BLOCK \in Nat \ {0} /\ NUM_VAULTS \in Nat \ {0} /\ NUM_LINKS \in Nat \ {0}
<1> DEFINE R == [cmd : {"RD", "WR"}, adrs : Nat, size : Nat \ {0}]
<1>1. Requests \in Seq(R)
  BY CrossbarAssumption
<1>2. Requests[t] \in R
  <2> HIDE DEF R
  <2>1. DOMAIN Requests = 1 .. Len(Requests)
    BY <1>1
  <2> QED BY <1>1, <2>1 DEF Tag
<1>3. BLOCK \in Nat \ {0} /\ NUM_VAULTS \in Nat \ {0} /\ NUM_LINKS \in Nat \ {0}
  BY CrossbarAssumption
<1> QED BY <1>2, <1>3

\* How many blocks a request takes.
LEMMA SegmentCounts ==
  ASSUME NEW size \in Nat \ {0}
  PROVE  /\ SegmentCount(size) \in Nat \ {0}
         /\ size <= BLOCK => SegmentCount(size) = 1
         /\ size > BLOCK => SegmentCount(size) > 1
         /\ size % BLOCK = 0 => SegmentCount(size) * BLOCK = size
<1> DEFINE a == size + BLOCK - 1
           q == a \div BLOCK
           r == a % BLOCK
<1>1. BLOCK \in Nat \ {0}
  BY CrossbarAssumption
<1>2. a \in Nat /\ q \in Int /\ r \in 0 .. BLOCK - 1 /\ a = BLOCK * q + r
  BY <1>1
<1>3. SegmentCount(size) = q
  BY DEF SegmentCount
<1>4. size = BLOCK * (size \div BLOCK) + (size % BLOCK) /\ size \div BLOCK \in Int
  BY <1>1
<1> DEFINE d == size \div BLOCK
<1> HIDE DEF q, r
<1>5. q >= 1
  BY <1>1, <1>2
<1>6. size <= BLOCK => q = 1
  BY <1>1, <1>2, <1>5
<1>7. size > BLOCK => q > 1
  BY <1>1, <1>2, <1>5
<1>8. size % BLOCK = 0 => q * BLOCK = size
  <2> SUFFICES ASSUME size % BLOCK = 0 PROVE q = d
    BY <1>1, <1>4
  <2> DEFINE z == BLOCK
  <2>1. size = z * d /\ z * d + z - 1 = z * q + r /\ r >= 0 /\ r < z /\ z \in Nat /\ z > 0 /\ d \in Int /\ q \in Int
    BY <1>1, <1>2, <1>4
  <2> HIDE DEF z, d
  <2>2. \A x, y \in Int : x >= y + 1 => z * x >= z * y + z
    BY <2>1
  <2>3. z * d \in Int /\ z * q \in Int /\ r \in Int
    BY <1>2, <2>1
  <2>4. ~(q >= d + 1)
    BY <2>1, <2>2, <2>3
  <2>5. ~(d >= q + 1)
    BY <2>1, <2>2, <2>3
  <2> QED BY <2>1, <2>4, <2>5
<1> QED BY <1>3, <1>5, <1>6, <1>7, <1>8, <1>2

-----------------------------------------------------------------------------
(* Pending tags.                                                           *)

At(tags, t) == {j \in 1 .. Len(tags) : tags[j] = t}

\* The number of a tag's copies is a natural number.
LEMMA CountFinite ==
  ASSUME NEW tags \in Seq(Tag), NEW t
  PROVE  IsFiniteSet(At(tags, t)) /\ Count(tags, t) = Cardinality(At(tags, t)) /\ Count(tags, t) \in Nat
<1>1. IsFiniteSet(1 .. Len(tags)) /\ At(tags, t) \in SUBSET (1 .. Len(tags))
  BY FS_Interval DEF At
<1>2. IsFiniteSet(At(tags, t))
  BY <1>1, FS_Subset
<1> QED BY <1>2, FS_CardinalityType DEF Count, At

\* Tags are counted in each part of a sequence.
LEMMA CountConcat ==
  ASSUME NEW q \in Seq(Tag), NEW r \in Seq(Tag), NEW t
  PROVE  q \o r \in Seq(Tag) /\ Count(q \o r, t) = Count(q, t) + Count(r, t)
<1> DEFINE c == q \o r
           n == Len(q)
           m == Len(r)
           A == At(q, t)
           B == At(r, t)
           f == [j \in B |-> n + j]
           C == {n + j : j \in B}
<1>1. /\ c \in Seq(Tag) /\ Len(c) = n + m /\ n \in Nat /\ m \in Nat
      /\ \A i \in 1 .. n + m : c[i] = IF i <= n THEN q[i] ELSE r[i - n]
  BY ConcatProperties
<1>2. /\ IsFiniteSet(A) /\ IsFiniteSet(B) /\ Count(q, t) = Cardinality(A) /\ Count(r, t) = Cardinality(B)
      /\ Cardinality(A) \in Nat /\ Cardinality(B) \in Nat
  BY CountFinite
<1>3. A \subseteq 1 .. n /\ B \subseteq 1 .. m
  BY DEF At
<1>4. IsFiniteSet(C) /\ Cardinality(C) = Cardinality(B)
  <2>1. f \in Bijection(B, C)
    <3>1. f \in [B -> C]
      OBVIOUS
    <3>2. \A i, j \in B : f[i] = f[j] => i = j
      BY <1>1, <1>3
    <3>3. \A k \in C : \E j \in B : f[j] = k
      OBVIOUS
    <3> QED BY <3>1, <3>2, <3>3 DEF Bijection, Injection, Surjection, IsInjective
  <2>2. ExistsBijection(B, C)
    BY <2>1 DEF ExistsBijection
  <2> QED BY <1>2, <2>2, FS_Bijection
<1>5. A \cap C = {}
  BY <1>1, <1>3
<1>6. At(c, t) = A \cup C
  <2>1. ASSUME NEW i \in At(c, t) PROVE i \in A \cup C
    <3>1. i \in 1 .. n + m /\ c[i] = t
      BY <1>1 DEF At
    <3>2. CASE i <= n
      <4>1. i \in 1 .. n /\ q[i] = t
        BY <1>1, <3>1, <3>2
      <4> QED BY <4>1 DEF At
    <3>3. CASE ~(i <= n)
      <4>1. i - n \in 1 .. m /\ r[i - n] = t /\ n + (i - n) = i
        BY <1>1, <3>1, <3>3
      <4>2. i - n \in B
        BY <4>1 DEF At
      <4> QED BY <4>1, <4>2
    <3> QED BY <3>2, <3>3
  <2>2. ASSUME NEW i \in A PROVE i \in At(c, t)
    <3>1. i \in 1 .. n /\ q[i] = t
      BY DEF At
    <3>2. i \in 1 .. n + m /\ c[i] = q[i]
      BY <1>1, <3>1
    <3> QED BY <1>1, <3>1, <3>2 DEF At
  <2>3. ASSUME NEW j \in B PROVE n + j \in At(c, t)
    <3>1. j \in 1 .. m /\ r[j] = t
      BY DEF At
    <3>2. n + j \in 1 .. n + m /\ ~(n + j <= n) /\ (n + j) - n = j
      BY <1>1, <3>1
    <3>3. c[n + j] = t
      BY <1>1, <3>1, <3>2
    <3> QED BY <1>1, <3>2, <3>3 DEF At
  <2> QED BY <2>1, <2>2, <2>3
<1>7. Cardinality(A \cup C) = Cardinality(A) + Cardinality(B)
  <2>1. Cardinality(A \cup C) = Cardinality(A) + Cardinality(C) - Cardinality(A \cap C)
    BY <1>2, <1>4, FS_Union
  <2>2. Cardinality(A \cap C) = 0
    BY <1>5, FS_EmptySet
  <2> HIDE DEF A, B, C
  <2> QED BY <1>2, <1>4, <2>1, <2>2
<1>8. Count(c, t) = Cardinality(At(c, t))
  BY DEF Count, At
<1> QED BY <1>1, <1>2, <1>6, <1>7, <1>8

\* No tags, no copies.
LEMMA CountEmpty ==
  ASSUME NEW t
  PROVE  <<>> \in Seq(Tag) /\ Count(<<>>, t) = 0
<1>1. {j \in 1 .. Len(<<>>) : (<<>>)[j] = t} = {}
  OBVIOUS
<1> QED BY <1>1, FS_EmptySet DEF Count

\* n copies of a tag.
Copies(u, n) == [j \in 1 .. n |-> u]
\* n copies are counted as n.
LEMMA CountCopies ==
  ASSUME NEW u \in Tag, NEW n \in Nat, NEW t
  PROVE  Copies(u, n) \in Seq(Tag) /\ Count(Copies(u, n), t) = IF t = u THEN n ELSE 0
<1> DEFINE s == Copies(u, n)
<1>1. s \in Seq(Tag) /\ Len(s) = n /\ \A j \in 1 .. n : s[j] = u
  BY DEF Copies
<1> HIDE DEF s
<1>2. ASSUME t = u PROVE Count(s, t) = n
  <2>1. {j \in 1 .. Len(s) : s[j] = t} = 1 .. n
    BY <1>1, <1>2
  <2>2. Cardinality(1 .. n) = n
    <3>1. Cardinality(1 .. n) = IF 1 > n THEN 0 ELSE n - 1 + 1
      BY FS_Interval
    <3> QED BY <3>1
  <2> QED BY <1>1, <1>2, <2>1, <2>2 DEF Count
<1>3. ASSUME t # u PROVE Count(s, t) = 0
  <2>1. {j \in 1 .. Len(s) : s[j] = t} = {}
    BY <1>1, <1>3
  <2> QED BY <1>1, <1>3, <2>1, FS_EmptySet DEF Count
<1> QED BY <1>1, <1>2, <1>3 DEF s

\* A pending tag is taken out.
LEMMA CountRemoveAt ==
  ASSUME NEW tags \in Seq(Tag), NEW j \in 1 .. Len(tags), NEW t
  PROVE  /\ RemoveAt(tags, j) \in Seq(Tag)
         /\ Count(RemoveAt(tags, j), t) = IF t = tags[j] THEN Count(tags, t) - 1 ELSE Count(tags, t)
<1> DEFINE n == Len(tags)
           a == SubSeq(tags, 1, j - 1)
           b == SubSeq(tags, j + 1, n)
           e == <<tags[j]>>
<1>1. n \in Nat /\ j \in Nat /\ j >= 1 /\ j <= n /\ tags[j] \in Tag
  OBVIOUS
<1>2. /\ a \in Seq(Tag) /\ Len(a) = j - 1 /\ \A i \in 1 .. j - 1 : a[i] = tags[i]
      /\ b \in Seq(Tag) /\ Len(b) = n - j /\ \A i \in 1 .. n - j : b[i] = tags[j + i]
  <2>1. \A i \in 1 .. j - 1 : i \in 1 .. n
    BY <1>1
  <2>2. \A i \in j + 1 .. n : i \in 1 .. n
    BY <1>1
  <2>3. /\ a \in Seq(Tag) /\ Len(a) = (IF 1 <= j - 1 THEN j - 1 - 1 + 1 ELSE 0)
        /\ \A i \in 1 .. Len(a) : a[i] = tags[1 + i - 1]
    BY <1>1, <2>1
  <2>4. /\ b \in Seq(Tag) /\ Len(b) = (IF j + 1 <= n THEN n - (j + 1) + 1 ELSE 0)
        /\ \A i \in 1 .. Len(b) : b[i] = tags[j + 1 + i - 1]
    BY <1>1, <2>2
  <2> HIDE DEF a, b, n
  <2>5. Len(a) = j - 1 /\ Len(b) = n - j
    BY <1>1, <2>3, <2>4
  <2>6. \A i \in 1 .. j - 1 : 1 + i - 1 = i
    BY <1>1
  <2>7. \A i \in 1 .. n - j : j + 1 + i - 1 = j + i
    BY <1>1
  <2> QED BY <2>3, <2>4, <2>5, <2>6, <2>7
<1>3. e \in Seq(Tag) /\ Len(e) = 1 /\ e[1] = tags[j]
  BY <1>1
<1>4. RemoveAt(tags, j) = a \o b
  BY DEF RemoveAt
<1> HIDE DEF a, b, e
<1>5. tags = (a \o e) \o b
  <2>1. /\ a \o e \in Seq(Tag) /\ Len(a \o e) = Len(a) + Len(e)
        /\ \A i \in 1 .. Len(a) + Len(e) : (a \o e)[i] = IF i <= Len(a) THEN a[i] ELSE e[i - Len(a)]
    BY <1>2, <1>3, ConcatProperties
  <2>2. Len(a) = j - 1 /\ Len(a) + Len(e) = j /\ Len(a \o e) = j
    BY <1>1, <1>2, <1>3, <2>1
  <2>3. ASSUME NEW i \in 1 .. j PROVE (a \o e)[i] = tags[i]
    <3>1. (a \o e)[i] = IF i <= j - 1 THEN a[i] ELSE e[i - (j - 1)]
      BY <2>1, <2>2
    <3>2. CASE i <= j - 1
      <4>1. i \in 1 .. j - 1
        BY <1>1, <3>2
      <4> QED BY <1>2, <3>1, <3>2, <4>1
    <3>3. CASE i = j
      <4>1. ~(i <= j - 1) /\ i - (j - 1) = 1
        BY <1>1, <3>3
      <4>2. (a \o e)[i] = e[1]
        BY <3>1, <4>1
      <4> QED BY <1>3, <3>3, <4>2
    <3>4. i <= j - 1 \/ i = j
      BY <1>1
    <3> QED BY <3>2, <3>3, <3>4
  <2> DEFINE c == a \o e
  <2> HIDE DEF c
  <2>4. /\ c \o b \in Seq(Tag) /\ Len(c \o b) = Len(c) + Len(b)
        /\ \A i \in 1 .. Len(c) + Len(b) : (c \o b)[i] = IF i <= Len(c) THEN c[i] ELSE b[i - Len(c)]
    <3>1. c \in Seq(Tag) /\ b \in Seq(Tag)
      BY <1>2, <2>1 DEF c
    <3> QED BY <3>1, ConcatProperties
  <2>5. Len(c) = j /\ Len(c) + Len(b) = n
    BY <1>1, <1>2, <2>2 DEF c
  <2>6. ASSUME NEW i \in 1 .. n PROVE (c \o b)[i] = tags[i]
    <3>1. (c \o b)[i] = IF i <= j THEN c[i] ELSE b[i - j]
      BY <2>4, <2>5
    <3>2. CASE i <= j
      <4>1. i \in 1 .. j
        BY <1>1, <3>2
      <4> QED BY <2>3, <3>1, <3>2, <4>1 DEF c
    <3>3. CASE ~(i <= j)
      <4>1. i - j \in 1 .. n - j /\ j + (i - j) = i
        BY <1>1, <3>3
      <4> QED BY <1>2, <3>1, <3>3, <4>1
    <3> QED BY <3>2, <3>3
  <2>7. Len(c \o b) = n
    BY <2>4, <2>5
  <2> QED BY <2>4, <2>6, <2>7, SeqEqual DEF c, n
<1>6. Count(tags, t) = Count(a, t) + Count(e, t) + Count(b, t) /\ Count(a \o b, t) = Count(a, t) + Count(b, t)
      /\ a \o b \in Seq(Tag)
  <2>1. a \o e \in Seq(Tag) /\ Count(a \o e, t) = Count(a, t) + Count(e, t)
    BY <1>2, <1>3, CountConcat
  <2>2. Count((a \o e) \o b, t) = Count(a \o e, t) + Count(b, t)
    BY <1>2, <2>1, CountConcat
  <2>3. a \o b \in Seq(Tag) /\ Count(a \o b, t) = Count(a, t) + Count(b, t)
    BY <1>2, CountConcat
  <2> QED BY <1>5, <2>1, <2>2, <2>3
<1>7. Count(e, t) = IF t = tags[j] THEN 1 ELSE 0
  <2> DEFINE u == tags[j]
  <2>1. u \in Tag /\ 1 \in Nat
    BY <1>1
  <2>2. e = Copies(u, 1)
    BY DEF e, Copies
  <2> HIDE DEF u, e
  <2>3. Count(Copies(u, 1), t) = IF t = u THEN 1 ELSE 0
    BY <2>1, CountCopies
  <2> QED BY <2>2, <2>3 DEF u
<1>8. Count(a, t) \in Nat /\ Count(b, t) \in Nat
  BY <1>2, CountFinite
<1> QED BY <1>4, <1>6, <1>7, <1>8

\* The least number of a set.
LEMMA MinOf ==
  ASSUME NEW S, S \in SUBSET Nat, S # {}
  PROVE  Min(S) \in S /\ \A y \in S : Min(S) <= y
BY LeastNatural DEF Min

\* The last pending tag of a request.
LEMMA LastOne ==
  ASSUME NEW tags \in Seq(Tag), NEW t, Count(tags, t) # 0
  PROVE  LET j == Min(At(tags, t))
         IN  /\ j \in 1 .. Len(tags) /\ tags[j] = t
             /\ IsLast(tags, j) <=> Count(tags, t) = 1
<1> DEFINE A == At(tags, t)
           j == Min(A)
<1>1. A # {} /\ A \subseteq 1 .. Len(tags) /\ IsFiniteSet(A) /\ Count(tags, t) = Cardinality(A)
  BY CountFinite, FS_EmptySet DEF At
<1>2. j \in A /\ \A y \in A : j <= y
  BY <1>1, MinOf
<1>3. j \in 1 .. Len(tags) /\ tags[j] = t
  BY <1>2 DEF At
<1> HIDE DEF j
<1>4. ASSUME IsLast(tags, j) PROVE A = {j}
  <2>1. ASSUME NEW k \in A PROVE k = j
    <3>1. k \in 1 .. Len(tags) /\ tags[k] = t /\ j <= k
      BY <1>2 DEF At
    <3>2. ~(k \in j + 1 .. Len(tags))
      BY <1>3, <1>4, <3>1 DEF IsLast
    <3> QED BY <1>3, <3>1, <3>2
  <2> QED BY <1>2, <2>1
<1>5. ASSUME Cardinality(A) = 1 PROVE IsLast(tags, j)
  <2>1. \A k \in A : k = j
    BY <1>1, <1>2, <1>5, FS_Singleton
  <2>2. ASSUME NEW k \in j + 1 .. Len(tags), tags[k] = tags[j] PROVE FALSE
    <3>1. k \in 1 .. Len(tags) /\ k # j
      BY <1>3
    <3> QED BY <1>3, <2>1, <2>2, <3>1 DEF At
  <2> QED BY <2>2 DEF IsLast
<1> QED BY <1>1, <1>3, <1>4, <1>5, FS_Singleton DEF j

-----------------------------------------------------------------------------
(* Segments in a buffer, places and their contents.                        *)

\* Packets one behind the other.
Row(P, n) == [j \in 1 .. n |-> Flits(P[j])]

\* The packets of a row, each once, are a tidy buffer.
LEMMA TidyFlatten ==
  ASSUME NEW n \in Nat \ {0}, NEW P \in [1 .. n -> PacketType],
         \A i, j \in 1 .. n : P[i] = P[j] => i = j
  PROVE  /\ Tidy(FlattenSeq(Row(P, n)))
         /\ Packets(FlattenSeq(Row(P, n))) = {P[j] : j \in 1 .. n}
<1> DEFINE F == Row(P, n)
           G == [y \in Seq(Flit) \X (0 .. n - 1) |-> y[1] \o F[y[2] + 1]]
           Is(f) == f = [i \in 1 .. n |-> IF i = 1 THEN F[i] ELSE f[i - 1] \o F[i]]
           f == CHOOSE f : Is(f)
<1>1. n \in Nat /\ n >= 1 /\ Len(F) = n /\ \A j \in 1 .. n : F[j] = Flits(P[j]) /\ F[j] \in Seq(Flit)
  <2>1. \A j \in 1 .. n : F[j] = Flits(P[j])
    BY DEF Row
  <2>2. Len(F) = n
    BY DEF Row
  <2> HIDE DEF F
  <2>3. \A j \in 1 .. n : F[j] \in Seq(Flit)
    BY <2>1, FlitsOf
  <2> QED BY <2>1, <2>2, <2>3
<1>2. FlattenSeq(F) = f[n]
  BY <1>1 DEF FlattenSeq, Is, f
<1> HIDE DEF F
<1>3. Rounds(G, Seq(Flit), n)
  <2>1. ASSUME NEW y \in Seq(Flit) \X (0 .. n - 1) PROVE y[1] \o F[y[2] + 1] \in Seq(Flit)
    <3>1. y[1] \in Seq(Flit) /\ y[2] + 1 \in 1 .. n
      BY <1>1
    <3>2. F[y[2] + 1] \in Seq(Flit)
      BY <1>1, <3>1
    <3> QED BY <3>1, <3>2, ConcatProperties
  <2> QED BY <2>1 DEF Rounds
<1>4. PICK g : Runs(g, G, Seq(Flit), <<>>, n)
  <2>1. <<>> \in Seq(Flit)
    OBVIOUS
  <2> HIDE DEF G
  <2> QED BY <1>1, <1>3, <2>1, LoopExists
<1> DEFINE h == [i \in 1 .. n |-> g[i]]
<1>5. Is(h)
  <2>1. /\ g \in [0 .. n -> Seq(Flit)] /\ g[0] = <<>>
        /\ \A i \in 1 .. n : g[i] = G[<<g[i - 1], i - 1>>]
    BY <1>4 DEF Runs
  <2>2. ASSUME NEW i \in 1 .. n PROVE g[i] = g[i - 1] \o F[i]
    <3>1. g[i - 1] \in Seq(Flit) /\ i - 1 \in 0 .. n - 1 /\ (i - 1) + 1 = i
      BY <1>1, <2>1
    <3>2. G[<<g[i - 1], i - 1>>] = g[i - 1] \o F[(i - 1) + 1]
      BY <3>1
    <3> QED BY <2>1, <3>1, <3>2
  <2>3. g[1] = F[1]
    <3>1. 1 \in 1 .. n /\ 1 - 1 = 0
      BY <1>1
    <3>2. g[1] = g[1 - 1] \o F[1] /\ F[1] \in Seq(Flit)
      BY <1>1, <2>2, <3>1
    <3>3. g[1 - 1] = <<>>
      BY <2>1, <3>1
    <3>4. g[1] = <<>> \o F[1]
      BY <3>2, <3>3
    <3> HIDE DEF h, G
    <3> QED BY <3>2, <3>4
  <2>4. ASSUME NEW i \in 1 .. n PROVE h[i] = IF i = 1 THEN F[i] ELSE h[i - 1] \o F[i]
    <3>1. CASE i = 1
      BY <2>3, <3>1
    <3>2. CASE i # 1
      <4>1. i - 1 \in 1 .. n
        BY <1>1, <3>2
      <4>2. h[i] = g[i] /\ h[i - 1] = g[i - 1]
        BY <4>1
      <4> QED BY <2>2, <3>2, <4>2
    <3> QED BY <3>1, <3>2
  <2> HIDE DEF G
  <2>5. h = [i \in 1 .. n |-> h[i]]
    OBVIOUS
  <2> QED BY <2>4, <2>5
<1>6. Is(f)
  <2> HIDE DEF Is, h
  <2> QED BY <1>5
<1> HIDE DEF f, h, G
<1>7. \A i \in 1 .. n : f[i] = IF i = 1 THEN F[i] ELSE f[i - 1] \o F[i]
  BY <1>6
<1> HIDE DEF Is
<1> DEFINE T(i) == Tidy(f[i]) /\ Packets(f[i]) = {P[j] : j \in 1 .. i}
           K == {i \in 0 .. n : i = 0 \/ T(i)}
<1>8. ASSUME NEW i \in 1 .. n, i - 1 \in K PROVE i \in K
  <2>1. P[i] \in PacketType /\ F[i] = Flits(P[i]) /\ i \in Nat /\ i >= 1
    BY <1>1
  <2>2. Tidy(F[i]) /\ Packets(F[i]) = {P[i]}
    BY <2>1, TidyFlits
  <2>3. CASE i = 1
    <3>1. f[i] = F[i]
      BY <1>7, <2>3
    <3>2. {P[j] : j \in 1 .. i} = {P[i]}
      BY <2>3
    <3>3. T(i)
      BY <2>2, <3>1, <3>2
    <3> HIDE DEF T
    <3> QED BY <1>1, <3>3
  <2>4. CASE i # 1
    <3>1. i - 1 \in 1 .. n /\ i - 1 # 0
      BY <1>1, <2>1, <2>4
    <3>2. T(i - 1)
      BY <1>8, <3>1
    <3>3. f[i] = f[i - 1] \o F[i]
      BY <1>7, <2>4
    <3>4. Packets(f[i - 1]) \cap Packets(F[i]) = {}
      <4>1. \A j \in 1 .. i - 1 : j \in 1 .. n /\ j # i
        BY <1>1, <2>1
      <4>2. \A j \in 1 .. i - 1 : P[j] # P[i]
        BY <4>1
      <4> QED BY <2>2, <3>2, <4>2
    <3>5. Tidy(f[i]) /\ Packets(f[i]) = Packets(f[i - 1]) \cup Packets(F[i])
      BY <2>2, <3>2, <3>3, <3>4, TidyConcat
    <3>6. {P[j] : j \in 1 .. i} = {P[j] : j \in 1 .. i - 1} \cup {P[i]}
      <4>1. \A j : j \in 1 .. i <=> j \in 1 .. i - 1 \/ j = i
        BY <2>1
      <4> QED BY <4>1
    <3>7. T(i)
      BY <2>2, <3>2, <3>5, <3>6
    <3> HIDE DEF T
    <3> QED BY <1>1, <3>7
  <2> QED BY <2>3, <2>4
<1>9. K \in SUBSET Nat /\ 0 \in K
  BY <1>1
<1>10. n \in K
  <2> HIDE DEF K
  <2>1. \A i \in 0 .. n : i \in K
    BY <1>1, <1>8, <1>9, UpTo
  <2> QED BY <1>1, <2>1
<1>11. T(n)
  <2> HIDE DEF T
  <2> QED BY <1>1, <1>10
<1> QED BY <1>2, <1>11 DEF F

-----------------------------------------------------------------------------
(* Places.                                                                 *)

LEMMA Places ==
  ASSUME NEW z \in Place
  PROVE  \/ z = <<"down", 0>> \/ z = <<"up", 0>>
         \/ \E v \in Vault : z \in {<<"in", v>>, <<"banks", v>>, <<"out", v>>}
         \/ \E l \in Link : z = <<"link", l>>
BY DEF Place

\* Each buffer is a place.
LEMMA PlaceIn ==
  /\ <<"down", 0>> \in Place /\ <<"up", 0>> \in Place
  /\ \A v \in Vault : <<"in", v>> \in Place /\ <<"banks", v>> \in Place /\ <<"out", v>> \in Place
  /\ \A l \in Link : <<"link", l>> \in Place
BY DEF Place

HeldAt(held, down, up, in, banks, out, links) ==
  /\ held[<<"down", 0>>] = Packets(down) /\ held[<<"up", 0>>] = Packets(up)
  /\ \A v \in Vault : /\ held[<<"in", v>>] = Packets(in[v])
                      /\ held[<<"banks", v>>] = banks[v]
                      /\ held[<<"out", v>>] = Packets(out[v])
  /\ \A l \in Link : held[<<"link", l>>] = Packets(links[l])

\* What the contents are at each place.
LEMMA ContentsAt ==
  ASSUME NEW down, NEW up, NEW in, NEW banks, NEW out, NEW links
  PROVE  HeldAt(Contents(down, up, in, banks, out, links), down, up, in, banks, out, links)
BY PlaceIn DEF Contents, HeldAt

\* The packets A leave place x, and B come to place y.
Swap(held, x, A, y, B) ==
  [z \in Place |-> (held[z] \ (IF z = x THEN A ELSE {})) \cup (IF z = y THEN B ELSE {})]

LEMMA SwapPlaced ==
  ASSUME NEW held, Placed(held), NEW x \in Place, NEW y \in Place,
         NEW A \in SUBSET held[x], NEW B \in SUBSET PacketType,
         B \cap Everything(held) \subseteq A, \A p \in B : Admits(y, p)
  PROVE  /\ Placed(Swap(held, x, A, y, B))
         /\ Everything(Swap(held, x, A, y, B)) = (Everything(held) \ A) \cup B
<1> DEFINE new == Swap(held, x, A, y, B)
<1>1. /\ held \in [Place -> SUBSET PacketType]
      /\ \A z \in Place : \A p \in held[z] : Admits(z, p)
      /\ \A z, w \in Place : z # w => held[z] \cap held[w] = {}
  BY DEF Placed
<1>2. \A z \in Place : new[z] = (held[z] \ (IF z = x THEN A ELSE {})) \cup (IF z = y THEN B ELSE {})
  BY DEF Swap
<1>3. \A z \in Place : held[z] \subseteq Everything(held)
  BY DEF Everything
<1>4. new \in [Place -> SUBSET PacketType]
  BY <1>1 DEF Swap
<1> HIDE DEF new
<1>5. ASSUME NEW z \in Place, NEW p \in new[z] PROVE Admits(z, p)
  BY <1>1, <1>2
<1>6. ASSUME NEW z \in Place, NEW w \in Place, z # w, NEW p, p \in new[z], p \in new[w] PROVE FALSE
  <2>1. p \in B \/ p \in held[z]
    BY <1>2, <1>6
  <2>2. p \in B \/ p \in held[w]
    BY <1>2, <1>6
  <2>3. CASE p \notin B
    BY <1>1, <1>6, <2>1, <2>2, <2>3
  <2>4. CASE p \in B
    <3>1. \A u \in Place : u # y /\ p \in new[u] => FALSE
      <4>1. ASSUME NEW u \in Place, u # y, p \in new[u] PROVE FALSE
        <5>1. p \in held[u] /\ ~(u = x /\ p \in A)
          BY <1>2, <4>1
        <5>2. p \in A
          BY <1>3, <2>4, <5>1
        <5>3. p \in held[x] /\ u # x
          BY <5>1, <5>2
        <5> QED BY <1>1, <5>1, <5>3
      <4> QED BY <4>1
    <3> QED BY <1>6, <3>1
  <2> QED BY <2>3, <2>4
<1>7. ASSUME NEW p PROVE p \in Everything(new) <=> p \in (Everything(held) \ A) \cup B
  <2>1. p \in Everything(new) <=> \E z \in Place : p \in new[z]
    BY DEF Everything
  <2>2. p \in Everything(held) <=> \E z \in Place : p \in held[z]
    BY DEF Everything
  <2>3. ASSUME NEW z \in Place, p \in new[z] PROVE p \in (Everything(held) \ A) \cup B
    <3>1. CASE p \in B
      BY <3>1
    <3>2. CASE p \notin B
      <4>1. p \in held[z] /\ ~(z = x /\ p \in A)
        BY <1>2, <2>3, <3>2
      <4>2. p \notin A
        BY <1>1, <4>1
      <4> QED BY <1>3, <4>1, <4>2
    <3> QED BY <3>1, <3>2
  <2>4. ASSUME p \in B PROVE p \in new[y]
    BY <1>2, <2>4
  <2>5. ASSUME NEW z \in Place, p \in held[z], p \notin A PROVE p \in new[z]
    BY <1>2, <2>5
  <2> QED BY <2>1, <2>2, <2>3, <2>4, <2>5
<1>8. Placed(new)
  BY <1>4, <1>5, <1>6 DEF Placed
<1>9. Everything(new) = (Everything(held) \ A) \cup B
  BY <1>7
<1> QED BY <1>8, <1>9 DEF new

-----------------------------------------------------------------------------
(* The packets of a request.                                               *)

LEMMA PacketChanged ==
  ASSUME NEW p \in PacketType, NEW l \in Nat \ {0}
  PROVE  LET s == [p EXCEPT !.size = 1, !.lng = l]
         IN  /\ s \in PacketType /\ s.tag = p.tag /\ s.cmd = p.cmd /\ s.adrs = p.adrs /\ s.size = 1
             /\ s.lng = l /\ s.segment = p.segment /\ s.trace = p.trace
<1> DEFINE s == [p EXCEPT !.size = 1, !.lng = l]
           q == [p EXCEPT !.size = 1]
<1>1. q \in PacketType
  BY DEF PacketType
<1>2. s = [q EXCEPT !.lng = l]
  BY DEF PacketType
<1>3. /\ s.tag = p.tag /\ s.cmd = p.cmd /\ s.adrs = p.adrs /\ s.size = 1
      /\ s.lng = l /\ s.segment = p.segment /\ s.trace = p.trace
  BY DEF PacketType
<1> HIDE DEF s, q
<1>4. s \in PacketType
  BY <1>1, <1>2 DEF PacketType
<1> QED BY <1>3, <1>4 DEF s

\* The fields of a request.
LEMMA RequestIs ==
  ASSUME NEW t \in Tag
  PROVE  /\ RequestPacket(t) \in PacketType /\ RequestPacket(t).tag = t
         /\ RequestPacket(t).cmd = Requests[t].cmd /\ RequestPacket(t).adrs = Requests[t].adrs
         /\ RequestPacket(t).size = Requests[t].size
         /\ RequestPacket(t).lng = IF Requests[t].cmd = "WR" THEN 1 + Requests[t].size ELSE 1
         /\ RequestPacket(t).segment = FALSE /\ RequestPacket(t).trace = TRUE
BY RequestFields DEF RequestPacket, PacketType

\* The fields of a segment.
LEMMA SegmentIs ==
  ASSUME NEW t \in Tag, NEW b \in Nat
  PROVE  /\ RequestSegment(t, b) \in PacketType /\ RequestSegment(t, b).tag = t
         /\ RequestSegment(t, b).cmd = Requests[t].cmd /\ RequestSegment(t, b).adrs = b
         /\ RequestSegment(t, b).size = BLOCK
         /\ RequestSegment(t, b).lng = IF Requests[t].cmd = "WR" THEN 1 + BLOCK ELSE 1
         /\ RequestSegment(t, b).segment = TRUE
         /\ RequestSegment(t, b).trace <=> b = Requests[t].adrs
<1> DEFINE p == RequestPacket(t)
           l == IF Requests[t].cmd = "WR" THEN 1 + BLOCK ELSE 1
           f == (b = Requests[t].adrs)
<1>1. p \in PacketType /\ p.tag = t /\ p.cmd = Requests[t].cmd
  BY RequestIs
<1>2. l \in Nat \ {0} /\ BLOCK \in Nat \ {0} /\ f \in BOOLEAN
  BY RequestFields
<1>3. RequestSegment(t, b) = [p EXCEPT !.size = BLOCK, !.lng = l, !.adrs = b, !.segment = TRUE, !.trace = f]
  BY DEF RequestSegment
<1> HIDE DEF p, l, f
<1>4. LET s == [p EXCEPT !.size = BLOCK, !.lng = l, !.adrs = b, !.segment = TRUE, !.trace = f]
      IN  /\ s \in PacketType /\ s.tag = p.tag /\ s.cmd = p.cmd /\ s.adrs = b /\ s.size = BLOCK
          /\ s.lng = l /\ s.segment = TRUE /\ s.trace = f
  BY <1>1, <1>2 DEF PacketType
<1> QED BY <1>1, <1>3, <1>4 DEF l, f

\* The fields of a vault's response.
LEMMA ReplyTo ==
  ASSUME NEW p \in PacketType
  PROVE  /\ RespondPacket(p) \in PacketType /\ RespondPacket(p).tag = p.tag
         /\ RespondPacket(p).cmd = p.cmd /\ RespondPacket(p).adrs = p.adrs
         /\ RespondPacket(p).size = 1
         /\ RespondPacket(p).lng = IF p.cmd = "RD" THEN 1 + p.size ELSE 1
         /\ RespondPacket(p).segment = p.segment /\ RespondPacket(p).trace = p.trace
<1> DEFINE l == IF p.cmd = "RD" THEN 1 + p.size ELSE 1
<1>1. l \in Nat \ {0}
  BY PacketFields
<1>2. RespondPacket(p) = [p EXCEPT !.size = 1, !.lng = l]
  BY DEF RespondPacket
<1> HIDE DEF l
<1> DEFINE s == [p EXCEPT !.size = 1, !.lng = l]
<1>3. /\ s \in PacketType /\ s.tag = p.tag /\ s.cmd = p.cmd /\ s.adrs = p.adrs /\ s.size = 1
      /\ s.lng = l /\ s.segment = p.segment /\ s.trace = p.trace
  BY <1>1, PacketChanged
<1> HIDE DEF s
<1> QED BY <1>2, <1>3 DEF l, s

\* The fields of a complete response.
LEMMA AnswerIs ==
  ASSUME NEW t \in Tag
  PROVE  /\ Answer(t) \in PacketType /\ Answer(t).tag = t
         /\ Answer(t).cmd = Requests[t].cmd /\ Answer(t).adrs = Requests[t].adrs
         /\ Answer(t).size = 1
         /\ Answer(t).lng = IF Requests[t].cmd = "RD"
                            THEN 1 + IF Long(t) THEN SegmentCount(Requests[t].size) * BLOCK
                                     ELSE Requests[t].size
                            ELSE 1
         /\ Answer(t).segment = FALSE /\ Answer(t).trace = TRUE
<1> DEFINE data == IF Long(t) THEN SegmentCount(Requests[t].size) * BLOCK ELSE Requests[t].size
<1>1. data \in Nat \ {0}
  <2>1. SegmentCount(Requests[t].size) \in Nat \ {0} /\ BLOCK \in Nat \ {0}
    BY RequestFields, SegmentCounts
  <2>2. \A x, y \in Nat \ {0} : x * y \in Nat \ {0}
    OBVIOUS
  <2> QED BY RequestFields, <2>1, <2>2
<1>2. Answer(t) = [RequestPacket(t) EXCEPT !.size = 1, !.lng = IF Requests[t].cmd = "RD" THEN 1 + data ELSE 1]
  BY DEF Answer
<1> HIDE DEF data
<1> DEFINE p == RequestPacket(t)
           l == IF Requests[t].cmd = "RD" THEN 1 + data ELSE 1
<1>3. p \in PacketType /\ l \in Nat \ {0}
  <2>1. l \in Nat \ {0}
    BY <1>1
  <2>2. p \in PacketType
    BY RequestIs
  <2> QED BY <2>1, <2>2
<1>4. Answer(t) = [p EXCEPT !.size = 1, !.lng = l]
  BY <1>2
<1> HIDE DEF p, l
<1> DEFINE s == [p EXCEPT !.size = 1, !.lng = l]
<1>5. /\ s \in PacketType /\ s.tag = p.tag /\ s.cmd = p.cmd /\ s.adrs = p.adrs /\ s.size = 1
      /\ s.lng = l /\ s.segment = p.segment /\ s.trace = p.trace
  BY <1>3, PacketChanged
<1> HIDE DEF s
<1>6. p.tag = t /\ p.cmd = Requests[t].cmd /\ p.adrs = Requests[t].adrs /\ p.segment = FALSE /\ p.trace = TRUE
  BY RequestIs DEF p
<1> QED BY <1>4, <1>5, <1>6 DEF l, s, data

\* Packets are equal if their fields are.
LEMMA SamePacket ==
  ASSUME NEW p \in PacketType, NEW q \in PacketType,
         p.tag = q.tag, p.cmd = q.cmd, p.adrs = q.adrs, p.size = q.size, p.lng = q.lng,
         p.segment = q.segment, p.trace = q.trace
  PROVE  p = q
BY DEF PacketType

\* A vault's response to a request of one block is the complete response.
LEMMA ShortAnswer ==
  ASSUME NEW t \in Tag, ~Long(t)
  PROVE  Answer(t) = RespondPacket(RequestPacket(t))
<1> DEFINE p == RequestPacket(t)
<1>1. p \in PacketType
  BY RequestIs
<1>2. /\ RespondPacket(p) \in PacketType /\ RespondPacket(p).tag = p.tag
      /\ RespondPacket(p).cmd = p.cmd /\ RespondPacket(p).adrs = p.adrs
      /\ RespondPacket(p).size = 1
      /\ RespondPacket(p).lng = IF p.cmd = "RD" THEN 1 + p.size ELSE 1
      /\ RespondPacket(p).segment = p.segment /\ RespondPacket(p).trace = p.trace
  BY <1>1, ReplyTo
<1>3. p.cmd = Requests[t].cmd /\ p.size = Requests[t].size
  BY RequestIs
<1>4. /\ Answer(t) \in PacketType /\ Answer(t).tag = p.tag /\ Answer(t).cmd = p.cmd
      /\ Answer(t).adrs = p.adrs /\ Answer(t).size = 1
      /\ Answer(t).lng = IF p.cmd = "RD" THEN 1 + p.size ELSE 1
      /\ Answer(t).segment = p.segment /\ Answer(t).trace = p.trace
  BY <1>3, RequestIs, AnswerIs
<1> HIDE DEF p
<1>5. Answer(t) = RespondPacket(p)
  BY <1>2, <1>4, SamePacket
<1> QED BY <1>5 DEF p

\* The blocks of a request.
LEMMA BlocksOf ==
  ASSUME NEW t \in Tag
  PROVE  /\ Blocks(t) \subseteq Nat /\ IsFiniteSet(Blocks(t)) /\ Requests[t].adrs \in Blocks(t)
         /\ Cardinality(Blocks(t)) = SegmentCount(Requests[t].size)
         /\ ~Long(t) => Blocks(t) = {Requests[t].adrs}
         /\ Blocks(t) = {Requests[t].adrs + j - 1 : j \in 1 .. SegmentCount(Requests[t].size)}
<1> DEFINE a == Requests[t].adrs
           n == SegmentCount(Requests[t].size)
<1>1. a \in Nat /\ n \in Nat \ {0} /\ (~Long(t) => n = 1)
  BY RequestFields, SegmentCounts DEF Long
<1>2. Blocks(t) = a .. a + n - 1
  BY DEF Blocks
<1> HIDE DEF a, n
<1>3. IsFiniteSet(Blocks(t)) /\ Cardinality(Blocks(t)) = n
  <2>1. a \in Int /\ a + n - 1 \in Int
    BY <1>1
  <2> DEFINE z == a + n - 1
  <2>2. /\ IsFiniteSet(a .. z)
        /\ Cardinality(a .. z) = IF a > z THEN 0 ELSE z - a + 1
    <3> HIDE DEF z
    <3>1. z \in Int
      BY <2>1 DEF z
    <3> QED BY <2>1, <3>1, FS_Interval
  <2> QED BY <1>1, <1>2, <2>2
<1>4. Blocks(t) = {a + j - 1 : j \in 1 .. n}
  <2>1. ASSUME NEW b \in Blocks(t) PROVE b - a + 1 \in 1 .. n /\ b = a + (b - a + 1) - 1
    BY <1>1, <1>2
  <2>2. ASSUME NEW j \in 1 .. n PROVE a + j - 1 \in Blocks(t)
    BY <1>1, <1>2
  <2> QED BY <2>1, <2>2
<1>5. Blocks(t) \subseteq Nat /\ a \in Blocks(t) /\ (n = 1 => Blocks(t) = {a})
  BY <1>1, <1>2
<1> QED BY <1>1, <1>3, <1>4, <1>5 DEF a, n

\* None of them is another one.
LEMMA Differ ==
  ASSUME NEW t \in Tag
  PROVE  /\ RequestPacket(t) # Answer(t)
         /\ \A b \in Nat : LET s == RequestSegment(t, b) IN
              /\ s # RequestPacket(t) /\ s # Answer(t)
              /\ RespondPacket(s) # RequestPacket(t) /\ RespondPacket(s) # Answer(t)
              /\ \A c \in Nat : RespondPacket(s) # RequestSegment(t, c)
<1>1. /\ Requests[t].cmd \in {"RD", "WR"} /\ Requests[t].size \in Nat \ {0} /\ BLOCK \in Nat \ {0}
      /\ SegmentCount(Requests[t].size) \in Nat \ {0}
  BY RequestFields, SegmentCounts
<1>2. RequestPacket(t) # Answer(t)
  <2>1. CASE Requests[t].cmd = "WR"
    <3>1. RequestPacket(t).lng = 1 + Requests[t].size
      BY <2>1, RequestIs
    <3>2. Answer(t).lng = 1
      BY <2>1, AnswerIs
    <3> QED BY <1>1, <3>1, <3>2
  <2>2. CASE Requests[t].cmd = "RD"
    <3>1. SegmentCount(Requests[t].size) * BLOCK \in Nat \ {0}
      <4>1. \A x, y \in Nat \ {0} : x * y \in Nat \ {0}
        OBVIOUS
      <4> QED BY <1>1, <4>1
    <3> DEFINE data == IF Long(t) THEN SegmentCount(Requests[t].size) * BLOCK ELSE Requests[t].size
    <3>2. data \in Nat \ {0}
      BY <1>1, <3>1
    <3>3. RequestPacket(t).lng = 1
      BY <2>2, RequestIs
    <3>4. Answer(t).lng = 1 + data
      BY <2>2, AnswerIs
    <3> HIDE DEF data
    <3> QED BY <3>2, <3>3, <3>4
  <2> QED BY <1>1, <2>1, <2>2
<1>3. ASSUME NEW b \in Nat, NEW s, s = RequestSegment(t, b)
      PROVE  /\ s # RequestPacket(t) /\ s # Answer(t)
             /\ RespondPacket(s) # RequestPacket(t) /\ RespondPacket(s) # Answer(t)
             /\ \A c \in Nat : RespondPacket(s) # RequestSegment(t, c)
  <2>1. /\ s \in PacketType /\ s.segment = TRUE /\ s.cmd = Requests[t].cmd /\ s.size = BLOCK
    <3>1. /\ RequestSegment(t, b) \in PacketType /\ RequestSegment(t, b).segment = TRUE
          /\ RequestSegment(t, b).cmd = Requests[t].cmd /\ RequestSegment(t, b).size = BLOCK
      BY SegmentIs
    <3> QED BY <1>3, <3>1
  <2>2. /\ RespondPacket(s).segment = TRUE
        /\ RespondPacket(s).lng = IF Requests[t].cmd = "RD" THEN 1 + BLOCK ELSE 1
    BY <2>1, ReplyTo
  <2>3. RequestPacket(t).segment = FALSE /\ Answer(t).segment = FALSE
    BY RequestIs, AnswerIs
  <2>4. ASSUME NEW c \in Nat PROVE RespondPacket(s) # RequestSegment(t, c)
    <3>1. RequestSegment(t, c).lng = IF Requests[t].cmd = "WR" THEN 1 + BLOCK ELSE 1
      BY SegmentIs
    <3> QED BY <1>1, <2>2, <3>1
  <2> QED BY <2>1, <2>2, <2>3, <2>4
<1> QED BY <1>2, <1>3

-----------------------------------------------------------------------------
(* Segments of a request, and what they add up to.                         *)

LEMMA Combined ==
  ASSUME NEW q \in PacketType, NEW p \in PacketType
  PROVE  LET c == Combine(q, p)
         IN  /\ c \in PacketType /\ c.tag = q.tag /\ c.cmd = q.cmd /\ c.size = q.size
             /\ c.lng = IF p.lng > 1 THEN q.lng + BLOCK ELSE q.lng
             /\ c.segment = q.segment /\ (c.trace <=> q.trace \/ p.trace)
             /\ c.adrs = IF p.trace THEN p.adrs ELSE q.adrs
<1> DEFINE c == Combine(q, p)
           l == IF p.lng > 1 THEN q.lng + BLOCK ELSE q.lng
           f == q.trace \/ p.trace
           a == IF p.trace THEN p.adrs ELSE q.adrs
           c1 == [q EXCEPT !.lng = l]
           c2 == [c1 EXCEPT !.trace = f]
           c3 == [c2 EXCEPT !.adrs = a]
<1>1. /\ p.lng \in Nat \ {0} /\ q.lng \in Nat \ {0} /\ p.adrs \in Nat /\ q.adrs \in Nat
      /\ BLOCK \in Nat \ {0}
  BY PacketFields, CrossbarAssumption
<1>2. l \in Nat \ {0} /\ a \in Nat /\ f \in BOOLEAN
  BY <1>1
<1>3. c = [q EXCEPT !.lng = l, !.trace = f, !.adrs = a]
  BY DEF Combine
<1> HIDE DEF c, l, f, a
<1>4. [q EXCEPT !.lng = l, !.trace = f, !.adrs = a] = c3
  BY DEF PacketType
<1>5. c1 \in PacketType /\ c1.tag = q.tag /\ c1.cmd = q.cmd /\ c1.size = q.size /\ c1.lng = l
      /\ c1.segment = q.segment /\ c1.adrs = q.adrs
  BY <1>2 DEF PacketType
<1> HIDE DEF c1
<1>6. c2 \in PacketType /\ c2.tag = c1.tag /\ c2.cmd = c1.cmd /\ c2.size = c1.size /\ c2.lng = c1.lng
      /\ c2.segment = c1.segment /\ c2.trace = f
  BY <1>2, <1>5 DEF PacketType
<1> HIDE DEF c2
<1>7. c3 \in PacketType /\ c3.tag = c2.tag /\ c3.cmd = c2.cmd /\ c3.size = c2.size /\ c3.lng = c2.lng
      /\ c3.segment = c2.segment /\ c3.trace = c2.trace /\ c3.adrs = a
  BY <1>2, <1>6 DEF PacketType
<1> HIDE DEF c3
<1>8. c \in PacketType /\ c.tag = q.tag /\ c.cmd = q.cmd /\ c.size = q.size /\ c.lng = l
      /\ c.segment = q.segment /\ c.trace = f /\ c.adrs = a
  BY <1>3, <1>4, <1>5, <1>6, <1>7
<1>9. c.trace <=> q.trace \/ p.trace
  BY <1>8 DEF f
<1> QED BY <1>8, <1>9 DEF c, l, a

SegmentSet(p) == {Segments(p)[j] : j \in 1 .. SegmentCount(p.size)}
SegmentsFor(t) == {RequestSegment(t, b) : b \in Blocks(t)}

\* The segments into which packet p of request t is divided.
SegmentsAre(t, p, n) ==
  /\ n = SegmentCount(Requests[t].size)
  /\ Segments(p) \in [1 .. n -> PacketType]
  /\ \A i, j \in 1 .. n : Segments(p)[i] = Segments(p)[j] => i = j
  /\ SegmentSet(p) = SegmentsFor(t)

\* Its segments, when a request is divided.
LEMMA SegmentsOf ==
  ASSUME NEW t \in Tag, NEW p, p = RequestPacket(t)
  PROVE  SegmentsAre(t, p, SegmentCount(p.size))
<1> DEFINE n == SegmentCount(p.size)
           a == Requests[t].adrs
<1>1. /\ p \in PacketType /\ p.size = Requests[t].size /\ p.adrs = a /\ p.trace = TRUE
      /\ p.lng = IF Requests[t].cmd = "WR" THEN 1 + Requests[t].size ELSE 1
  BY RequestIs
<1>2. a \in Nat /\ n \in Nat \ {0} /\ Requests[t].size \in Nat \ {0} /\ BLOCK \in Nat \ {0}
  BY <1>1, RequestFields, SegmentCounts
<1>3. ASSUME NEW j \in 1 .. n
      PROVE  Segments(p)[j] = RequestSegment(t, a + j - 1)
  <2> DEFINE l == IF p.lng > 1 THEN 1 + BLOCK ELSE 1
             k == IF Requests[t].cmd = "WR" THEN 1 + BLOCK ELSE 1
             f == p.trace /\ j = 1
             b == a + j - 1
             g == b = a
  <2>1. Segments(p)[j] = [p EXCEPT !.size = BLOCK, !.lng = l, !.adrs = p.adrs + j - 1, !.segment = TRUE, !.trace = f]
    BY DEF Segments
  <2>2. RequestSegment(t, b) = [p EXCEPT !.size = BLOCK, !.lng = k, !.adrs = b, !.segment = TRUE, !.trace = g]
    BY DEF RequestSegment
  <2>3. l = k
    BY <1>1, <1>2
  <2>4. f = g
    BY <1>1, <1>2
  <2>5. p.adrs + j - 1 = b
    BY <1>1
  <2> HIDE DEF l, k, f, g, b
  <2> QED BY <2>1, <2>2, <2>3, <2>4, <2>5 DEF b
<1>4. \A j \in 1 .. n : a + j - 1 \in Nat
  BY <1>2
<1>5. /\ \A j \in 1 .. n : Segments(p)[j] \in PacketType /\ Segments(p)[j].adrs = a + j - 1
  <2>1. ASSUME NEW j \in 1 .. n PROVE Segments(p)[j] \in PacketType /\ Segments(p)[j].adrs = a + j - 1
    <3> DEFINE b == a + j - 1
    <3>1. b \in Nat
      BY <1>4
    <3> HIDE DEF b
    <3>2. RequestSegment(t, b) \in PacketType /\ RequestSegment(t, b).adrs = b
      BY <3>1, SegmentIs
    <3> QED BY <1>3, <3>2 DEF b
  <2> QED BY <2>1
<1>6. Segments(p) \in [1 .. n -> PacketType]
  <2>1. Segments(p) = [j \in 1 .. n |-> Segments(p)[j]]
    BY DEF Segments
  <2> QED BY <1>5, <2>1
<1>7. ASSUME NEW i \in 1 .. n, NEW j \in 1 .. n, Segments(p)[i] = Segments(p)[j] PROVE i = j
  <2>1. a + i - 1 = a + j - 1
    BY <1>5, <1>7
  <2> QED BY <1>2, <2>1
<1>8. n = SegmentCount(Requests[t].size)
  BY <1>1
<1> HIDE DEF n, a
<1>9. {Segments(p)[j] : j \in 1 .. n} = {RequestSegment(t, b) : b \in Blocks(t)}
  <2>1. Blocks(t) = {a + j - 1 : j \in 1 .. n}
    BY <1>8, BlocksOf DEF a
  <2> QED BY <1>3, <2>1
<1>10. SegmentSet(p) = SegmentsFor(t)
  BY <1>9 DEF SegmentSet, SegmentsFor, n
<1>11. SegmentsAre(t, p, n)
  BY <1>6, <1>7, <1>8, <1>10 DEF SegmentsAre
<1> QED BY <1>11 DEF n

-----------------------------------------------------------------------------
(* The stages.                                                             *)

LEMMA AcceptStage ==
  ASSUME NEW t \in Tag, NEW here, NEW n, NEW pend, NEW acc, NEW ans,
         Stage(t, here, n, pend, FALSE, acc, ans)
  PROVE  here = {} /\ Stage(t, {RequestPacket(t)}, n, pend, TRUE, acc, ans)
BY DEF Stage

\* A request longer than a block is not yet divided when it is met.
LEMMA DivideStage ==
  ASSUME NEW t \in Tag, NEW here, NEW n, NEW pend, NEW in, NEW acc, NEW ans,
         Stage(t, here, n, pend, in, acc, ans), RequestPacket(t) \in here, Long(t)
  PROVE  /\ here = {RequestPacket(t)} /\ n = 0
         /\ Stage(t, {RequestSegment(t, b) : b \in Blocks(t)}, SegmentCount(Requests[t].size),
                  pend, in, acc, ans)
<1> DEFINE p == RequestPacket(t)
           S == {RequestSegment(t, b) : b \in Blocks(t)}
           m == SegmentCount(Requests[t].size)
<1>1. p # Answer(t)
  BY Differ
<1>2. ~ Divided(t, here, n, pend, acc)
  <2>1. SUFFICES ASSUME Divided(t, here, n, pend, acc) PROVE FALSE
    OBVIOUS
  <2>2. p.adrs \in Nat
    BY RequestIs, RequestFields
  <2>3. p \in {RequestSegment(t, p.adrs), RespondPacket(RequestSegment(t, p.adrs))}
    BY <2>1 DEF Divided
  <2> QED BY <2>2, <2>3, Differ
<1>3. here = {p} /\ n = 0 /\ in /\ pend = {} /\ acc = {} /\ ans = 0
  BY <1>1, <1>2 DEF Stage
<1>4. /\ Blocks(t) \subseteq Nat /\ IsFiniteSet(Blocks(t)) /\ Cardinality(Blocks(t)) = m
      /\ m \in Nat \ {0}
  BY BlocksOf, RequestFields, SegmentCounts
<1>5. \A b \in Blocks(t) : RequestSegment(t, b).adrs = b
  BY <1>4, SegmentIs
<1>6. {x.adrs : x \in S} = Blocks(t)
  BY <1>5
<1>7. \A x \in S : x = RequestSegment(t, x.adrs)
  BY <1>5
<1>8. {b \in Blocks(t) : RequestSegment(t, b) \notin S} = {}
  OBVIOUS
<1> HIDE DEF S, m
<1>9. Divided(t, S, m, {}, {})
  <2>1. \A x, y \in S : x.adrs = y.adrs => x = y
    <3>1. ASSUME NEW x \in S, NEW y \in S, x.adrs = y.adrs PROVE x = y
      <4>1. x = RequestSegment(t, x.adrs) /\ y = RequestSegment(t, y.adrs)
        BY <1>7
      <4> QED BY <3>1, <4>1
    <3> QED BY <3>1
  <2>2. \A x \in S : x \in {RequestSegment(t, x.adrs), RespondPacket(RequestSegment(t, x.adrs))}
    BY <1>7
  <2>3. m = Cardinality({x.adrs : x \in S}) /\ m > 0
    <3> DEFINE L == {x.adrs : x \in S}
    <3>1. L = Blocks(t)
      BY <1>6
    <3> HIDE DEF L
    <3>2. m = Cardinality(L) /\ m > 0
      BY <1>4, <3>1
    <3> QED BY <3>2 DEF L
  <2>4. Long(t)
    OBVIOUS
  <2> QED BY <1>6, <1>8, <2>1, <2>2, <2>3, <2>4 DEF Divided
<1> QED BY <1>3, <1>9 DEF Stage, S, m

-----------------------------------------------------------------------------
(* Stages: a request is accepted, divided and accessed.                    *)

\* A request of one block is answered by its vault.
LEMMA ShortStage ==
  ASSUME NEW t \in Tag, NEW here, NEW n, NEW pend, NEW in, NEW acc, NEW ans,
         Stage(t, here, n, pend, in, acc, ans), RequestPacket(t) \in here, ~Long(t)
  PROVE  /\ in /\ here = {RequestPacket(t)} /\ acc = {} /\ Blocks(t) = {Requests[t].adrs}
         /\ RespondPacket(RequestPacket(t)) = Answer(t)
         /\ Stage(t, {Answer(t)}, n, pend, in, Blocks(t), ans)
<1>1. RequestPacket(t) # Answer(t)
  BY Differ
<1>2. ~ Divided(t, here, n, pend, acc)
  BY DEF Divided
<1>3. here = {RequestPacket(t)} /\ n = 0 /\ in /\ pend = {} /\ acc = {} /\ ans = 0
  BY <1>1, <1>2 DEF Stage
<1>4. Blocks(t) = {Requests[t].adrs}
  BY BlocksOf
<1>5. RespondPacket(RequestPacket(t)) = Answer(t)
  BY ShortAnswer
<1>6. Stage(t, {Answer(t)}, n, pend, in, Blocks(t), ans)
  BY <1>3 DEF Stage
<1> QED BY <1>3, <1>4, <1>5, <1>6

\* Where there is a segment, the request is divided.
LEMMA SegmentStage ==
  ASSUME NEW t \in Tag, NEW here, NEW n, NEW pend, NEW in, NEW acc, NEW ans,
         Stage(t, here, n, pend, in, acc, ans), NEW p \in here, p.segment
  PROVE  in /\ ans = 0 /\ Divided(t, here, n, pend, acc)
<1>1. RequestPacket(t).segment = FALSE /\ Answer(t).segment = FALSE
  BY RequestIs, AnswerIs
<1> QED BY <1>1 DEF Stage

\* A vault has accessed block b for its segment.
LEMMA AccessStage ==
  ASSUME NEW t \in Tag, NEW here, NEW n, NEW pend, NEW in, NEW acc, NEW ans,
         Stage(t, here, n, pend, in, acc, ans),
         NEW b \in Blocks(t), NEW p, p = RequestSegment(t, b), p \in here
  PROVE  /\ in /\ b \notin acc /\ acc \subseteq Blocks(t) /\ RespondPacket(p) \notin here
         /\ Stage(t, (here \ {p}) \cup {RespondPacket(p)}, n, pend, in, acc \cup {b}, ans)
<1> DEFINE r == RespondPacket(p)
           new == (here \ {p}) \cup {r}
           left == {x.adrs : x \in here}
           form(x) == {RequestSegment(t, x.adrs), RespondPacket(RequestSegment(t, x.adrs))}
<1>1. Blocks(t) \subseteq Nat /\ b \in Nat
  BY BlocksOf
<1>2. p \in PacketType /\ p.segment = TRUE /\ p.adrs = b
  BY <1>1, SegmentIs
<1>3. r \in PacketType /\ r.segment = TRUE /\ r.adrs = b
  BY <1>2, ReplyTo
<1>4. in /\ ans = 0 /\ Divided(t, here, n, pend, acc)
  BY <1>2, SegmentStage
<1>5. /\ Long(t) /\ left \subseteq Blocks(t)
      /\ \A x \in here : x \in form(x)
      /\ \A x, y \in here : x.adrs = y.adrs => x = y
      /\ n = Cardinality(left) /\ n > 0
      /\ acc = {c \in Blocks(t) : RequestSegment(t, c) \notin here}
      /\ IF left = Blocks(t) THEN pend = {}
         ELSE \E q \in pend : pend = {q} /\ Partial(t, Blocks(t) \ left, q)
  BY <1>4 DEF Divided
<1>6. \A c \in Nat : r # RequestSegment(t, c)
  BY <1>1, Differ
<1>7. r # p /\ r \notin here
  BY <1>1, <1>2, <1>3, <1>5, <1>6
<1> HIDE DEF r
<1>8. {x.adrs : x \in new} = left
  BY <1>2, <1>3
<1>9. \A x \in new : x \in form(x)
  <2>1. r \in form(r)
    BY <1>3 DEF r
  <2> QED BY <1>5, <2>1
<1>10. \A x, y \in new : x.adrs = y.adrs => x = y
  BY <1>2, <1>3, <1>5
<1>11. acc \cup {b} = {c \in Blocks(t) : RequestSegment(t, c) \notin new}
  <2>1. ASSUME NEW c \in Blocks(t)
        PROVE  RequestSegment(t, c) \notin new <=> c = b \/ RequestSegment(t, c) \notin here
    <3>1. RequestSegment(t, c) # r
      BY <1>1, <1>6
    <3>2. RequestSegment(t, c) = p <=> c = b
      <4>1. RequestSegment(t, c).adrs = c
        BY <1>1, SegmentIs
      <4> QED BY <1>2, <4>1
    <3> QED BY <3>1, <3>2
  <2> QED BY <1>5, <2>1
<1>12. acc \subseteq Blocks(t) /\ b \notin acc
  BY <1>5
<1> HIDE DEF new, left, form
<1>13. Divided(t, new, n, pend, acc \cup {b})
  <2>1. {x.adrs : x \in new} = {x.adrs : x \in here}
    BY <1>8 DEF left
  <2> QED BY <1>5, <1>9, <1>10, <1>11, <2>1 DEF Divided, left, form
<1>14. Stage(t, new, n, pend, in, acc \cup {b}, ans)
  BY <1>4, <1>13 DEF Stage
<1> QED BY <1>4, <1>7, <1>12, <1>14 DEF new, r

Left(here) == {x.adrs : x \in here}

\* What a response p of the segment for block b tells about its request.
BackOf(t, b, p) ==
  /\ p \in PacketType /\ p.tag = t /\ p.cmd = Requests[t].cmd
  /\ p.adrs = b /\ p.size = 1 /\ p.segment = TRUE
  /\ p.lng = IF Requests[t].cmd = "RD" THEN 1 + BLOCK ELSE 1
  /\ p.trace <=> b = Requests[t].adrs

BackIn(t, here, n, pend, in, acc, ans, b, p) ==
  LET left == Left(here) IN
  /\ in /\ ans = 0 /\ Long(t)
  /\ left \subseteq Blocks(t) /\ b \in left /\ IsFiniteSet(left)
  /\ n = Cardinality(left) /\ n \in Nat \ {0}
  /\ pend = {} => left = Blocks(t)
  /\ pend # {} => \E q \in pend : pend = {q} /\ Partial(t, Blocks(t) \ left, q)
  /\ \A new : /\ n > 1
              /\ \E q \in new : new = {q} /\ Partial(t, (Blocks(t) \ left) \cup {b}, q)
              => Stage(t, here \ {p}, n - 1, new, in, acc, ans)
  /\ n = 1 => here = {p} /\ left = {b} /\ acc = Blocks(t)

\* The stages with one segment's response taken out.
LEMMA BackStage ==
  ASSUME NEW t \in Tag, NEW here, NEW n, NEW pend, NEW in, NEW acc, NEW ans,
         Stage(t, here, n, pend, in, acc, ans),
         NEW b \in Blocks(t), NEW p, p = RespondPacket(RequestSegment(t, b)), p \in here
  PROVE  BackOf(t, b, p) /\ BackIn(t, here, n, pend, in, acc, ans, b, p)
<1> DEFINE s == RequestSegment(t, b)
           rest == here \ {p}
           left == Left(here)
           form(x) == {RequestSegment(t, x.adrs), RespondPacket(RequestSegment(t, x.adrs))}
<1>1. Blocks(t) \subseteq Nat /\ b \in Nat /\ IsFiniteSet(Blocks(t))
  BY BlocksOf
<1>2. /\ s \in PacketType /\ s.segment = TRUE /\ s.adrs = b /\ s.tag = t /\ s.cmd = Requests[t].cmd
      /\ s.size = BLOCK /\ (s.trace <=> b = Requests[t].adrs)
  <2>1. s.trace <=> b = Requests[t].adrs
    BY ZenonT(30), <1>1, SegmentIs
  <2>2. /\ s \in PacketType /\ s.segment = TRUE /\ s.adrs = b /\ s.tag = t /\ s.cmd = Requests[t].cmd
        /\ s.size = BLOCK
    BY <1>1, SegmentIs
  <2> QED BY <2>1, <2>2
<1>3. /\ p \in PacketType /\ p.segment = TRUE /\ p.adrs = b /\ p.tag = t /\ p.cmd = Requests[t].cmd
      /\ p.size = 1 /\ p.lng = IF Requests[t].cmd = "RD" THEN 1 + BLOCK ELSE 1
      /\ (p.trace <=> b = Requests[t].adrs)
  <2>1. p = RespondPacket(s)
    OBVIOUS
  <2> HIDE DEF s
  <2> QED BY <1>2, <2>1, ReplyTo
<1>4. in /\ ans = 0 /\ Divided(t, here, n, pend, acc)
  BY <1>3, SegmentStage
<1>5. /\ Long(t) /\ left \subseteq Blocks(t)
      /\ \A x \in here : x \in form(x)
      /\ \A x, y \in here : x.adrs = y.adrs => x = y
      /\ n = Cardinality(left) /\ n > 0
      /\ acc = {c \in Blocks(t) : RequestSegment(t, c) \notin here}
      /\ IF left = Blocks(t) THEN pend = {}
         ELSE \E q \in pend : pend = {q} /\ Partial(t, Blocks(t) \ left, q)
  BY <1>4 DEF Divided, Left
<1>6. \A c \in Nat : p # RequestSegment(t, c)
  BY <1>1, Differ
<1>7. b \in left /\ Left(rest) = left \ {b}
  BY <1>3, <1>5 DEF Left
<1>8. IsFiniteSet(left) /\ n \in Nat \ {0} /\ Cardinality(left \ {b}) = n - 1
  <2>1. IsFiniteSet(left)
    BY <1>1, <1>5, FS_Subset
  <2> HIDE DEF left
  <2>2. Cardinality(left) \in Nat
    BY <2>1, FS_CardinalityType
  <2>3. Cardinality(left \ {b}) = Cardinality(left) - 1
    BY <1>7, <2>1, FS_RemoveElement
  <2> QED BY <1>5, <2>1, <2>2, <2>3
<1>9. n = 1 => here = {p} /\ left = {b}
  <2>1. SUFFICES ASSUME n = 1 PROVE here = {p} /\ left = {b}
    OBVIOUS
  <2>2. \E x : left = {x}
    <3> HIDE DEF left
    <3> QED BY <1>5, <1>8, <2>1, FS_Singleton
  <2>3. left = {b}
    BY <1>7, <2>2
  <2>4. \A x \in here : x.adrs = b
    BY <2>3 DEF Left
  <2> QED BY <1>3, <1>5, <2>3, <2>4
<1>10. acc = {c \in Blocks(t) : RequestSegment(t, c) \notin rest}
  BY <1>1, <1>5, <1>6
<1>11. n = 1 => acc = Blocks(t)
  BY <1>1, <1>5, <1>6, <1>9
<1>12. ASSUME NEW new, n > 1,
              \E q \in new : new = {q} /\ Partial(t, (Blocks(t) \ left) \cup {b}, q)
       PROVE  Stage(t, rest, n - 1, new, in, acc, ans)
  <2>1. Blocks(t) \ Left(rest) = (Blocks(t) \ left) \cup {b} /\ Left(rest) # Blocks(t)
    BY <1>5, <1>7
  <2>2. Left(rest) \subseteq Blocks(t)
    BY <1>5, <1>7
  <2>3. (\A x \in rest : x \in form(x)) /\ (\A x, y \in rest : x.adrs = y.adrs => x = y)
    BY <1>5
  <2>4. n - 1 = Cardinality(Left(rest)) /\ n - 1 > 0
    <3>1. n - 1 > 0
      BY <1>8, <1>12
    <3> QED BY <1>7, <1>8, <3>1
  <2>5. \E q \in new : new = {q} /\ Partial(t, Blocks(t) \ Left(rest), q)
    BY <1>12, <2>1
  <2> HIDE DEF rest, left, form
  <2>6. Divided(t, rest, n - 1, new, acc)
    BY <1>5, <1>10, <2>1, <2>2, <2>3, <2>4, <2>5 DEF Divided, Left, form
  <2> QED BY <1>4, <2>6 DEF Stage
<1>13. (pend = {} <=> left = Blocks(t)) /\ (pend = {} \/ \E q \in pend : pend = {q})
       /\ (pend # {} => \E q \in pend : pend = {q} /\ Partial(t, Blocks(t) \ left, q))
  BY <1>5
<1> HIDE DEF form, s
<1>14. BackOf(t, b, p)
  BY <1>3 DEF BackOf
<1>15. BackIn(t, here, n, pend, in, acc, ans, b, p)
  <2> HIDE DEF rest
  <2>1. \A new : /\ n > 1
                 /\ \E q \in new : new = {q} /\ Partial(t, (Blocks(t) \ left) \cup {b}, q)
                 => Stage(t, rest, n - 1, new, in, acc, ans)
    BY <1>12
  <2> QED BY <1>4, <1>5, <1>7, <1>8, <1>9, <1>11, <1>13, <2>1 DEF BackIn, rest
<1> QED BY <1>14, <1>15

-----------------------------------------------------------------------------
(* Stages: segments come back.                                             *)

\* The first response of a segment starts the pending packet.
LEMMA FirstStage ==
  ASSUME NEW t \in Tag, NEW here, NEW n, NEW in, NEW acc, NEW ans,
         Stage(t, here, n, {}, in, acc, ans),
         NEW b \in Blocks(t), NEW p, p = RespondPacket(RequestSegment(t, b)), p \in here
  PROVE  n \in Nat \ {0} /\ Stage(t, here \ {p}, n - 1, {p}, in, acc, ans)
<1> DEFINE L == Left(here)
<1> DEFINE P == {}
<1>0. BackOf(t, b, p) /\ BackIn(t, here, n, P, in, acc, ans, b, p)
  BY BackStage
<1>1. /\ Long(t) /\ p \in PacketType /\ p.tag = t /\ p.cmd = Requests[t].cmd
      /\ p.adrs = b /\ p.size = 1 /\ p.segment = TRUE
      /\ p.lng = IF Requests[t].cmd = "RD" THEN 1 + BLOCK ELSE 1
      /\ n = Cardinality(L) /\ n \in Nat \ {0} /\ L = Blocks(t)
  BY <1>0 DEF BackOf, BackIn
<1>2. p.trace <=> b = Requests[t].adrs
  BY <1>0 DEF BackOf
<1>3. \A new : (n > 1 /\ \E q \in new : new = {q} /\ Partial(t, (Blocks(t) \ L) \cup {b}, q))
               => Stage(t, here \ {p}, n - 1, new, in, acc, ans)
  BY <1>0 DEF BackIn
<1> HIDE DEF L
<1>4. n > 1
  <2>1. Cardinality(Blocks(t)) = SegmentCount(Requests[t].size)
    BY BlocksOf
  <2>2. SegmentCount(Requests[t].size) > 1
    BY <1>1, RequestFields, SegmentCounts DEF Long
  <2> QED BY <1>1, <2>1, <2>2
<1>5. (Blocks(t) \ L) \cup {b} = {b}
  BY <1>1
<1>6. Cardinality({b}) = 1
  BY FS_Singleton
<1>7. Partial(t, {b}, p)
  <2>1. p.lng = IF Requests[t].cmd = "RD" THEN 1 + Cardinality({b}) * BLOCK ELSE 1
    BY <1>1, <1>6, RequestFields
  <2>2. p.trace <=> Requests[t].adrs \in {b}
    BY <1>2
  <2>3. p.trace => p.adrs = Requests[t].adrs
    BY <1>1, <1>2
  <2> QED BY <1>1, <2>1, <2>2, <2>3 DEF Partial
<1>8. \E q \in {p} : {p} = {q} /\ Partial(t, (Blocks(t) \ L) \cup {b}, q)
  BY <1>5, <1>7
<1> QED BY <1>1, <1>3, <1>4, <1>8

\* What the pending packet is with one more segment.
LEMMA PartialGrows ==
  ASSUME NEW t \in Tag, NEW A, IsFiniteSet(A), NEW b, b \notin A, NEW q, Partial(t, A, q),
         NEW p \in PacketType, p.adrs = b,
         p.lng = IF Requests[t].cmd = "RD" THEN 1 + BLOCK ELSE 1,
         p.trace <=> b = Requests[t].adrs
  PROVE  Partial(t, A \cup {b}, Combine(q, p))
<1> DEFINE c == Combine(q, p)
           a == Requests[t].adrs
           k == Cardinality(A)
<1>1. /\ q \in PacketType /\ q.tag = t /\ q.cmd = Requests[t].cmd /\ q.size = 1 /\ q.segment
      /\ q.lng = IF Requests[t].cmd = "RD" THEN 1 + k * BLOCK ELSE 1
      /\ (q.trace <=> a \in A) /\ (q.trace => q.adrs = a)
  BY DEF Partial
<1>2. /\ c \in PacketType /\ c.tag = q.tag /\ c.cmd = q.cmd /\ c.size = q.size
      /\ c.lng = IF p.lng > 1 THEN q.lng + BLOCK ELSE q.lng
      /\ c.segment = q.segment
      /\ c.adrs = IF p.trace THEN p.adrs ELSE q.adrs
  BY <1>1, Combined
<1>3. c.trace <=> q.trace \/ p.trace
  BY <1>1, Combined, Zenon
<1> HIDE DEF c
<1>4. Cardinality(A \cup {b}) = k + 1 /\ k \in Nat
  BY FS_AddElement, FS_CardinalityType
<1>5. BLOCK \in Nat \ {0} /\ Requests[t].cmd \in {"RD", "WR"}
  BY RequestFields
<1> HIDE DEF k, a
<1>6. c.lng = IF Requests[t].cmd = "RD" THEN 1 + Cardinality(A \cup {b}) * BLOCK ELSE 1
  <2>1. (k + 1) * BLOCK = k * BLOCK + BLOCK /\ k * BLOCK \in Nat
    BY <1>4, <1>5
  <2> DEFINE x == k * BLOCK
             y == Cardinality(A \cup {b}) * BLOCK
  <2>2. y = x + BLOCK /\ x \in Nat
    BY <1>4, <2>1
  <2>3. q.lng = IF Requests[t].cmd = "RD" THEN 1 + x ELSE 1
    BY <1>1
  <2> HIDE DEF x, y
  <2>4. c.lng = IF Requests[t].cmd = "RD" THEN 1 + y ELSE 1
    BY <1>2, <1>5, <2>2, <2>3
  <2> QED BY <2>4 DEF y
<1>7. c.trace <=> a \in A \cup {b}
  BY <1>1, <1>3 DEF a
<1>8. c.trace => c.adrs = a
  BY <1>1, <1>2, <1>3 DEF a
<1> QED BY <1>1, <1>2, <1>6, <1>7, <1>8 DEF Partial, c, a

\* What joining the pending packet q leaves of a request's stage.
Joined(t, here, n, q, in, acc, ans, p) ==
  /\ n \in Nat \ {0}
  /\ n > 1 => Stage(t, here \ {p}, n - 1, {Combine(q, p)}, in, acc, ans)
  /\ n = 1 => /\ here = {p}
              /\ [Combine(q, p) EXCEPT !.segment = FALSE] = Answer(t)
              /\ Stage(t, {Answer(t)}, 0, {}, in, acc, ans)

\* A response joins the pending packet.
LEMMA MoreStage ==
  ASSUME NEW t \in Tag, NEW here, NEW n, NEW q, NEW in, NEW acc, NEW ans,
         Stage(t, here, n, {q}, in, acc, ans),
         NEW b \in Blocks(t), NEW p, p = RespondPacket(RequestSegment(t, b)), p \in here
  PROVE  Joined(t, here, n, q, in, acc, ans, p)
<1> DEFINE L == Left(here)
           A == Blocks(t) \ L
           c == Combine(q, p)
<1> DEFINE P == {q}
<1>0. BackOf(t, b, p) /\ BackIn(t, here, n, P, in, acc, ans, b, p)
  BY BackStage
<1>1. /\ in /\ ans = 0 /\ Long(t) /\ p \in PacketType /\ p.adrs = b
      /\ p.lng = IF Requests[t].cmd = "RD" THEN 1 + BLOCK ELSE 1
      /\ L \subseteq Blocks(t) /\ b \in L /\ n \in Nat \ {0}
      /\ (n = 1 => here = {p} /\ L = {b} /\ acc = Blocks(t))
  BY <1>0 DEF BackOf, BackIn
<1>2. p.trace <=> b = Requests[t].adrs
  BY <1>0 DEF BackOf
<1>3. Partial(t, A, q)
  <2>1. \E x \in P : P = {x} /\ Partial(t, A, x)
    BY <1>0 DEF BackIn
  <2> QED BY <2>1
<1>4. \A new : (n > 1 /\ \E x \in new : new = {x} /\ Partial(t, A \cup {b}, x))
               => Stage(t, here \ {p}, n - 1, new, in, acc, ans)
  BY <1>0 DEF BackIn
<1>5. IsFiniteSet(A) /\ b \notin A /\ IsFiniteSet(Blocks(t))
  <2>1. IsFiniteSet(Blocks(t)) /\ A \subseteq Blocks(t)
    BY BlocksOf
  <2> QED BY <1>1, <2>1, FS_Subset
<1> HIDE DEF L
<1>6. Partial(t, A \cup {b}, c)
  <2> HIDE DEF A, c
  <2>1. Partial(t, A \cup {b}, Combine(q, p))
    BY <1>1, <1>2, <1>3, <1>5, PartialGrows
  <2> QED BY <2>1 DEF c
<1>7. n > 1 => Stage(t, here \ {p}, n - 1, {c}, in, acc, ans)
  <2>1. \E x \in {c} : {c} = {x} /\ Partial(t, A \cup {b}, x)
    BY <1>6
  <2> QED BY <1>4, <2>1
<1>8. ASSUME n = 1 PROVE [c EXCEPT !.segment = FALSE] = Answer(t)
  <2>1. A \cup {b} = Blocks(t)
    BY <1>1, <1>8
  <2>2. Partial(t, Blocks(t), c)
    BY <1>6, <2>1
  <2> HIDE DEF c
  <2>3. /\ c \in PacketType /\ c.tag = t /\ c.cmd = Requests[t].cmd /\ c.size = 1
        /\ c.lng = IF Requests[t].cmd = "RD" THEN 1 + Cardinality(Blocks(t)) * BLOCK ELSE 1
        /\ (c.trace <=> Requests[t].adrs \in Blocks(t))
        /\ (c.trace => c.adrs = Requests[t].adrs)
    BY <2>2 DEF Partial
  <2>4. Requests[t].adrs \in Blocks(t) /\ Cardinality(Blocks(t)) = SegmentCount(Requests[t].size)
    BY BlocksOf
  <2>5. c.trace = TRUE /\ c.adrs = Requests[t].adrs
    <3>1. c.trace \in BOOLEAN
      BY <2>3, PacketFields
    <3> QED BY <2>3, <2>4, <3>1
  <2> DEFINE d == [c EXCEPT !.segment = FALSE]
  <2>6. /\ d \in PacketType /\ d.tag = c.tag /\ d.cmd = c.cmd /\ d.size = c.size /\ d.lng = c.lng
        /\ d.segment = FALSE /\ d.adrs = c.adrs /\ d.trace = c.trace
    BY <2>3 DEF PacketType
  <2> HIDE DEF d
  <2> DEFINE z == Answer(t)
  <2>7. /\ z \in PacketType /\ z.tag = t /\ z.cmd = Requests[t].cmd /\ z.adrs = Requests[t].adrs
        /\ z.size = 1 /\ z.segment = FALSE /\ z.trace = TRUE
        /\ z.lng = IF Requests[t].cmd = "RD" THEN 1 + SegmentCount(Requests[t].size) * BLOCK ELSE 1
    BY <1>1, AnswerIs
  <2> HIDE DEF z
  <2>8. d.lng = z.lng
    BY <2>3, <2>4, <2>6, <2>7
  <2>9. d = z
    BY <2>3, <2>5, <2>6, <2>7, <2>8, SamePacket
  <2> QED BY <2>9 DEF d, z
<1>9. n = 1 => here = {p} /\ Stage(t, {Answer(t)}, 0, {}, in, acc, ans)
  BY <1>1 DEF Stage
<1> QED BY <1>1, <1>7, <1>8, <1>9 DEF Joined

\* The response leaves the cube.
LEMMA SendStage ==
  ASSUME NEW t \in Tag, NEW here, NEW n, NEW pend, NEW in, NEW acc, NEW ans,
         Stage(t, here, n, pend, in, acc, ans), Answer(t) \in here
  PROVE  /\ in /\ here = {Answer(t)} /\ ans = 0 /\ acc = Blocks(t)
         /\ Stage(t, {}, n, pend, in, acc, 1)
<1>1. Answer(t) # RequestPacket(t) /\ Answer(t).segment = FALSE
  BY Differ, AnswerIs
<1>2. ~ Divided(t, here, n, pend, acc)
  <2>1. SUFFICES ASSUME Divided(t, here, n, pend, acc) PROVE FALSE
    OBVIOUS
  <2>2. Blocks(t) \subseteq Nat
    BY BlocksOf
  <2>3. Answer(t).adrs \in Nat
    BY AnswerIs, RequestFields
  <2>4. Answer(t) \in {RequestSegment(t, Answer(t).adrs), RespondPacket(RequestSegment(t, Answer(t).adrs))}
    BY <2>1 DEF Divided
  <2> QED BY <2>3, <2>4, Differ
<1>3. in /\ here = {Answer(t)} /\ n = 0 /\ pend = {} /\ acc = Blocks(t) /\ ans = 0
  BY <1>1, <1>2 DEF Stage
<1> QED BY <1>3 DEF Stage

-----------------------------------------------------------------------------
(* The pending packets.                                                    *)

LEMMA PendingOf ==
  ASSUME NEW pending \in Seq(PacketType), NEW u, NEW p
  PROVE  p \in Of(u, ToSet(pending)) <=> \E k \in 1 .. Len(pending) : pending[k] = p /\ p.tag = u
BY DEF Of, ToSet

OnePerTag(pending) == \A m, n \in 1 .. Len(pending) : pending[m].tag = pending[n].tag => m = n

\* The pending packets of request t are now B where they were A.
PendingNow(pending, new, t, A, B) ==
  /\ new \in Seq(PacketType) /\ OnePerTag(new)
  /\ Of(t, ToSet(pending)) = A /\ Of(t, ToSet(new)) = B
  /\ \A u : u # t => Of(u, ToSet(new)) = Of(u, ToSet(pending))

\* A first pending packet.
LEMMA PendingAppend ==
  ASSUME NEW pending \in Seq(PacketType), OnePerTag(pending),
         NEW p \in PacketType, \A n \in 1 .. Len(pending) : pending[n].tag # p.tag
  PROVE  PendingNow(pending, Append(pending, p), p.tag, {}, {p})
<1> USE DEF OnePerTag
<1> DEFINE n == Len(pending)
           new == Append(pending, p)
<1>1. /\ n \in Nat /\ new \in Seq(PacketType) /\ Len(new) = n + 1 /\ new[n + 1] = p
      /\ \A k \in 1 .. n : new[k] = pending[k]
  OBVIOUS
<1> HIDE DEF new
<1>2. \A k \in 1 .. n + 1 : k \in 1 .. n \/ k = n + 1
  BY <1>1
<1>3. \A k, m \in 1 .. n + 1 : new[k].tag = new[m].tag => k = m
  BY <1>1, <1>2
<1>4. Of(p.tag, ToSet(pending)) = {}
  BY PendingOf
<1>5. ASSUME NEW u, NEW x PROVE x \in Of(u, ToSet(new)) <=> x \in Of(u, ToSet(pending)) \/ (x = p /\ u = p.tag)
  <2>1. x \in Of(u, ToSet(new)) <=> \E k \in 1 .. n + 1 : new[k] = x /\ x.tag = u
    BY <1>1, PendingOf
  <2>2. x \in Of(u, ToSet(pending)) <=> \E k \in 1 .. n : pending[k] = x /\ x.tag = u
    BY PendingOf
  <2>3. \A k \in 1 .. n : k \in 1 .. n + 1
    BY <1>1
  <2>4. n + 1 \in 1 .. n + 1
    BY <1>1
  <2> HIDE DEF n
  <2> QED BY <1>1, <1>2, <2>1, <2>2, <2>3, <2>4
<1>6. Of(p.tag, ToSet(new)) = {p}
  BY <1>4, <1>5
<1>7. ASSUME NEW u, u # p.tag PROVE Of(u, ToSet(new)) = Of(u, ToSet(pending))
  <2>1. \A x : x \in Of(u, ToSet(new)) <=> x \in Of(u, ToSet(pending))
    BY <1>5, <1>7
  <2> QED BY <2>1
<1>8. PendingNow(pending, new, p.tag, {}, {p})
  BY <1>1, <1>3, <1>4, <1>6, <1>7 DEF PendingNow
<1> QED BY <1>8 DEF new

\* A pending packet grows.
LEMMA PendingReplace ==
  ASSUME NEW pending \in Seq(PacketType), OnePerTag(pending),
         NEW k \in 1 .. Len(pending), NEW c \in PacketType, c.tag = pending[k].tag
  PROVE  PendingNow(pending, [pending EXCEPT ![k] = c], c.tag, {pending[k]}, {c})
<1> USE DEF OnePerTag
<1> DEFINE n == Len(pending)
           new == [pending EXCEPT ![k] = c]
<1>1. /\ new \in Seq(PacketType) /\ Len(new) = n /\ new[k] = c
      /\ \A m \in 1 .. n : m # k => new[m] = pending[m]
  OBVIOUS
<1> HIDE DEF new
<1>2. \A m \in 1 .. n : new[m].tag = pending[m].tag
  BY <1>1
<1>3. \A m, j \in 1 .. n : new[m].tag = new[j].tag => m = j
  BY <1>2
<1>4. ASSUME NEW u, NEW x
      PROVE  /\ x \in Of(u, ToSet(new)) <=> \E m \in 1 .. n : new[m] = x /\ x.tag = u
             /\ x \in Of(u, ToSet(pending)) <=> \E m \in 1 .. n : pending[m] = x /\ x.tag = u
  BY <1>1, PendingOf
<1>5. Of(c.tag, ToSet(pending)) = {pending[k]}
  BY <1>4
<1>6. Of(c.tag, ToSet(new)) = {c}
  BY <1>1, <1>3, <1>4
<1>7. ASSUME NEW u, u # c.tag PROVE Of(u, ToSet(new)) = Of(u, ToSet(pending))
  <2>1. ASSUME NEW x PROVE x \in Of(u, ToSet(new)) <=> x \in Of(u, ToSet(pending))
    <3>1. ASSUME NEW m \in 1 .. n, new[m] = x, x.tag = u PROVE pending[m] = x
      BY <1>1, <1>7, <3>1
    <3>2. ASSUME NEW m \in 1 .. n, pending[m] = x, x.tag = u PROVE new[m] = x
      BY <1>1, <1>7, <3>2
    <3> QED BY <1>4, <3>1, <3>2
  <2> QED BY <2>1
<1>8. PendingNow(pending, new, c.tag, {pending[k]}, {c})
  BY <1>1, <1>3, <1>5, <1>6, <1>7 DEF PendingNow
<1> QED BY <1>8 DEF new

\* An element is taken out of a sequence.
LEMMA RemoveFrom ==
  ASSUME NEW S, NEW q \in Seq(S), NEW k \in 1 .. Len(q)
  PROVE  LET new == RemoveAt(q, k)
         IN  /\ new \in Seq(S) /\ Len(new) = Len(q) - 1
             /\ \A i \in 1 .. Len(q) - 1 : new[i] = IF i < k THEN q[i] ELSE q[i + 1]
<1> DEFINE n == Len(q)
           a == SubSeq(q, 1, k - 1)
           b == SubSeq(q, k + 1, n)
<1>1. n \in Nat /\ k \in Nat /\ k >= 1 /\ k <= n
  OBVIOUS
<1>2. \A i \in 1 .. k - 1 : i \in 1 .. n
  BY <1>1
<1>3. \A i \in k + 1 .. n : i \in 1 .. n
  BY <1>1
<1>4. /\ a \in Seq(S) /\ Len(a) = (IF 1 <= k - 1 THEN k - 1 - 1 + 1 ELSE 0)
      /\ \A i \in 1 .. Len(a) : a[i] = q[1 + i - 1]
  BY <1>1, <1>2
<1>5. /\ b \in Seq(S) /\ Len(b) = (IF k + 1 <= n THEN n - (k + 1) + 1 ELSE 0)
      /\ \A i \in 1 .. Len(b) : b[i] = q[k + 1 + i - 1]
  BY <1>1, <1>3
<1>6. RemoveAt(q, k) = a \o b
  BY DEF RemoveAt
<1> HIDE DEF a, b, n
<1>7. Len(a) = k - 1 /\ Len(b) = n - k
  BY <1>1, <1>4, <1>5
<1> DEFINE c == a \o b
<1>8. /\ c \in Seq(S) /\ Len(c) = Len(a) + Len(b)
      /\ \A i \in 1 .. Len(a) + Len(b) : c[i] = IF i <= Len(a) THEN a[i] ELSE b[i - Len(a)]
  BY <1>4, <1>5, ConcatProperties
<1> HIDE DEF c
<1>9. Len(a) + Len(b) = n - 1
  BY <1>1, <1>7
<1>10. ASSUME NEW i \in 1 .. n - 1 PROVE c[i] = IF i < k THEN q[i] ELSE q[i + 1]
  <2>1. c[i] = IF i <= k - 1 THEN a[i] ELSE b[i - (k - 1)]
    BY <1>7, <1>8, <1>9
  <2>2. CASE i < k
    <3>1. i <= k - 1 /\ i \in 1 .. k - 1 /\ 1 + i - 1 = i
      BY <1>1, <2>2
    <3>2. a[i] = q[i]
      BY <1>4, <1>7, <3>1
    <3> QED BY <2>1, <2>2, <3>1, <3>2
  <2>3. CASE ~(i < k)
    <3> DEFINE j == i - (k - 1)
    <3>1. ~(i <= k - 1) /\ j \in 1 .. n - k /\ k + 1 + j - 1 = i + 1
      BY <1>1, <2>3
    <3> HIDE DEF j
    <3>2. b[j] = q[i + 1]
      BY <1>5, <1>7, <3>1
    <3> QED BY <2>1, <2>3, <3>1, <3>2 DEF j
  <2> QED BY <2>2, <2>3
<1>11. c \in Seq(S) /\ Len(c) = n - 1
  BY <1>8, <1>9
<1> QED BY <1>6, <1>10, <1>11 DEF c, n

\* A pending packet leaves.
LEMMA PendingRemove ==
  ASSUME NEW pending \in Seq(PacketType), OnePerTag(pending), NEW k \in 1 .. Len(pending)
  PROVE  PendingNow(pending, RemoveAt(pending, k), pending[k].tag, {pending[k]}, {})
<1> USE DEF OnePerTag
<1> DEFINE n == Len(pending)
           new == RemoveAt(pending, k)
           t == pending[k].tag
<1>1. /\ new \in Seq(PacketType) /\ Len(new) = n - 1
      /\ \A i \in 1 .. n - 1 : new[i] = IF i < k THEN pending[i] ELSE pending[i + 1]
  BY RemoveFrom
<1>2. n \in Nat /\ k \in 1 .. n
  OBVIOUS
<1> HIDE DEF new
<1> DEFINE f == [i \in 1 .. n - 1 |-> IF i < k THEN i ELSE i + 1]
<1>3. \A i \in 1 .. n - 1 : f[i] \in 1 .. n /\ f[i] # k /\ new[i] = pending[f[i]]
  BY <1>1, <1>2
<1>4. \A i, j \in 1 .. n - 1 : f[i] = f[j] => i = j
  BY <1>2
<1>5. \A m \in 1 .. n : m # k => \E i \in 1 .. n - 1 : f[i] = m
  <2>1. ASSUME NEW m \in 1 .. n, m # k PROVE \E i \in 1 .. n - 1 : f[i] = m
    <3>1. CASE m < k
      <4>1. m \in 1 .. n - 1 /\ f[m] = m
        BY <1>2, <3>1
      <4> QED BY <4>1
    <3>2. CASE m > k
      <4>1. m - 1 \in 1 .. n - 1 /\ ~(m - 1 < k) /\ (m - 1) + 1 = m
        BY <1>2, <3>2
      <4>2. f[m - 1] = m
        BY <4>1
      <4> QED BY <4>1, <4>2
    <3> QED BY <1>2, <2>1, <3>1, <3>2
  <2> QED BY <2>1
<1> HIDE DEF f
<1>6. ASSUME NEW m \in 1 .. n - 1, NEW j \in 1 .. n - 1, new[m].tag = new[j].tag PROVE m = j
  <2>1. pending[f[m]].tag = pending[f[j]].tag /\ f[m] \in 1 .. n /\ f[j] \in 1 .. n
    BY <1>3, <1>6
  <2>2. f[m] = f[j]
    BY <2>1
  <2> QED BY <1>4, <2>2
<1>7. ASSUME NEW u, NEW x
      PROVE  /\ x \in Of(u, ToSet(new)) <=> \E m \in 1 .. n - 1 : new[m] = x /\ x.tag = u
             /\ x \in Of(u, ToSet(pending)) <=> \E m \in 1 .. n : pending[m] = x /\ x.tag = u
  BY <1>1, PendingOf
<1> HIDE DEF n
<1>8. Of(t, ToSet(pending)) = {pending[k]}
  BY <1>2, <1>7 DEF n
<1>9. Of(t, ToSet(new)) = {}
  <2>1. ASSUME NEW m \in 1 .. n - 1, new[m].tag = t PROVE FALSE
    BY <1>2, <1>3, <2>1 DEF n
  <2> HIDE DEF t
  <2> QED BY <1>7, <2>1
<1>10. ASSUME NEW u, u # t PROVE Of(u, ToSet(new)) = Of(u, ToSet(pending))
  <2>1. ASSUME NEW x PROVE x \in Of(u, ToSet(new)) <=> x \in Of(u, ToSet(pending))
    <3>1. ASSUME NEW m \in 1 .. n - 1, new[m] = x, x.tag = u PROVE \E j \in 1 .. n : pending[j] = x
      BY <1>3, <3>1
    <3>2. ASSUME NEW m \in 1 .. n, pending[m] = x, x.tag = u PROVE \E i \in 1 .. n - 1 : new[i] = x
      <4>1. m # k
        BY <1>10, <3>2
      <4> QED BY <1>3, <1>5, <3>2, <4>1
    <3> HIDE DEF t
    <3> QED BY <1>7, <3>1, <3>2
  <2> QED BY <2>1
<1>11. OnePerTag(new)
  BY <1>1, <1>6 DEF n
<1> HIDE DEF t
<1>12. PendingNow(pending, new, t, {pending[k]}, {})
  BY <1>1, <1>8, <1>9, <1>10, <1>11 DEF PendingNow
<1> QED BY <1>12 DEF new, t

-----------------------------------------------------------------------------
(* Steps.                                                                  *)

\* Nothing changes for other requests than t.
Others(t, tags, pending, acc, pairs, ans, tags2, pending2, acc2, pairs2, ans2) ==
  \A u \in Tag \ {t} :
    /\ Count(tags2, u) = Count(tags, u)
    /\ Of(u, ToSet(pending2)) = Of(u, ToSet(pending))
    /\ (u \in acc2 <=> u \in acc)
    /\ BlocksIn(pairs2, u) = BlocksIn(pairs, u)
    /\ ans2[u] = ans[u]

\* Packets of request t leave x and come to y.
Moves(t, held, x, A, y, B) ==
  /\ x \in Place /\ y \in Place /\ A \in SUBSET held[x] /\ B \in SUBSET PacketType
  /\ B \cap Everything(held) \subseteq A
  /\ \A p \in B : Admits(y, p)
  /\ \A p \in A \cup B : p.tag = t

\* A step moves packets of one request, and leaves all others as they are.
LEMMA GoodStep ==
  ASSUME NEW held, NEW tags, NEW pending, NEW acc, NEW pairs, NEW ans,
         Good(held, tags, pending, acc, pairs, ans),
         NEW t \in Tag, NEW x, NEW y, NEW A, NEW B, Moves(t, held, x, A, y, B),
         NEW tags2, NEW pending2, NEW acc2, NEW pairs2, NEW ans2,
         Kept(tags2, pending2, acc2, pairs2, ans2),
         Others(t, tags, pending, acc, pairs, ans, tags2, pending2, acc2, pairs2, ans2),
         StageOf(t, (Of(t, Everything(held)) \ A) \cup B, tags2, pending2, acc2, pairs2, ans2)
  PROVE  Good(Swap(held, x, A, y, B), tags2, pending2, acc2, pairs2, ans2)
<1> DEFINE new == Swap(held, x, A, y, B)
<1>1. Placed(held) /\ \A u \in Tag : StageOf(u, Of(u, Everything(held)), tags, pending, acc, pairs, ans)
  BY DEF Good
<1>2. /\ x \in Place /\ y \in Place /\ A \in SUBSET held[x] /\ B \in SUBSET PacketType
      /\ B \cap Everything(held) \subseteq A
      /\ \A p \in B : Admits(y, p)
      /\ \A p \in A \cup B : p.tag = t
  BY DEF Moves
<1>3. Placed(new) /\ Everything(new) = (Everything(held) \ A) \cup B
  BY <1>1, <1>2, SwapPlaced
<1> HIDE DEF new
<1>4. ASSUME NEW u \in Tag
      PROVE  StageOf(u, Of(u, Everything(new)), tags2, pending2, acc2, pairs2, ans2)
  <2>1. CASE u = t
    <3>1. Of(t, Everything(new)) = (Of(t, Everything(held)) \ A) \cup B
      BY <1>2, <1>3 DEF Of
    <3> QED BY <2>1, <3>1
  <2>2. CASE u # t
    <3>1. Of(u, Everything(new)) = Of(u, Everything(held))
      BY <1>2, <1>3, <2>2 DEF Of
    <3>2. /\ Count(tags2, u) = Count(tags, u)
          /\ Of(u, ToSet(pending2)) = Of(u, ToSet(pending))
          /\ (u \in acc2 <=> u \in acc)
          /\ BlocksIn(pairs2, u) = BlocksIn(pairs, u)
          /\ ans2[u] = ans[u]
      BY <2>2 DEF Others
    <3>3. Stage(u, Of(u, Everything(held)), Count(tags, u), Of(u, ToSet(pending)), u \in acc,
                BlocksIn(pairs, u), ans[u])
      BY <1>1 DEF StageOf
    <3>4. Stage(u, Of(u, Everything(new)), Count(tags2, u), Of(u, ToSet(pending2)), u \in acc2,
                BlocksIn(pairs2, u), ans2[u])
      BY <3>1, <3>2, <3>3 DEF Stage
    <3> QED BY <3>4 DEF StageOf
  <2> QED BY <2>1, <2>2
<1> QED BY <1>3, <1>4 DEF Good, new

\* What a packet somewhere says about its request.
LEMMA PacketHere ==
  ASSUME NEW held, NEW tags, NEW pending, NEW acc, NEW pairs, NEW ans,
         Good(held, tags, pending, acc, pairs, ans), NEW x \in Place, NEW p \in held[x]
  PROVE  /\ p \in PacketType /\ p.tag \in Tag /\ Admits(x, p)
         /\ p \in Everything(held) /\ p \in Of(p.tag, Everything(held))
         /\ Stage(p.tag, Of(p.tag, Everything(held)), Count(tags, p.tag), Of(p.tag, ToSet(pending)),
                  p.tag \in acc, BlocksIn(pairs, p.tag), ans[p.tag])
<1>1. /\ held \in [Place -> SUBSET PacketType] /\ \A z \in Place : \A q \in held[z] : Admits(z, q)
      /\ \A u \in Tag : StageOf(u, Of(u, Everything(held)), tags, pending, acc, pairs, ans)
  BY DEF Good, Placed
<1>2. p \in PacketType /\ p.tag \in Tag
  BY <1>1, PacketFields
<1>3. p \in Everything(held) /\ p \in Of(p.tag, Everything(held))
  BY DEF Everything, Of
<1> QED BY <1>1, <1>2, <1>3 DEF StageOf

\* A packet moves on as it is.
LEMMA GoodMove ==
  ASSUME NEW held, NEW tags, NEW pending, NEW acc, NEW pairs, NEW ans,
         Good(held, tags, pending, acc, pairs, ans),
         NEW x \in Place, NEW y \in Place, NEW p \in held[x], Admits(y, p)
  PROVE  Good(Swap(held, x, {p}, y, {p}), tags, pending, acc, pairs, ans)
<1> DEFINE t == p.tag
           here == Of(t, Everything(held))
<1>1. /\ p \in PacketType /\ t \in Tag /\ p \in here
      /\ Stage(t, here, Count(tags, t), Of(t, ToSet(pending)), t \in acc, BlocksIn(pairs, t), ans[t])
  BY PacketHere
<1>2. Moves(t, held, x, {p}, y, {p})
  BY <1>1 DEF Moves
<1>3. Others(t, tags, pending, acc, pairs, ans, tags, pending, acc, pairs, ans)
  BY DEF Others
<1>4. (here \ {p}) \cup {p} = here
  BY <1>1
<1>5. StageOf(t, (here \ {p}) \cup {p}, tags, pending, acc, pairs, ans)
  BY <1>1, <1>4 DEF StageOf
<1>6. Kept(tags, pending, acc, pairs, ans)
  BY DEF Good
<1> QED BY <1>1, <1>2, <1>3, <1>5, <1>6, GoodStep

\* A request is accepted.
LEMMA GoodAccept ==
  ASSUME NEW held, NEW tags, NEW pending, NEW acc, NEW pairs, NEW ans,
         Good(held, tags, pending, acc, pairs, ans), NEW t \in Tag, t \notin acc
  PROVE  /\ RequestPacket(t) \notin Everything(held)
         /\ Good(Swap(held, <<"down", 0>>, {}, <<"down", 0>>, {RequestPacket(t)}),
                 tags, pending, acc \cup {t}, pairs, ans)
<1> DEFINE here == Of(t, Everything(held))
           p == RequestPacket(t)
           acc2 == acc \cup {t}
           D == <<"down", 0>>
<1>1. /\ StageOf(t, here, tags, pending, acc, pairs, ans) /\ Kept(tags, pending, acc, pairs, ans)
  BY DEF Good
<1>2. Stage(t, here, Count(tags, t), Of(t, ToSet(pending)), FALSE, BlocksIn(pairs, t), ans[t])
  BY <1>1 DEF StageOf, Stage
<1> HIDE DEF here
<1>3. /\ here = {}
      /\ Stage(t, {p}, Count(tags, t), Of(t, ToSet(pending)), TRUE, BlocksIn(pairs, t), ans[t])
  BY <1>2, AcceptStage
<1>4. p \in PacketType /\ p.tag = t
  BY RequestIs
<1>5. p \notin Everything(held)
  BY <1>3, <1>4 DEF here, Of
<1> HIDE DEF p
<1>6. Admits(D, p)
  BY <1>4 DEF Admits, p
<1>7. Moves(t, held, D, {}, D, {p})
  BY <1>4, <1>5, <1>6, PlaceIn DEF Moves
<1>8. Others(t, tags, pending, acc, pairs, ans, tags, pending, acc2, pairs, ans)
  BY DEF Others
<1>9. Kept(tags, pending, acc2, pairs, ans)
  BY <1>1 DEF Kept
<1>10. StageOf(t, (here \ {}) \cup {p}, tags, pending, acc2, pairs, ans)
  <2>1. (here \ {}) \cup {p} = {p}
    BY <1>3
  <2>2. Stage(t, {p}, Count(tags, t), Of(t, ToSet(pending)), t \in acc2, BlocksIn(pairs, t), ans[t])
    BY <1>3 DEF Stage
  <2> QED BY <2>1, <2>2 DEF StageOf
<1> HIDE DEF acc2, D
<1>11. Good(Swap(held, D, {}, D, {p}), tags, pending, acc2, pairs, ans)
  BY <1>7, <1>8, <1>9, <1>10, GoodStep DEF here
<1> QED BY <1>5, <1>11 DEF acc2, D, p

\* What the places say about the packets in them.
LEMMA AdmittedDown ==
  ASSUME NEW p, Admits(<<"down", 0>>, p)
  PROVE  IsPart(p) \/ p = RequestPacket(p.tag)
BY DEF Admits

\* What lies in the upstream buffer is a vault's response or a complete one.
LEMMA AdmittedUp ==
  ASSUME NEW p, Admits(<<"up", 0>>, p)
  PROVE  IsReply(p) \/ p = Answer(p.tag)
BY DEF Admits

\* A part is short or a segment.
LEMMA PartIs ==
  ASSUME NEW p \in PacketType, p.tag \in Tag, IsPart(p)
  PROVE  /\ p.adrs \in Blocks(p.tag) /\ p.size <= BLOCK
         /\ Long(p.tag) => p = RequestSegment(p.tag, p.adrs) /\ p.segment = TRUE
         /\ ~Long(p.tag) => p = RequestPacket(p.tag) /\ p.segment = FALSE
<1> DEFINE t == p.tag
           b == p.adrs
<1>1. b \in Blocks(t) /\ p = IF Long(t) THEN RequestSegment(t, b) ELSE RequestPacket(t)
  BY DEF IsPart, Part
<1>2. t \in Tag /\ b \in Nat
  BY PacketFields
<1>3. RequestSegment(t, b).size = BLOCK /\ RequestSegment(t, b).segment = TRUE
  BY <1>2, SegmentIs
<1>4. RequestPacket(t).size = Requests[t].size /\ RequestPacket(t).segment = FALSE
  BY <1>2, RequestIs
<1>5. BLOCK \in Nat /\ Requests[t].size \in Nat
  BY <1>2, RequestFields
<1> HIDE DEF t, b
<1> QED BY <1>1, <1>3, <1>4, <1>5 DEF Long, t, b

\* A packet longer than a block is a request that is not yet divided.
LEMMA LongIs ==
  ASSUME NEW p \in PacketType, p.tag \in Tag, Admits(<<"down", 0>>, p), p.size > BLOCK
  PROVE  p = RequestPacket(p.tag) /\ Long(p.tag)
<1>1. IsPart(p) \/ p = RequestPacket(p.tag)
  BY AdmittedDown
<1>2. p.size \in Nat /\ BLOCK \in Nat
  BY PacketFields, CrossbarAssumption
<1>3. ~IsPart(p)
  <2>1. SUFFICES ASSUME IsPart(p) PROVE FALSE
    OBVIOUS
  <2>2. p.size <= BLOCK
    BY <2>1, PartIs
  <2> QED BY <1>2, <2>2
<1>4. p = RequestPacket(p.tag)
  BY <1>1, <1>3
<1>5. p.size = Requests[p.tag].size
  BY <1>4, RequestIs
<1> QED BY <1>4, <1>5 DEF Long

\* The other packets in the buffer may go to a vault.
LEMMA ShortIs ==
  ASSUME NEW p \in PacketType, p.tag \in Tag, Admits(<<"down", 0>>, p), p.size <= BLOCK
  PROVE  IsPart(p)
<1>1. IsPart(p) \/ p = RequestPacket(p.tag)
  BY AdmittedDown
<1>2. ASSUME p = RequestPacket(p.tag) PROVE IsPart(p)
  <2>1. p.size = Requests[p.tag].size /\ p.adrs = Requests[p.tag].adrs
    BY <1>2, RequestIs
  <2>2. Requests[p.tag].size \in Nat /\ BLOCK \in Nat
    BY RequestFields
  <2>3. ~Long(p.tag)
    BY <2>1, <2>2 DEF Long
  <2>4. p.adrs \in Blocks(p.tag)
    BY <2>1, BlocksOf
  <2> QED BY <1>2, <2>3, <2>4 DEF IsPart, Part
<1> QED BY <1>1, <1>2

DividedInto(held, tags, pending, acc, pairs, ans, p, n, S) ==
  /\ p \in PacketType /\ p.tag \in Tag /\ p = RequestPacket(p.tag)
  /\ S \subseteq PacketType /\ S \cap Everything(held) = {} /\ n \in Nat \ {0}
  /\ Good(Swap(held, <<"down", 0>>, {p}, <<"down", 0>>, S), tags \o Copies(p.tag, n),
          pending, acc, pairs, ans)

\* A request is divided.
LEMMA GoodDivide ==
  ASSUME NEW held, NEW tags, NEW pending, NEW acc, NEW pairs, NEW ans,
         Good(held, tags, pending, acc, pairs, ans),
         NEW p \in held[<<"down", 0>>], p.size > BLOCK
  PROVE  DividedInto(held, tags, pending, acc, pairs, ans, p, SegmentCount(p.size), SegmentSet(p))
<1> DEFINE D == <<"down", 0>>
           t == p.tag
           here == Of(t, Everything(held))
           n == SegmentCount(p.size)
           S == {Segments(p)[j] : j \in 1 .. n}
           Z == {RequestSegment(t, b) : b \in Blocks(t)}
           tags2 == tags \o Copies(t, n)
<1>1. /\ p \in PacketType /\ t \in Tag /\ Admits(D, p) /\ p \in here
      /\ Stage(t, here, Count(tags, t), Of(t, ToSet(pending)), t \in acc, BlocksIn(pairs, t), ans[t])
  BY PlaceIn, PacketHere
<1>2. p = RequestPacket(t) /\ Long(t)
  BY <1>1, LongIs
<1>3. n = SegmentCount(Requests[t].size) /\ S = Z
  <2> HIDE DEF t
  <2>1. SegmentSet(p) = SegmentsFor(t) /\ SegmentCount(p.size) = SegmentCount(Requests[t].size)
    BY <1>1, <1>2, SegmentsOf DEF SegmentsAre
  <2> QED BY <2>1 DEF SegmentSet, SegmentsFor
<1>4. n \in Nat \ {0}
  BY <1>1, <1>3, RequestFields, SegmentCounts
<1> HIDE DEF S, n, here
<1>5. /\ here = {p} /\ Count(tags, t) = 0
      /\ Stage(t, Z, n, Of(t, ToSet(pending)), t \in acc, BlocksIn(pairs, t), ans[t])
  BY <1>1, <1>2, <1>3, DivideStage
<1>6. \A x \in Z : x \in PacketType /\ x.tag = t /\ x.segment = TRUE /\ Admits(D, x)
  <2>1. ASSUME NEW b \in Blocks(t)
        PROVE  /\ RequestSegment(t, b) \in PacketType /\ RequestSegment(t, b).tag = t
               /\ RequestSegment(t, b).segment = TRUE /\ Admits(D, RequestSegment(t, b))
    <3>1. b \in Nat
      BY <1>1, BlocksOf
    <3>2. /\ RequestSegment(t, b) \in PacketType /\ RequestSegment(t, b).tag = t
          /\ RequestSegment(t, b).segment = TRUE /\ RequestSegment(t, b).adrs = b
      <4> HIDE DEF t
      <4>1. t \in Tag
        BY <1>1
      <4> QED BY <3>1, <4>1, SegmentIs
    <3>3. IsPart(RequestSegment(t, b))
      BY <1>2, <3>2 DEF IsPart, Part
    <3> QED BY <3>2, <3>3 DEF Admits
  <2> QED BY <2>1
<1> HIDE DEF Z
<1>7. Z \cap Everything(held) = {}
  <2>1. ASSUME NEW x \in Z, x \in Everything(held) PROVE FALSE
    <3>1. x \in here
      BY <1>6, <2>1 DEF here, Of
    <3>2. x = p /\ p.segment = FALSE
      BY <1>1, <1>2, <1>5, <3>1, RequestIs
    <3> QED BY <1>6, <3>2
  <2> QED BY <2>1
<1>8. Moves(t, held, D, {p}, D, Z)
  BY <1>1, <1>6, <1>7, PlaceIn DEF Moves
<1>9. Kept(tags, pending, acc, pairs, ans)
  BY DEF Good
<1>10. Copies(t, n) \in Seq(Tag) /\ \A u : Count(Copies(t, n), u) = IF u = t THEN n ELSE 0
  <2>1. ASSUME NEW u
        PROVE  Copies(t, n) \in Seq(Tag) /\ Count(Copies(t, n), u) = IF u = t THEN n ELSE 0
    BY <1>1, <1>4, CountCopies
  <2> QED BY <2>1
<1>11. tags2 \in Seq(Tag) /\ \A u : Count(tags2, u) = Count(tags, u) + Count(Copies(t, n), u)
  <2>1. tags \in Seq(Tag)
    BY <1>9 DEF Kept
  <2>2. ASSUME NEW u
        PROVE  tags2 \in Seq(Tag) /\ Count(tags2, u) = Count(tags, u) + Count(Copies(t, n), u)
    BY <1>10, <2>1, CountConcat
  <2> QED BY <2>2
<1>12. Count(tags2, t) = n /\ \A u \in Tag \ {t} : Count(tags2, u) = Count(tags, u)
  <2>1. tags \in Seq(Tag)
    BY <1>9 DEF Kept
  <2>2. \A u : Count(tags, u) \in Nat
    BY <2>1, CountFinite
  <2> QED BY <1>4, <1>5, <1>10, <1>11, <2>2
<1> HIDE DEF tags2
<1>13. Others(t, tags, pending, acc, pairs, ans, tags2, pending, acc, pairs, ans)
  BY <1>12 DEF Others
<1>14. Kept(tags2, pending, acc, pairs, ans)
  BY <1>9, <1>11 DEF Kept
<1>15. StageOf(t, (here \ {p}) \cup Z, tags2, pending, acc, pairs, ans)
  <2>1. (here \ {p}) \cup Z = Z
    BY <1>5
  <2> QED BY <1>5, <1>12, <2>1 DEF StageOf
<1> HIDE DEF D, t
<1>16. Good(Swap(held, D, {p}, D, Z), tags2, pending, acc, pairs, ans)
  BY <1>1, <1>8, <1>13, <1>14, <1>15, GoodStep DEF here
<1>17. S = SegmentSet(p)
  BY DEF S, SegmentSet, n
<1>18. S \subseteq PacketType
  BY <1>3, <1>6
<1>19. DividedInto(held, tags, pending, acc, pairs, ans, p, n, S)
  BY <1>1, <1>2, <1>3, <1>4, <1>7, <1>16, <1>18 DEF DividedInto, D, t, tags2
<1> QED BY <1>17, <1>19 DEF n

\* One block more is accessed.
LEMMA PairsAdd ==
  ASSUME NEW pairs, NEW t \in Tag, NEW b \in Blocks(t)
  PROVE  /\ BlocksIn(pairs \cup {<<t, b>>}, t) = BlocksIn(pairs, t) \cup {b}
         /\ \A u : u # t => BlocksIn(pairs \cup {<<t, b>>}, u) = BlocksIn(pairs, u)
         /\ <<t, b>> \in pairs <=> b \in BlocksIn(pairs, t)
BY DEF BlocksIn

\* What a vault's access does to its packet's request.
AccessTo(t, here, n, pend, in, acc, ans, b, p, r) ==
  /\ in /\ b \in Blocks(t) /\ b \notin acc
  /\ r \in PacketType /\ r.tag = t /\ r \notin here /\ IsReply(r)
  /\ Stage(t, (here \ {p}) \cup {r}, n, pend, in, acc \cup {b}, ans)

\* The stages when a vault has accessed a block.
LEMMA AccessIs ==
  ASSUME NEW t \in Tag, NEW here, NEW n, NEW pend, NEW in, NEW acc, NEW ans,
         Stage(t, here, n, pend, in, acc, ans),
         NEW p \in here, p \in PacketType, p.tag = t, IsPart(p)
  PROVE  AccessTo(t, here, n, pend, in, acc, ans, p.adrs, p, RespondPacket(p))
<1> DEFINE b == p.adrs
           r == RespondPacket(p)
<1>1. /\ b \in Blocks(t) /\ (Long(t) => p = RequestSegment(t, b))
      /\ (~Long(t) => p = RequestPacket(t))
  BY PartIs
<1>2. r \in PacketType /\ r.tag = t /\ r.adrs = b
  BY ReplyTo
<1>3. p = Part(t, b)
  BY <1>1 DEF Part
<1>4. IsReply(r)
  BY <1>1, <1>2, <1>3 DEF IsReply
<1>5. CASE Long(t)
  <2>1. p = RequestSegment(t, b)
    BY <1>1, <1>5
  <2> HIDE DEF b
  <2>2. /\ in /\ b \notin acc /\ RespondPacket(p) \notin here
        /\ Stage(t, (here \ {p}) \cup {RespondPacket(p)}, n, pend, in, acc \cup {b}, ans)
    BY <1>1, <2>1, AccessStage
  <2> QED BY <1>1, <1>2, <1>4, <2>2 DEF AccessTo, b
<1>6. CASE ~Long(t)
  <2>1. p = RequestPacket(t)
    BY <1>1, <1>6
  <2>2. b = Requests[t].adrs
    BY <2>1, RequestIs
  <2>3. /\ in /\ here = {RequestPacket(t)} /\ acc = {} /\ Blocks(t) = {Requests[t].adrs}
        /\ RespondPacket(RequestPacket(t)) = Answer(t)
        /\ Stage(t, {Answer(t)}, n, pend, in, Blocks(t), ans)
    <3>1. RequestPacket(t) \in here
      BY <2>1
    <3> HIDE DEF r, b
    <3> QED BY <1>6, <3>1, ShortStage
  <2>4. r = Answer(t) /\ Answer(t) # RequestPacket(t)
    BY <2>1, <2>3, Differ
  <2> HIDE DEF r, b
  <2>5. (here \ {p}) \cup {r} = {Answer(t)} /\ r \notin here /\ acc \cup {b} = Blocks(t) /\ b \notin acc
    BY <2>1, <2>2, <2>3, <2>4
  <2> QED BY <1>1, <1>2, <1>4, <2>3, <2>5 DEF AccessTo, b, r
<1> QED BY <1>5, <1>6

\* A vault accesses a block.
LEMMA GoodAccess ==
  ASSUME NEW held, NEW tags, NEW pending, NEW acc, NEW pairs, NEW ans,
         Good(held, tags, pending, acc, pairs, ans), NEW v \in Vault,
         NEW p \in held[<<"banks", v>>]
  PROVE  /\ p \in PacketType /\ p.tag \in acc /\ p.tag \in Tag
         /\ p.adrs \in Blocks(p.tag) /\ <<p.tag, p.adrs>> \notin pairs
         /\ RespondPacket(p) \in PacketType /\ RespondPacket(p) \notin Everything(held)
         /\ Good(Swap(held, <<"banks", v>>, {p}, <<"out", v>>, {RespondPacket(p)}),
                 tags, pending, acc, pairs \cup {<<p.tag, p.adrs>>}, ans)
<1> DEFINE x == <<"banks", v>>
           y == <<"out", v>>
           t == p.tag
           b == p.adrs
           r == RespondPacket(p)
           here == Of(t, Everything(held))
           pairs2 == pairs \cup {<<t, b>>}
<1>1. /\ p \in PacketType /\ t \in Tag /\ Admits(x, p) /\ p \in here
      /\ Stage(t, here, Count(tags, t), Of(t, ToSet(pending)), t \in acc, BlocksIn(pairs, t), ans[t])
  BY PlaceIn, PacketHere
<1>2. IsPart(p)
  BY <1>1 DEF Admits
<1> DEFINE n == Count(tags, t)
           pend == Of(t, ToSet(pending))
           in == t \in acc
           back == BlocksIn(pairs, t)
           a == ans[t]
<1> HIDE DEF here, n, pend, in, back, a
<1>3. AccessTo(t, here, n, pend, in, back, a, b, p, r)
  <2>1. t \in Tag /\ Stage(t, here, n, pend, in, back, a) /\ p \in here /\ p \in PacketType /\ p.tag = t
    BY <1>1 DEF n, pend, in, back, a
  <2> HIDE DEF t
  <2> QED BY <1>2, <2>1, AccessIs
<1> HIDE DEF r
<1>4. /\ in /\ b \in Blocks(t) /\ b \notin back
      /\ r \in PacketType /\ r.tag = t /\ r \notin here /\ IsReply(r)
      /\ Stage(t, (here \ {p}) \cup {r}, n, pend, in, back \cup {b}, a)
  BY <1>3 DEF AccessTo
<1>5. r \notin Everything(held)
  BY <1>4 DEF here, Of
<1>6. Admits(y, r)
  BY <1>4 DEF Admits
<1>7. Moves(t, held, x, {p}, y, {r})
  BY <1>1, <1>4, <1>5, <1>6, PlaceIn DEF Moves
<1>8. /\ BlocksIn(pairs2, t) = back \cup {b} /\ \A u : u # t => BlocksIn(pairs2, u) = BlocksIn(pairs, u)
      /\ <<t, b>> \notin pairs
  BY <1>1, <1>4, PairsAdd DEF back
<1>9. Kept(tags, pending, acc, pairs, ans) /\ b \in Nat
  BY <1>1, PacketFields DEF Good
<1> HIDE DEF t, b
<1>10. Kept(tags, pending, acc, pairs2, ans)
  BY <1>1, <1>9 DEF Kept
<1>11. Others(t, tags, pending, acc, pairs, ans, tags, pending, acc, pairs2, ans)
  BY <1>8 DEF Others
<1>12. StageOf(t, (here \ {p}) \cup {r}, tags, pending, acc, pairs2, ans)
  BY <1>4, <1>8 DEF StageOf, n, pend, in, a
<1> HIDE DEF x, y, pairs2
<1>13. Good(Swap(held, x, {p}, y, {r}), tags, pending, acc, pairs2, ans)
  BY <1>1, <1>7, <1>10, <1>11, <1>12, GoodStep DEF here
<1> QED BY <1>1, <1>4, <1>5, <1>8, <1>13 DEF x, y, pairs2, t, b, r, in

\* A segment's response in the upstream buffer.
LEMMA SegmentBackIs ==
  ASSUME NEW p \in PacketType, p.tag \in Tag, Admits(<<"up", 0>>, p), p.segment
  PROVE  p.adrs \in Blocks(p.tag) /\ p = RespondPacket(RequestSegment(p.tag, p.adrs))
<1> DEFINE t == p.tag
           b == p.adrs
<1>1. IsReply(p)
  <2>1. Answer(t).segment = FALSE
    BY AnswerIs
  <2> QED BY <2>1, AdmittedUp
<1>2. b \in Blocks(t) /\ p = RespondPacket(Part(t, b))
  BY <1>1 DEF IsReply
<1>3. Long(t)
  <2>1. SUFFICES ASSUME ~Long(t) PROVE FALSE
    OBVIOUS
  <2>2. p = Answer(t)
    BY <1>2, <2>1, ShortAnswer DEF Part
  <2>3. Answer(t).segment = FALSE
    BY AnswerIs
  <2> HIDE DEF t
  <2> QED BY <2>2, <2>3
<1> HIDE DEF t, b
<1> QED BY <1>2, <1>3 DEF Part, t, b

\* The other packets in it are complete.
LEMMA CompleteIs ==
  ASSUME NEW p \in PacketType, p.tag \in Tag, Admits(<<"up", 0>>, p), ~p.segment
  PROVE  p = Answer(p.tag)
<1> DEFINE t == p.tag
           b == p.adrs
<1>1. SUFFICES ASSUME IsReply(p) PROVE p = Answer(t)
  BY AdmittedUp
<1>2. b \in Blocks(t) /\ p = RespondPacket(Part(t, b)) /\ b \in Nat /\ t \in Tag
  BY <1>1, PacketFields DEF IsReply
<1>3. ~Long(t)
  <2>1. SUFFICES ASSUME Long(t) PROVE FALSE
    OBVIOUS
  <2> HIDE DEF t, b
  <2> DEFINE s == RequestSegment(t, b)
  <2>2. s \in PacketType /\ s.segment = TRUE
    BY <1>2, SegmentIs
  <2>3. p = RespondPacket(s)
    BY <1>2, <2>1 DEF Part
  <2> HIDE DEF s
  <2>4. RespondPacket(s).segment = TRUE
    BY <2>2, ReplyTo
  <2> QED BY <2>3, <2>4
<1> HIDE DEF t, b
<1> QED BY <1>2, <1>3, ShortAnswer DEF Part

\* The first of t's n pending tags, at j, is taken out.
TagOut(tags, t, j, n) ==
  /\ j \in 1 .. Len(tags) /\ tags[j] = t /\ (IsLast(tags, j) <=> n = 1)
  /\ RemoveAt(tags, j) \in Seq(Tag) /\ Count(RemoveAt(tags, j), t) = n - 1
  /\ \A u : u # t => Count(RemoveAt(tags, j), u) = Count(tags, u)

\* The first pending tag of a request is taken out.
LEMMA TagOutIs ==
  ASSUME NEW tags \in Seq(Tag), NEW t, Count(tags, t) # 0
  PROVE  TagOut(tags, t, Min(At(tags, t)), Count(tags, t))
<1> DEFINE j == Min(At(tags, t))
<1>1. /\ j \in 1 .. Len(tags) /\ tags[j] = t
      /\ IsLast(tags, j) <=> Count(tags, t) = 1
  BY LastOne
<1> HIDE DEF j
<1>2. ASSUME NEW u
      PROVE  /\ RemoveAt(tags, j) \in Seq(Tag)
             /\ Count(RemoveAt(tags, j), u) = IF u = tags[j] THEN Count(tags, u) - 1 ELSE Count(tags, u)
  BY <1>1, CountRemoveAt
<1>3. TagOut(tags, t, j, Count(tags, t))
  BY <1>1, <1>2 DEF TagOut
<1> QED BY <1>3 DEF j

\* The state in which p is met: p and its request.
Met(held, tags, pending, acc, pairs, ans, p, t, here, n) ==
  /\ p \in PacketType /\ t \in Tag /\ t = p.tag /\ p.adrs \in Blocks(t) /\ p.adrs \in Nat
  /\ p = RespondPacket(RequestSegment(t, p.adrs))
  /\ p \in held[<<"up", 0>>] /\ <<"up", 0>> \in Place
  /\ here = Of(t, Everything(held)) /\ p \in here
  /\ n = Count(tags, t) /\ n \in Nat \ {0}
  /\ Stage(t, here, n, Of(t, ToSet(pending)), t \in acc, BlocksIn(pairs, t), ans[t])
  /\ TagOut(tags, t, Min(At(tags, t)), n)
  /\ Kept(tags, pending, acc, pairs, ans)

\* What the loop over upBuffers meets in a segment's response.
LEMMA MetIs ==
  ASSUME NEW held, NEW tags, NEW pending, NEW acc, NEW pairs, NEW ans,
         Good(held, tags, pending, acc, pairs, ans),
         NEW p \in held[<<"up", 0>>], p.segment
  PROVE  Met(held, tags, pending, acc, pairs, ans, p, p.tag, Of(p.tag, Everything(held)),
             Count(tags, p.tag))
<1> DEFINE t == p.tag
           here == Of(t, Everything(held))
           n == Count(tags, t)
           b == p.adrs
           pend == Of(t, ToSet(pending))
           in == t \in acc
           back == BlocksIn(pairs, t)
           a == ans[t]
<1>1. /\ p \in PacketType /\ t \in Tag /\ Admits(<<"up", 0>>, p) /\ p \in here
      /\ Stage(t, here, n, pend, in, back, a) /\ <<"up", 0>> \in Place
  BY PlaceIn, PacketHere
<1>2. b \in Blocks(t) /\ p = RespondPacket(RequestSegment(t, b)) /\ b \in Nat
  BY <1>1, SegmentBackIs, PacketFields
<1>3. Kept(tags, pending, acc, pairs, ans)
  BY DEF Good
<1> HIDE DEF n, pend, in, back, a, here
<1>4. n \in Nat \ {0}
  <2> HIDE DEF t, b
  <2>1. BackIn(t, here, n, pend, in, back, a, b, p)
    BY <1>1, <1>2, BackStage
  <2> QED BY <2>1 DEF BackIn
<1>5. tags \in Seq(Tag) /\ Count(tags, t) # 0
  BY <1>3, <1>4 DEF Kept, n
<1> HIDE DEF t
<1>6. TagOut(tags, t, Min(At(tags, t)), n)
  BY <1>5, TagOutIs DEF n
<1> HIDE DEF b
<1>7. Met(held, tags, pending, acc, pairs, ans, p, t, here, n)
  BY <1>1, <1>2, <1>3, <1>4, <1>6 DEF Met, here, n, pend, in, back, a, t, b
<1> QED BY <1>7 DEF t, here, n

\* The first segment back becomes the pending packet.
LEMMA GoodFirst ==
  ASSUME NEW held, NEW tags, NEW pending, NEW acc, NEW pairs, NEW ans,
         Good(held, tags, pending, acc, pairs, ans),
         NEW p, NEW t, NEW here, NEW n, Met(held, tags, pending, acc, pairs, ans, p, t, here, n),
         \A k \in 1 .. Len(pending) : pending[k].tag # t
  PROVE  Good(Swap(held, <<"up", 0>>, {p}, <<"up", 0>>, {}),
              RemoveAt(tags, Min(At(tags, t))), Append(pending, p), acc, pairs, ans)
<1> DEFINE U == <<"up", 0>>
           b == p.adrs
           tags2 == RemoveAt(tags, Min(At(tags, t)))
           pending2 == Append(pending, p)
           pend == Of(t, ToSet(pending))
           in == t \in acc
           back == BlocksIn(pairs, t)
           a == ans[t]
<1>1. /\ p \in PacketType /\ t \in Tag /\ t = p.tag /\ b \in Blocks(t)
      /\ p = RespondPacket(RequestSegment(t, b))
      /\ p \in held[U] /\ U \in Place
      /\ here = Of(t, Everything(held)) /\ p \in here
      /\ Stage(t, here, n, pend, in, back, a)
  BY DEF Met
<1>2. tags2 \in Seq(Tag) /\ Count(tags2, t) = n - 1 /\ \A u : u # t => Count(tags2, u) = Count(tags, u)
  BY DEF Met, TagOut
<1>3. Kept(tags, pending, acc, pairs, ans)
  BY DEF Met
<1> HIDE DEF tags2, pend, in, back, a, b
<1>4. /\ pending2 \in Seq(PacketType)
      /\ \A m, k \in 1 .. Len(pending2) : pending2[m].tag = pending2[k].tag => m = k
      /\ pend = {} /\ Of(t, ToSet(pending2)) = {p}
      /\ \A u : u # t => Of(u, ToSet(pending2)) = Of(u, ToSet(pending))
  <2>1. pending \in Seq(PacketType) /\ OnePerTag(pending)
    BY <1>3 DEF Kept, OnePerTag
  <2>2. \A k \in 1 .. Len(pending) : pending[k].tag # p.tag
    BY <1>1
  <2>3. PendingNow(pending, Append(pending, p), p.tag, {}, {p})
    BY <1>1, <2>1, <2>2, PendingAppend
  <2>4. PendingNow(pending, pending2, t, {}, {p})
    BY <1>1, <2>3
  <2> HIDE DEF pending2
  <2> QED BY <1>1, <2>4 DEF PendingNow, OnePerTag, pend
<1> HIDE DEF pending2
<1>5. Stage(t, here \ {p}, n - 1, {p}, in, back, a)
  <2>1. Stage(t, here, n, {}, in, back, a)
    BY <1>1, <1>4
  <2> QED BY <1>1, <2>1, FirstStage
<1>6. Moves(t, held, U, {p}, U, {})
  BY <1>1 DEF Moves
<1>7. Kept(tags2, pending2, acc, pairs, ans)
  BY <1>2, <1>3, <1>4 DEF Kept
<1>8. Others(t, tags, pending, acc, pairs, ans, tags2, pending2, acc, pairs, ans)
  BY <1>2, <1>4 DEF Others
<1>9. StageOf(t, (here \ {p}) \cup {}, tags2, pending2, acc, pairs, ans)
  <2>1. (here \ {p}) \cup {} = here \ {p}
    OBVIOUS
  <2> QED BY <1>2, <1>4, <1>5, <2>1 DEF StageOf, in, back, a
<1> HIDE DEF U
<1>10. Good(Swap(held, U, {p}, U, {}), tags2, pending2, acc, pairs, ans)
  BY <1>1, <1>6, <1>7, <1>8, <1>9, GoodStep
<1> QED BY <1>10 DEF U, tags2, pending2

\* One that is not the last joins the pending packet.
LEMMA GoodMore ==
  ASSUME NEW held, NEW tags, NEW pending, NEW acc, NEW pairs, NEW ans,
         Good(held, tags, pending, acc, pairs, ans),
         NEW p, NEW t, NEW here, NEW n, Met(held, tags, pending, acc, pairs, ans, p, t, here, n),
         NEW k \in 1 .. Len(pending), pending[k].tag = t, n # 1
  PROVE  Good(Swap(held, <<"up", 0>>, {p}, <<"up", 0>>, {}),
              RemoveAt(tags, Min(At(tags, t))), [pending EXCEPT ![k] = Combine(pending[k], p)],
              acc, pairs, ans)
<1> DEFINE U == <<"up", 0>>
           b == p.adrs
           q == pending[k]
           c == Combine(q, p)
           tags2 == RemoveAt(tags, Min(At(tags, t)))
           pending2 == [pending EXCEPT ![k] = c]
           pend == Of(t, ToSet(pending))
           in == t \in acc
           back == BlocksIn(pairs, t)
           a == ans[t]
<1>1. /\ p \in PacketType /\ t \in Tag /\ t = p.tag /\ b \in Blocks(t)
      /\ p = RespondPacket(RequestSegment(t, b))
      /\ p \in held[U] /\ U \in Place
      /\ here = Of(t, Everything(held)) /\ p \in here
      /\ Stage(t, here, n, pend, in, back, a)
      /\ n \in Nat \ {0}
  BY DEF Met
<1>2. tags2 \in Seq(Tag) /\ Count(tags2, t) = n - 1 /\ \A u : u # t => Count(tags2, u) = Count(tags, u)
  BY DEF Met, TagOut
<1>3. Kept(tags, pending, acc, pairs, ans)
  BY DEF Met
<1> HIDE DEF tags2, pend, in, back, a, b
<1>4. c \in PacketType /\ c.tag = t /\ q \in PacketType
  <2>1. q \in PacketType
    BY <1>3 DEF Kept
  <2>2. q.tag = t
    OBVIOUS
  <2> HIDE DEF q
  <2> QED BY <1>1, <2>1, <2>2, Combined
<1> HIDE DEF c
<1>5. /\ pending2 \in Seq(PacketType)
      /\ \A m, j \in 1 .. Len(pending2) : pending2[m].tag = pending2[j].tag => m = j
      /\ pend = {q} /\ Of(t, ToSet(pending2)) = {c}
      /\ \A u : u # t => Of(u, ToSet(pending2)) = Of(u, ToSet(pending))
  <2>1. pending \in Seq(PacketType) /\ OnePerTag(pending)
    BY <1>3 DEF Kept, OnePerTag
  <2>2. c.tag = pending[k].tag
    BY <1>4
  <2>3. PendingNow(pending, pending2, c.tag, {pending[k]}, {c})
    BY <1>4, <2>1, <2>2, PendingReplace
  <2>4. PendingNow(pending, pending2, t, {q}, {c})
    BY <1>4, <2>3
  <2> HIDE DEF pending2, q
  <2> QED BY <2>4 DEF PendingNow, OnePerTag, pend
<1> HIDE DEF pending2, q
<1>6. Stage(t, here \ {p}, n - 1, {c}, in, back, a)
  <2>1. Stage(t, here, n, {q}, in, back, a)
    BY <1>1, <1>5
  <2>2. Joined(t, here, n, q, in, back, a, p)
    BY <1>1, <2>1, MoreStage
  <2>3. n > 1
    BY <1>1
  <2> QED BY <2>2, <2>3 DEF Joined, c
<1>7. Moves(t, held, U, {p}, U, {})
  BY <1>1 DEF Moves
<1>8. Kept(tags2, pending2, acc, pairs, ans)
  BY <1>2, <1>3, <1>5 DEF Kept
<1>9. Others(t, tags, pending, acc, pairs, ans, tags2, pending2, acc, pairs, ans)
  BY <1>2, <1>5 DEF Others
<1>10. StageOf(t, (here \ {p}) \cup {}, tags2, pending2, acc, pairs, ans)
  <2>1. (here \ {p}) \cup {} = here \ {p}
    OBVIOUS
  <2> QED BY <1>2, <1>5, <1>6, <2>1 DEF StageOf, in, back, a
<1> HIDE DEF U
<1>11. Good(Swap(held, U, {p}, U, {}), tags2, pending2, acc, pairs, ans)
  BY <1>1, <1>7, <1>8, <1>9, <1>10, GoodStep
<1> QED BY <1>11 DEF U, tags2, pending2, c, q

\* With the last one the response r is complete.
Completes(held, tags, pending, acc, pairs, ans, p, r) ==
  /\ r \in PacketType /\ r \notin Everything(held)
  /\ Good(Swap(held, <<"up", 0>>, {p}, <<"up", 0>>, {r}), tags, pending, acc, pairs, ans)

\* The last segment back completes the response.
LEMMA GoodLast ==
  ASSUME NEW held, NEW tags, NEW pending, NEW acc, NEW pairs, NEW ans,
         Good(held, tags, pending, acc, pairs, ans),
         NEW p, NEW t, NEW here, NEW n, Met(held, tags, pending, acc, pairs, ans, p, t, here, n),
         NEW k \in 1 .. Len(pending), pending[k].tag = t, n = 1
  PROVE  Completes(held, RemoveAt(tags, Min(At(tags, t))), RemoveAt(pending, k), acc, pairs, ans, p,
                   [Combine(pending[k], p) EXCEPT !.segment = FALSE])
<1> DEFINE U == <<"up", 0>>
           b == p.adrs
           q == pending[k]
           r == Answer(t)
           tags2 == RemoveAt(tags, Min(At(tags, t)))
           pending2 == RemoveAt(pending, k)
           pend == Of(t, ToSet(pending))
           in == t \in acc
           back == BlocksIn(pairs, t)
           a == ans[t]
<1>1. /\ p \in PacketType /\ t \in Tag /\ t = p.tag /\ b \in Blocks(t) /\ b \in Nat
      /\ p = RespondPacket(RequestSegment(t, b))
      /\ p \in held[U] /\ U \in Place
      /\ here = Of(t, Everything(held)) /\ p \in here
      /\ Stage(t, here, n, pend, in, back, a)
  BY DEF Met
<1>2. tags2 \in Seq(Tag) /\ Count(tags2, t) = 0 /\ \A u : u # t => Count(tags2, u) = Count(tags, u)
  BY DEF Met, TagOut
<1>3. Kept(tags, pending, acc, pairs, ans)
  BY DEF Met
<1> HIDE DEF tags2, pend, in, back, a, b
<1>4. /\ pending2 \in Seq(PacketType)
      /\ \A m, j \in 1 .. Len(pending2) : pending2[m].tag = pending2[j].tag => m = j
      /\ pend = {q} /\ Of(t, ToSet(pending2)) = {}
      /\ \A u : u # t => Of(u, ToSet(pending2)) = Of(u, ToSet(pending))
  <2>1. pending \in Seq(PacketType) /\ OnePerTag(pending)
    BY <1>3 DEF Kept, OnePerTag
  <2>2. PendingNow(pending, pending2, pending[k].tag, {pending[k]}, {})
    BY <2>1, PendingRemove
  <2>3. PendingNow(pending, pending2, t, {q}, {})
    BY <2>2
  <2> HIDE DEF pending2, q
  <2> QED BY <2>3 DEF PendingNow, OnePerTag, pend
<1> HIDE DEF pending2, q
<1>5. here = {p} /\ [Combine(q, p) EXCEPT !.segment = FALSE] = Answer(t)
      /\ Stage(t, {Answer(t)}, 0, {}, in, back, a)
  <2>1. Stage(t, here, n, {q}, in, back, a)
    BY <1>1, <1>4
  <2>2. Joined(t, here, n, q, in, back, a, p)
    BY <1>1, <2>1, MoreStage
  <2> QED BY <2>2 DEF Joined
<1>6. r \in PacketType /\ r.tag = t /\ r # p
  <2>1. r # RespondPacket(RequestSegment(t, b))
    BY <1>1, Differ
  <2> QED BY <1>1, <2>1, AnswerIs
<1> HIDE DEF r
<1>7. r \notin Everything(held)
  BY <1>1, <1>5, <1>6 DEF Of
<1>8. Admits(U, r)
  BY <1>6 DEF Admits, r
<1>9. Moves(t, held, U, {p}, U, {r})
  BY <1>1, <1>6, <1>7, <1>8 DEF Moves
<1>10. Kept(tags2, pending2, acc, pairs, ans)
  BY <1>2, <1>3, <1>4 DEF Kept
<1>11. Others(t, tags, pending, acc, pairs, ans, tags2, pending2, acc, pairs, ans)
  BY <1>2, <1>4 DEF Others
<1>12. StageOf(t, (here \ {p}) \cup {r}, tags2, pending2, acc, pairs, ans)
  <2>1. (here \ {p}) \cup {r} = {r}
    BY <1>5
  <2> QED BY <1>2, <1>4, <1>5, <2>1 DEF StageOf, in, back, a, r
<1> HIDE DEF U
<1>13. Good(Swap(held, U, {p}, U, {r}), tags2, pending2, acc, pairs, ans)
  BY <1>1, <1>9, <1>10, <1>11, <1>12, GoodStep
<1>14. Completes(held, tags2, pending2, acc, pairs, ans, p, r)
  BY <1>6, <1>7, <1>13 DEF Completes, U
<1> QED BY <1>5, <1>14 DEF tags2, pending2, r, q

\* A response leaves the cube.
LEMMA GoodSend ==
  ASSUME NEW held, NEW tags, NEW pending, NEW acc, NEW pairs, NEW ans,
         Good(held, tags, pending, acc, pairs, ans),
         NEW l \in Link, NEW p \in held[<<"link", l>>]
  PROVE  /\ p.tag \in Tag /\ ans[p.tag] = 0 /\ \A b \in Blocks(p.tag) : <<p.tag, b>> \in pairs
         /\ Good(Swap(held, <<"link", l>>, {p}, <<"link", l>>, {}),
                 tags, pending, acc, pairs, [ans EXCEPT ![p.tag] = @ + 1])
<1> DEFINE x == <<"link", l>>
           t == p.tag
           here == Of(t, Everything(held))
           n == Count(tags, t)
           pend == Of(t, ToSet(pending))
           in == t \in acc
           back == BlocksIn(pairs, t)
           a == ans[t]
           ans2 == [ans EXCEPT ![t] = @ + 1]
<1>1. /\ p \in PacketType /\ t \in Tag /\ Admits(x, p) /\ p \in here
      /\ Stage(t, here, n, pend, in, back, a) /\ x \in Place
  BY PlaceIn, PacketHere
<1>2. p = Answer(t)
  BY <1>1 DEF Admits
<1>3. Kept(tags, pending, acc, pairs, ans)
  BY DEF Good
<1> HIDE DEF here, n, pend, in, back, a
<1>4. /\ in /\ here = {Answer(t)} /\ a = 0 /\ back = Blocks(t)
      /\ Stage(t, {}, n, pend, in, back, 1)
  <2> HIDE DEF t
  <2>1. Answer(t) \in here
    BY <1>1, <1>2
  <2> QED BY <1>1, <2>1, SendStage
<1>5. Moves(t, held, x, {p}, x, {})
  BY <1>1 DEF Moves
<1>6. ans2 \in [Tag -> Nat] /\ ans2[t] = 1 /\ \A u \in Tag \ {t} : ans2[u] = ans[u]
  <2>1. ans \in [Tag -> Nat] /\ ans[t] = 0
    BY <1>3, <1>4 DEF Kept, a
  <2> HIDE DEF t
  <2>2. t \in Tag
    BY <1>1
  <2> QED BY <2>1, <2>2
<1>7. \A b \in Blocks(t) : <<t, b>> \in pairs
  BY <1>4 DEF back, BlocksIn
<1> HIDE DEF ans2, t
<1>8. Kept(tags, pending, acc, pairs, ans2)
  BY <1>3, <1>6 DEF Kept
<1>9. Others(t, tags, pending, acc, pairs, ans, tags, pending, acc, pairs, ans2)
  BY <1>6 DEF Others
<1>10. StageOf(t, (here \ {p}) \cup {}, tags, pending, acc, pairs, ans2)
  <2>1. (here \ {p}) \cup {} = {}
    BY <1>2, <1>4
  <2> QED BY <1>4, <1>6, <2>1 DEF StageOf, n, pend, in, back
<1> HIDE DEF x
<1>11. Good(Swap(held, x, {p}, x, {}), tags, pending, acc, pairs, ans2)
  BY <1>1, <1>5, <1>8, <1>9, <1>10, GoodStep DEF here
<1> QED BY <1>1, <1>4, <1>7, <1>11 DEF x, t, ans2, a

-----------------------------------------------------------------------------
(* The contents after each kind of move.                                   *)

\* Place z, which held S, after a swap.
After(z, S, x, A, y, B) == (S \ (IF z = x THEN A ELSE {})) \cup (IF z = y THEN B ELSE {})

AllAfter(d, u, in, banks, out, links, d2, u2, in2, banks2, out2, links2, x, A, y, B) ==
  /\ Packets(d2) = After(<<"down", 0>>, Packets(d), x, A, y, B)
  /\ Packets(u2) = After(<<"up", 0>>, Packets(u), x, A, y, B)
  /\ \A v \in Vault :
       /\ Packets(in2[v]) = After(<<"in", v>>, Packets(in[v]), x, A, y, B)
       /\ banks2[v] = After(<<"banks", v>>, banks[v], x, A, y, B)
       /\ Packets(out2[v]) = After(<<"out", v>>, Packets(out[v]), x, A, y, B)
  /\ \A l \in Link : Packets(links2[l]) = After(<<"link", l>>, Packets(links[l]), x, A, y, B)

\* The contents are a function on the places.
LEMMA ContentsFunction ==
  ASSUME NEW d, NEW u, NEW in, NEW banks, NEW out, NEW links
  PROVE  LET c == Contents(d, u, in, banks, out, links) IN c = [z \in Place |-> c[z]]
<1> DEFINE c == Contents(d, u, in, banks, out, links)
           F(z) == CASE z[1] = "down" -> Packets(d)
                     [] z[1] = "up" -> Packets(u)
                     [] z[1] = "in" -> Packets(in[z[2]])
                     [] z[1] = "banks" -> banks[z[2]]
                     [] z[1] = "out" -> Packets(out[z[2]])
                     [] z[1] = "link" -> Packets(links[z[2]])
<1>1. c = [z \in Place |-> F(z)]
  BY DEF Contents
<1> HIDE DEF c, F
<1>2. c = [z \in Place |-> c[z]]
  BY <1>1
<1> QED BY <1>2 DEF c

\* The contents change as the buffers do.
LEMMA ContentsBy ==
  ASSUME NEW d, NEW u, NEW in, NEW banks, NEW out, NEW links,
         NEW d2, NEW u2, NEW in2, NEW banks2, NEW out2, NEW links2,
         NEW x, NEW A, NEW y, NEW B,
         AllAfter(d, u, in, banks, out, links, d2, u2, in2, banks2, out2, links2, x, A, y, B)
  PROVE  Contents(d2, u2, in2, banks2, out2, links2)
           = Swap(Contents(d, u, in, banks, out, links), x, A, y, B)
<1> DEFINE old == Contents(d, u, in, banks, out, links)
           new == Contents(d2, u2, in2, banks2, out2, links2)
           D == <<"down", 0>>
           U == <<"up", 0>>
<1>1. /\ old[D] = Packets(d) /\ old[U] = Packets(u)
      /\ \A v \in Vault : /\ old[<<"in", v>>] = Packets(in[v])
                          /\ old[<<"banks", v>>] = banks[v]
                          /\ old[<<"out", v>>] = Packets(out[v])
      /\ \A l \in Link : old[<<"link", l>>] = Packets(links[l])
  BY ContentsAt DEF HeldAt
<1>2. /\ new[D] = Packets(d2) /\ new[U] = Packets(u2)
      /\ \A v \in Vault : /\ new[<<"in", v>>] = Packets(in2[v])
                          /\ new[<<"banks", v>>] = banks2[v]
                          /\ new[<<"out", v>>] = Packets(out2[v])
      /\ \A l \in Link : new[<<"link", l>>] = Packets(links2[l])
  BY ContentsAt DEF HeldAt
<1>3. new = [z \in Place |-> new[z]]
  BY ContentsFunction
<1> HIDE DEF old, new, D, U
<1> USE DEF AllAfter
<1>4. ASSUME NEW z \in Place PROVE new[z] = After(z, old[z], x, A, y, B)
  <2>1. CASE z = D
    BY <1>1, <1>2, <2>1 DEF D
  <2>2. CASE z = U
    BY <1>1, <1>2, <2>2 DEF U
  <2>3. ASSUME NEW v \in Vault, z = <<"in", v>> PROVE new[z] = After(z, old[z], x, A, y, B)
    BY <1>1, <1>2, <2>3
  <2>4. ASSUME NEW v \in Vault, z = <<"banks", v>> PROVE new[z] = After(z, old[z], x, A, y, B)
    BY <1>1, <1>2, <2>4
  <2>5. ASSUME NEW v \in Vault, z = <<"out", v>> PROVE new[z] = After(z, old[z], x, A, y, B)
    BY <1>1, <1>2, <2>5
  <2>6. ASSUME NEW l \in Link, z = <<"link", l>> PROVE new[z] = After(z, old[z], x, A, y, B)
    BY <1>1, <1>2, <2>6
  <2>7. \/ z = D \/ z = U
        \/ \E v \in Vault : z \in {<<"in", v>>, <<"banks", v>>, <<"out", v>>}
        \/ \E l \in Link : z = <<"link", l>>
    BY Places DEF D, U
  <2>8. ASSUME NEW v \in Vault, z \in {<<"in", v>>, <<"banks", v>>, <<"out", v>>}
        PROVE  new[z] = After(z, old[z], x, A, y, B)
    BY <2>3, <2>4, <2>5, <2>8
  <2> QED BY <2>1, <2>2, <2>6, <2>7, <2>8
<1>5. Swap(old, x, A, y, B) = [z \in Place |-> After(z, old[z], x, A, y, B)]
  BY DEF Swap, After
<1>6. new = Swap(old, x, A, y, B)
  BY <1>3, <1>4, <1>5
<1> QED BY <1>6 DEF old, new

\* A place that is neither left nor reached.
LEMMA AfterOther ==
  ASSUME NEW z, NEW S, NEW x, NEW A, NEW y, NEW B
  PROVE  /\ z # x /\ z # y => After(z, S, x, A, y, B) = S
         /\ z = x /\ z # y => After(z, S, x, A, y, B) = S \ A
         /\ z # x /\ z = y => After(z, S, x, A, y, B) = S \cup B
         /\ z = x /\ z = y => After(z, S, x, A, y, B) = (S \ A) \cup B
BY DEF After

\* Places differ.
LEMMA PlacesDiffer ==
  ASSUME NEW a, NEW b, NEW c, NEW d
  PROVE  <<a, b>> = <<c, d>> <=> a = c /\ b = d
OBVIOUS

\* In the downstream buffer.
LEMMA ContentsDown ==
  ASSUME NEW d, NEW u, NEW in, NEW banks, NEW out, NEW links, NEW d2, NEW A, NEW B,
         Packets(d2) = (Packets(d) \ A) \cup B
  PROVE  Contents(d2, u, in, banks, out, links)
           = Swap(Contents(d, u, in, banks, out, links), <<"down", 0>>, A, <<"down", 0>>, B)
<1> DEFINE D == <<"down", 0>>
<1>1. D # <<"up", 0>> /\ \A v : D # <<"in", v>> /\ D # <<"banks", v>> /\ D # <<"out", v>> /\ D # <<"link", v>>
  BY PlacesDiffer
<1> HIDE DEF D
<1>2. AllAfter(d, u, in, banks, out, links, d2, u, in, banks, out, links, D, A, D, B)
  BY <1>1 DEF AllAfter, After, D
<1>3. Contents(d2, u, in, banks, out, links)
        = Swap(Contents(d, u, in, banks, out, links), D, A, D, B)
  BY <1>2, ContentsBy
<1> QED BY <1>3 DEF D

\* In the upstream buffer.
LEMMA ContentsUp ==
  ASSUME NEW d, NEW u, NEW in, NEW banks, NEW out, NEW links, NEW u2, NEW A, NEW B,
         Packets(u2) = (Packets(u) \ A) \cup B
  PROVE  Contents(d, u2, in, banks, out, links)
           = Swap(Contents(d, u, in, banks, out, links), <<"up", 0>>, A, <<"up", 0>>, B)
<1> DEFINE U == <<"up", 0>>
<1>1. U # <<"down", 0>> /\ \A v : U # <<"in", v>> /\ U # <<"banks", v>> /\ U # <<"out", v>> /\ U # <<"link", v>>
  BY PlacesDiffer
<1> HIDE DEF U
<1>2. AllAfter(d, u, in, banks, out, links, d, u2, in, banks, out, links, U, A, U, B)
  BY <1>1 DEF AllAfter, After, U
<1>3. Contents(d, u2, in, banks, out, links)
        = Swap(Contents(d, u, in, banks, out, links), U, A, U, B)
  BY <1>2, ContentsBy
<1> QED BY <1>3 DEF U

\* From the downstream buffer to a vault.
FromDownTo(v, p, d, in, d2, in2) ==
  /\ v \in Vault /\ Packets(d2) = Packets(d) \ {p} /\ Packets(in2[v]) = Packets(in[v]) \cup {p}
  /\ \A w \in Vault : w # v => in2[w] = in[w]

\* From the crossbar to a vault.
LEMMA ContentsDownIn ==
  ASSUME NEW d, NEW u, NEW in, NEW banks, NEW out, NEW links, NEW d2, NEW in2, NEW v, NEW p,
         FromDownTo(v, p, d, in, d2, in2)
  PROVE  Contents(d2, u, in2, banks, out, links)
           = Swap(Contents(d, u, in, banks, out, links), <<"down", 0>>, {p}, <<"in", v>>, {p})
<1> DEFINE x == <<"down", 0>>
           y == <<"in", v>>
<1>1. /\ x # <<"up", 0>> /\ \A w : x # <<"in", w>> /\ x # <<"banks", w>> /\ x # <<"out", w>> /\ x # <<"link", w>>
      /\ y # <<"down", 0>> /\ y # <<"up", 0>>
      /\ \A w : y # <<"banks", w>> /\ y # <<"out", w>> /\ y # <<"link", w>> /\ (y = <<"in", w>> => w = v)
  BY PlacesDiffer
<1>2. y = <<"in", v>>
  OBVIOUS
<1> HIDE DEF x, y
<1>3. AllAfter(d, u, in, banks, out, links, d2, u, in2, banks, out, links, x, {p}, y, {p})
  <2>1. ASSUME NEW w \in Vault PROVE Packets(in2[w]) = After(<<"in", w>>, Packets(in[w]), x, {p}, y, {p})
    <3>1. CASE w = v
      BY <1>1, <1>2, <3>1 DEF After, FromDownTo
    <3>2. CASE w # v
      BY <1>1, <3>2 DEF After, FromDownTo
    <3> QED BY <3>1, <3>2
  <2>2. Packets(d2) = After(<<"down", 0>>, Packets(d), x, {p}, y, {p})
    BY <1>1 DEF After, x, FromDownTo
  <2>3. /\ Packets(u) = After(<<"up", 0>>, Packets(u), x, {p}, y, {p})
        /\ \A w \in Vault : /\ banks[w] = After(<<"banks", w>>, banks[w], x, {p}, y, {p})
                            /\ Packets(out[w]) = After(<<"out", w>>, Packets(out[w]), x, {p}, y, {p})
        /\ \A l \in Link : Packets(links[l]) = After(<<"link", l>>, Packets(links[l]), x, {p}, y, {p})
    BY <1>1 DEF After
  <2> QED BY <2>1, <2>2, <2>3 DEF AllAfter
<1>4. Contents(d2, u, in2, banks, out, links)
        = Swap(Contents(d, u, in, banks, out, links), x, {p}, y, {p})
  BY <1>3, ContentsBy
<1> QED BY <1>4 DEF x, y

\* From a vault's buffer to its banks.
FromInToBanks(v, p, in, banks, in2, banks2) ==
  /\ v \in Vault /\ Packets(in2[v]) = Packets(in[v]) \ {p} /\ banks2[v] = banks[v] \cup {p}
  /\ \A w \in Vault : w # v => in2[w] = in[w] /\ banks2[w] = banks[w]

\* From a vault's buffer to its banks.
LEMMA ContentsInBanks ==
  ASSUME NEW d, NEW u, NEW in, NEW banks, NEW out, NEW links, NEW in2, NEW banks2, NEW v, NEW p,
         FromInToBanks(v, p, in, banks, in2, banks2)
  PROVE  Contents(d, u, in2, banks2, out, links)
           = Swap(Contents(d, u, in, banks, out, links), <<"in", v>>, {p}, <<"banks", v>>, {p})
<1> DEFINE x == <<"in", v>>
           y == <<"banks", v>>
<1>1. /\ x # <<"down", 0>> /\ x # <<"up", 0>> /\ y # <<"down", 0>> /\ y # <<"up", 0>>
      /\ \A w : x # <<"banks", w>> /\ x # <<"out", w>> /\ x # <<"link", w>> /\ (x = <<"in", w>> => w = v)
      /\ \A w : y # <<"in", w>> /\ y # <<"out", w>> /\ y # <<"link", w>> /\ (y = <<"banks", w>> => w = v)
  BY PlacesDiffer
<1>2. x = <<"in", v>> /\ y = <<"banks", v>>
  OBVIOUS
<1> HIDE DEF x, y
<1>3. AllAfter(d, u, in, banks, out, links, d, u, in2, banks2, out, links, x, {p}, y, {p})
  <2>1. ASSUME NEW w \in Vault
        PROVE  /\ Packets(in2[w]) = After(<<"in", w>>, Packets(in[w]), x, {p}, y, {p})
               /\ banks2[w] = After(<<"banks", w>>, banks[w], x, {p}, y, {p})
    <3>1. CASE w = v
      BY <1>1, <1>2, <3>1 DEF After, FromInToBanks
    <3>2. CASE w # v
      BY <1>1, <3>2 DEF After, FromInToBanks
    <3> QED BY <3>1, <3>2
  <2>2. /\ Packets(d) = After(<<"down", 0>>, Packets(d), x, {p}, y, {p})
        /\ Packets(u) = After(<<"up", 0>>, Packets(u), x, {p}, y, {p})
        /\ \A w \in Vault : Packets(out[w]) = After(<<"out", w>>, Packets(out[w]), x, {p}, y, {p})
        /\ \A l \in Link : Packets(links[l]) = After(<<"link", l>>, Packets(links[l]), x, {p}, y, {p})
    BY <1>1 DEF After, FromInToBanks
  <2> QED BY <2>1, <2>2 DEF AllAfter
<1>4. Contents(d, u, in2, banks2, out, links)
        = Swap(Contents(d, u, in, banks, out, links), x, {p}, y, {p})
  BY <1>3, ContentsBy
<1> QED BY <1>4 DEF x, y

\* From the banks to the vault's responses.
FromBanksToOut(v, p, r, banks, out, banks2, out2) ==
  /\ v \in Vault /\ banks2[v] = banks[v] \ {p} /\ Packets(out2[v]) = Packets(out[v]) \cup {r}
  /\ \A w \in Vault : w # v => banks2[w] = banks[w] /\ out2[w] = out[w]

\* A vault responds.
LEMMA ContentsBanksOut ==
  ASSUME NEW d, NEW u, NEW in, NEW banks, NEW out, NEW links, NEW banks2, NEW out2, NEW v,
         NEW p, NEW r, FromBanksToOut(v, p, r, banks, out, banks2, out2)
  PROVE  Contents(d, u, in, banks2, out2, links)
           = Swap(Contents(d, u, in, banks, out, links), <<"banks", v>>, {p}, <<"out", v>>, {r})
<1> DEFINE x == <<"banks", v>>
           y == <<"out", v>>
<1>1. /\ x # <<"down", 0>> /\ x # <<"up", 0>> /\ y # <<"down", 0>> /\ y # <<"up", 0>>
      /\ \A w : x # <<"in", w>> /\ x # <<"out", w>> /\ x # <<"link", w>> /\ (x = <<"banks", w>> => w = v)
      /\ \A w : y # <<"in", w>> /\ y # <<"banks", w>> /\ y # <<"link", w>> /\ (y = <<"out", w>> => w = v)
  BY PlacesDiffer
<1>2. x = <<"banks", v>> /\ y = <<"out", v>>
  OBVIOUS
<1> HIDE DEF x, y
<1>3. AllAfter(d, u, in, banks, out, links, d, u, in, banks2, out2, links, x, {p}, y, {r})
  <2>1. ASSUME NEW w \in Vault
        PROVE  /\ banks2[w] = After(<<"banks", w>>, banks[w], x, {p}, y, {r})
               /\ Packets(out2[w]) = After(<<"out", w>>, Packets(out[w]), x, {p}, y, {r})
    <3>1. CASE w = v
      BY <1>1, <1>2, <3>1 DEF After, FromBanksToOut
    <3>2. CASE w # v
      BY <1>1, <3>2 DEF After, FromBanksToOut
    <3> QED BY <3>1, <3>2
  <2>2. /\ Packets(d) = After(<<"down", 0>>, Packets(d), x, {p}, y, {r})
        /\ Packets(u) = After(<<"up", 0>>, Packets(u), x, {p}, y, {r})
        /\ \A w \in Vault : Packets(in[w]) = After(<<"in", w>>, Packets(in[w]), x, {p}, y, {r})
        /\ \A l \in Link : Packets(links[l]) = After(<<"link", l>>, Packets(links[l]), x, {p}, y, {r})
    BY <1>1 DEF After, FromBanksToOut
  <2> QED BY <2>1, <2>2 DEF AllAfter
<1>4. Contents(d, u, in, banks2, out2, links)
        = Swap(Contents(d, u, in, banks, out, links), x, {p}, y, {r})
  BY <1>3, ContentsBy
<1> QED BY <1>4 DEF x, y

\* From a vault to the upstream buffer.
FromOutToUp(v, p, u, out, u2, out2) ==
  /\ v \in Vault /\ Packets(u2) = Packets(u) \cup {p} /\ Packets(out2[v]) = Packets(out[v]) \ {p}
  /\ \A w \in Vault : w # v => out2[w] = out[w]

\* From a vault to the crossbar.
LEMMA ContentsOutUp ==
  ASSUME NEW d, NEW u, NEW in, NEW banks, NEW out, NEW links, NEW u2, NEW out2, NEW v, NEW p,
         FromOutToUp(v, p, u, out, u2, out2)
  PROVE  Contents(d, u2, in, banks, out2, links)
           = Swap(Contents(d, u, in, banks, out, links), <<"out", v>>, {p}, <<"up", 0>>, {p})
<1> DEFINE x == <<"out", v>>
           y == <<"up", 0>>
<1>1. /\ y # <<"down", 0>> /\ \A w : y # <<"in", w>> /\ y # <<"banks", w>> /\ y # <<"out", w>> /\ y # <<"link", w>>
      /\ x # <<"down", 0>> /\ x # <<"up", 0>>
      /\ \A w : x # <<"in", w>> /\ x # <<"banks", w>> /\ x # <<"link", w>> /\ (x = <<"out", w>> => w = v)
  BY PlacesDiffer
<1>2. x = <<"out", v>>
  OBVIOUS
<1> HIDE DEF x, y
<1>3. AllAfter(d, u, in, banks, out, links, d, u2, in, banks, out2, links, x, {p}, y, {p})
  <2>1. ASSUME NEW w \in Vault PROVE Packets(out2[w]) = After(<<"out", w>>, Packets(out[w]), x, {p}, y, {p})
    <3>1. CASE w = v
      BY <1>1, <1>2, <3>1 DEF After, FromOutToUp
    <3>2. CASE w # v
      BY <1>1, <3>2 DEF After, FromOutToUp
    <3> QED BY <3>1, <3>2
  <2>2. Packets(u2) = After(<<"up", 0>>, Packets(u), x, {p}, y, {p})
    BY <1>1 DEF After, y, FromOutToUp
  <2>3. /\ Packets(d) = After(<<"down", 0>>, Packets(d), x, {p}, y, {p})
        /\ \A w \in Vault : /\ Packets(in[w]) = After(<<"in", w>>, Packets(in[w]), x, {p}, y, {p})
                            /\ banks[w] = After(<<"banks", w>>, banks[w], x, {p}, y, {p})
        /\ \A l \in Link : Packets(links[l]) = After(<<"link", l>>, Packets(links[l]), x, {p}, y, {p})
    BY <1>1 DEF After, FromOutToUp
  <2> QED BY <2>1, <2>2, <2>3 DEF AllAfter
<1>4. Contents(d, u2, in, banks, out2, links)
        = Swap(Contents(d, u, in, banks, out, links), x, {p}, y, {p})
  BY <1>3, ContentsBy
<1> QED BY <1>4 DEF x, y

\* From the upstream buffer to a link.
FromUpTo(l, p, u, links, u2, links2) ==
  /\ l \in Link /\ Packets(u2) = Packets(u) \ {p} /\ Packets(links2[l]) = Packets(links[l]) \cup {p}
  /\ \A k \in Link : k # l => links2[k] = links[k]

\* From the crossbar to a link.
LEMMA ContentsUpLink ==
  ASSUME NEW d, NEW u, NEW in, NEW banks, NEW out, NEW links, NEW u2, NEW links2, NEW l, NEW p,
         FromUpTo(l, p, u, links, u2, links2)
  PROVE  Contents(d, u2, in, banks, out, links2)
           = Swap(Contents(d, u, in, banks, out, links), <<"up", 0>>, {p}, <<"link", l>>, {p})
<1> DEFINE x == <<"up", 0>>
           y == <<"link", l>>
<1>1. /\ x # <<"down", 0>> /\ \A w : x # <<"in", w>> /\ x # <<"banks", w>> /\ x # <<"out", w>> /\ x # <<"link", w>>
      /\ y # <<"down", 0>> /\ y # <<"up", 0>>
      /\ \A w : y # <<"in", w>> /\ y # <<"banks", w>> /\ y # <<"out", w>> /\ (y = <<"link", w>> => w = l)
  BY PlacesDiffer
<1>2. y = <<"link", l>>
  OBVIOUS
<1> HIDE DEF x, y
<1>3. AllAfter(d, u, in, banks, out, links, d, u2, in, banks, out, links2, x, {p}, y, {p})
  <2>1. ASSUME NEW k \in Link PROVE Packets(links2[k]) = After(<<"link", k>>, Packets(links[k]), x, {p}, y, {p})
    <3>1. CASE k = l
      BY <1>1, <1>2, <3>1 DEF After, FromUpTo
    <3>2. CASE k # l
      BY <1>1, <3>2 DEF After, FromUpTo
    <3> QED BY <3>1, <3>2
  <2>2. Packets(u2) = After(<<"up", 0>>, Packets(u), x, {p}, y, {p})
    BY <1>1 DEF After, x, FromUpTo
  <2>3. /\ Packets(d) = After(<<"down", 0>>, Packets(d), x, {p}, y, {p})
        /\ \A w \in Vault : /\ Packets(in[w]) = After(<<"in", w>>, Packets(in[w]), x, {p}, y, {p})
                            /\ banks[w] = After(<<"banks", w>>, banks[w], x, {p}, y, {p})
                            /\ Packets(out[w]) = After(<<"out", w>>, Packets(out[w]), x, {p}, y, {p})
    BY <1>1 DEF After
  <2> QED BY <2>1, <2>2, <2>3 DEF AllAfter
<1>4. Contents(d, u2, in, banks, out, links2)
        = Swap(Contents(d, u, in, banks, out, links), x, {p}, y, {p})
  BY <1>3, ContentsBy
<1> QED BY <1>4 DEF x, y

\* Out of a link's buffer.
FromLink(l, p, links, links2) ==
  /\ l \in Link /\ Packets(links2[l]) = Packets(links[l]) \ {p}
  /\ \A k \in Link : k # l => links2[k] = links[k]

\* Out of the cube.
LEMMA ContentsLink ==
  ASSUME NEW d, NEW u, NEW in, NEW banks, NEW out, NEW links, NEW links2, NEW l, NEW p,
         FromLink(l, p, links, links2)
  PROVE  Contents(d, u, in, banks, out, links2)
           = Swap(Contents(d, u, in, banks, out, links), <<"link", l>>, {p}, <<"link", l>>, {})
<1> DEFINE y == <<"link", l>>
<1>1. /\ y # <<"down", 0>> /\ y # <<"up", 0>>
      /\ \A w : y # <<"in", w>> /\ y # <<"banks", w>> /\ y # <<"out", w>> /\ (y = <<"link", w>> => w = l)
  BY PlacesDiffer
<1>2. y = <<"link", l>>
  OBVIOUS
<1> HIDE DEF y
<1>3. AllAfter(d, u, in, banks, out, links, d, u, in, banks, out, links2, y, {p}, y, {})
  <2>1. ASSUME NEW k \in Link PROVE Packets(links2[k]) = After(<<"link", k>>, Packets(links[k]), y, {p}, y, {})
    <3>1. CASE k = l
      BY <1>1, <1>2, <3>1 DEF After, FromLink
    <3>2. CASE k # l
      BY <1>1, <3>2 DEF After, FromLink
    <3> QED BY <3>1, <3>2
  <2>2. /\ Packets(d) = After(<<"down", 0>>, Packets(d), y, {p}, y, {})
        /\ Packets(u) = After(<<"up", 0>>, Packets(u), y, {p}, y, {})
        /\ \A w \in Vault : /\ Packets(in[w]) = After(<<"in", w>>, Packets(in[w]), y, {p}, y, {})
                            /\ banks[w] = After(<<"banks", w>>, banks[w], y, {p}, y, {})
                            /\ Packets(out[w]) = After(<<"out", w>>, Packets(out[w]), y, {p}, y, {})
    BY <1>1 DEF After, FromLink
  <2> QED BY <2>1, <2>2 DEF AllAfter
<1>4. Contents(d, u, in, banks, out, links2)
        = Swap(Contents(d, u, in, banks, out, links), y, {p}, y, {})
  BY <1>3, ContentsBy
<1> QED BY <1>4 DEF y

-----------------------------------------------------------------------------
(* The downstream loop.                                                    *)

DownState == [i : Nat \ {0}, down : Seq(Flit), tags : Seq(Tag), vaults : [Vault -> Seq(Flit)]]

DownGood(st, up, banks, out, links, pending, acc, pairs, ans) ==
  /\ Buffers(st.down, up, st.vaults, out, links)
  /\ Good(Contents(st.down, up, st.vaults, banks, out, links), st.tags, pending, acc, pairs, ans)

DownIs(s, i, down, tags, vaults) ==
  s \in DownState /\ s.i = i /\ s.down = down /\ s.tags = tags /\ s.vaults = vaults

\* The loop over downBuffers passes a flit by.
LEMMA DownPass ==
  ASSUME NEW st \in DownState
  PROVE  DownIs([st EXCEPT !.i = @ + 1], st.i + 1, st.down, st.tags, st.vaults)
<1> DEFINE j == st.i + 1
<1>1. j \in Nat \ {0}
  BY DEF DownState
<1> HIDE DEF j
<1>2. DownIs([st EXCEPT !.i = j], j, st.down, st.tags, st.vaults)
  BY <1>1 DEF DownState, DownIs
<1> QED BY <1>2 DEF j

\* The loop's state when a packet is handed to a vault.
LEMMA DownHand ==
  ASSUME NEW st \in DownState, NEW d \in Seq(Flit), NEW v \in Vault, NEW f \in Seq(Flit)
  PROVE  DownIs([st EXCEPT !.down = d, !.vaults[v] = @ \o f], st.i, d, st.tags,
                [st.vaults EXCEPT ![v] = @ \o f])
<1> DEFINE V == [Vault -> Seq(Flit)]
           w == [st.vaults EXCEPT ![v] = @ \o f]
           s == [st EXCEPT !.down = d]
<1>1. st.vaults \in V /\ st.i \in Nat \ {0} /\ st.tags \in Seq(Tag)
  BY DEF DownState
<1>2. w \in V
  <2>1. st.vaults[v] \o f \in Seq(Flit)
    BY <1>1, ConcatProperties
  <2> QED BY <1>1, <2>1
<1>3. [st EXCEPT !.down = d, !.vaults[v] = @ \o f] = [s EXCEPT !.vaults = w]
  BY DEF DownState
<1> HIDE DEF w, V
<1>4. s \in [i : Nat \ {0}, down : Seq(Flit), tags : Seq(Tag), vaults : V] /\ s.i = st.i /\ s.down = d
      /\ s.tags = st.tags
  BY DEF DownState, V
<1> HIDE DEF s
<1>5. DownIs([s EXCEPT !.vaults = w], st.i, d, st.tags, w)
  BY <1>2, <1>4 DEF DownIs, DownState, V
<1> QED BY <1>3, <1>5 DEF w

\* What is left of the downstream buffer.
LEMMA DownCut ==
  ASSUME NEW st \in DownState, NEW d \in Seq(Flit), NEW g \in Seq(Tag), NEW j \in Nat \ {0}
  PROVE  DownIs([st EXCEPT !.down = d, !.tags = g, !.i = j], j, d, g, st.vaults)
<1> DEFINE s == [st EXCEPT !.down = d]
           r == [s EXCEPT !.tags = g]
<1>1. [st EXCEPT !.down = d, !.tags = g, !.i = j] = [r EXCEPT !.i = j]
  BY DEF DownState
<1>2. s \in DownState /\ s.vaults = st.vaults /\ s.down = d
  BY DEF DownState
<1> HIDE DEF s
<1>3. r \in DownState /\ r.vaults = st.vaults /\ r.down = d /\ r.tags = g
  BY <1>2 DEF DownState
<1> HIDE DEF r
<1>4. DownIs([r EXCEPT !.i = j], j, d, g, st.vaults)
  BY <1>3 DEF DownState, DownIs
<1> QED BY <1>1, <1>4

\* A packet that fits is handed to its vault.
LEMMA DownGivesVault ==
  ASSUME NEW st \in DownState, NEW up, NEW banks, NEW out, NEW links, NEW pending, NEW acc, NEW pairs, NEW ans,
         DownGood(st, up, banks, out, links, pending, acc, pairs, ans),
         NEW p, st.i <= Len(st.down), p = st.down[st.i], p # NULL, p.size <= BLOCK,
         NEW v, v = VaultMap(p), Fits(st.vaults[v], p, MAX_VLT_BUF),
         NEW s, DownIs(s, st.i, Erase(st.down, st.i), st.tags, [st.vaults EXCEPT ![v] = @ \o Flits(p)])
  PROVE  DownGood(s, up, banks, out, links, pending, acc, pairs, ans)
<1> DEFINE D == <<"down", 0>>
           y == <<"in", v>>
           d == st.down
           d2 == Erase(st.down, st.i)
           in == st.vaults
           in2 == [st.vaults EXCEPT ![v] = @ \o Flits(p)]
           held == Contents(d, up, in, banks, out, links)
<1>1. /\ st.i \in 1 .. Len(d) /\ d \in Seq(Flit) /\ in \in [Vault -> Seq(Flit)]
  BY DEF DownState
<1>2. /\ s.down = d2 /\ s.tags = st.tags /\ s.vaults = in2
  BY DEF DownIs
<1>3. /\ Tidy(d) /\ Tidy(up)
      /\ out \in [Vault -> Seq(Flit)] /\ links \in [Link -> Seq(Flit)]
      /\ \A w \in Vault : Tidy(in[w]) /\ Len(in[w]) <= MAX_VLT_BUF
      /\ \A w \in Vault : Tidy(out[w]) /\ Len(out[w]) <= MAX_VLT_BUF
      /\ \A l \in Link : Tidy(links[l]) /\ Len(links[l]) <= MAX_LINK_BUF
  BY DEF DownGood, Buffers
<1>4. Good(held, st.tags, pending, acc, pairs, ans)
  BY DEF DownGood
<1>5. /\ p \in Packets(d) /\ p \in PacketType /\ Tidy(d2) /\ Packets(d2) = Packets(d) \ {p}
  BY <1>1, <1>3, TidyErase
<1> HIDE DEF d2, in2
<1>6. v \in Vault
  <2>1. p.adrs \in Nat
    BY <1>5, PacketFields
  <2>2. NUM_VAULTS \in Nat \ {0}
    BY CrossbarAssumption
  <2>3. \A a \in Nat, n \in Nat \ {0} : (a % n) \in 0 .. n - 1
    OBVIOUS
  <2>4. VaultMap(p) \in 0 .. NUM_VAULTS - 1
    BY <2>1, <2>2, <2>3 DEF VaultMap
  <2> QED BY <2>4 DEF Vault
<1>7. /\ held[D] = Packets(d) /\ held[y] = Packets(in[v])
  <2>1. HeldAt(held, d, up, in, banks, out, links)
    BY ContentsAt
  <2> HIDE DEF held, in, d
  <2> QED BY <1>6, <2>1 DEF HeldAt
<1> HIDE DEF held, in, d
<1>8. /\ p \in held[D] /\ p.tag \in Tag /\ Admits(D, p) /\ held[D] \cap held[y] = {}
  <2>1. D \in Place /\ y \in Place /\ D # y
    BY <1>6, PlaceIn, PlacesDiffer
  <2>2. p \in held[D]
    BY <1>5, <1>7
  <2> HIDE DEF D, y
  <2>3. Placed(held)
    BY <1>4 DEF Good
  <2>4. held[D] \cap held[y] = {}
    BY <2>1, <2>3 DEF Placed
  <2> QED BY <1>4, <2>1, <2>2, <2>4, PacketHere
<1>9. p \notin Packets(in[v])
  BY <1>7, <1>8
<1>10. /\ Tidy(in[v] \o Flits(p)) /\ Packets(in[v] \o Flits(p)) = Packets(in[v]) \cup {p}
       /\ Len(in[v] \o Flits(p)) = Len(in[v]) + p.lng
  BY <1>3, <1>5, <1>6, <1>9, TidyPut
<1>11. /\ in2 \in [Vault -> Seq(Flit)] /\ in2[v] = in[v] \o Flits(p) /\ \A w \in Vault : w # v => in2[w] = in[w]
  <2>1. in[v] \o Flits(p) \in Seq(Flit)
    BY <1>10 DEF Tidy
  <2> QED BY <1>1, <1>6, <2>1 DEF in2, in
<1>12. Buffers(d2, up, in2, out, links)
  <2>1. Len(in[v]) + p.lng <= MAX_VLT_BUF
    BY DEF Fits, in
  <2>2. \A w \in Vault : Tidy(in2[w]) /\ Len(in2[w]) <= MAX_VLT_BUF
    BY <1>3, <1>10, <1>11, <2>1
  <2> QED BY <1>3, <1>5, <1>11, <2>2 DEF Buffers
<1>13. Contents(d2, up, in2, banks, out, links) = Swap(held, D, {p}, y, {p})
  <2>1. Packets(d2) = Packets(d) \ {p} /\ Packets(in2[v]) = Packets(in[v]) \cup {p}
    BY <1>5, <1>10, <1>11 DEF d
  <2> HIDE DEF D, y
  <2>2. Contents(d2, up, in2, banks, out, links)
          = Swap(Contents(d, up, in, banks, out, links), <<"down", 0>>, {p}, <<"in", v>>, {p})
    <3>1. FromDownTo(v, p, d, in, d2, in2)
      BY <1>6, <1>11, <2>1 DEF FromDownTo
    <3> QED BY <3>1, ContentsDownIn
  <2> QED BY <2>2 DEF held, D, y
<1>14. Admits(y, p)
  <2>1. IsPart(p)
    BY <1>5, <1>8, ShortIs
  <2> QED BY <2>1 DEF Admits
<1>15. Good(Swap(held, D, {p}, y, {p}), st.tags, pending, acc, pairs, ans)
  <2>1. D \in Place /\ y \in Place /\ p \in held[D]
    BY <1>6, <1>8, PlaceIn
  <2> HIDE DEF D, y
  <2> QED BY <1>4, <1>14, <2>1, GoodMove
<1> QED BY <1>2, <1>12, <1>13, <1>15 DEF DownGood

\* A long packet in a buffer gives way to its segments.
Spread(d, i, p) ==
  (SubSeq(d, 1, i - 1) \o FlattenSeq(Row(Segments(p), SegmentCount(p.size)))) \o SubSeq(d, i + p.lng, Len(d))

SpreadIs(d, p, e, S, m) == Tidy(e) /\ Packets(e) = (Packets(d) \ {p}) \cup S /\ m \in Seq(Flit)

\* Segments in place of a packet make a tidy buffer.
LEMMA TidySpread ==
  ASSUME NEW d, Tidy(d), NEW i \in 1 .. Len(d), NEW p, p = d[i], p # NULL,
         NEW t \in Tag, SegmentsAre(t, p, SegmentCount(p.size)), SegmentCount(p.size) \in Nat \ {0},
         SegmentSet(p) \cap Packets(d) = {}
  PROVE  SpreadIs(d, p, Spread(d, i, p), SegmentSet(p), FlattenSeq(Row(Segments(p), SegmentCount(p.size))))
<1> DEFINE n == SegmentCount(p.size)
           a == SubSeq(d, 1, i - 1)
           b == SubSeq(d, i + p.lng, Len(d))
           P == Segments(p)
           m == FlattenSeq(Row(P, n))
           S == SegmentSet(p)
<1>1. /\ Tidy(a) /\ Tidy(b) /\ p \notin Packets(a) /\ p \notin Packets(b)
      /\ Packets(a) \cap Packets(b) = {} /\ Packets(d) = Packets(a) \cup Packets(b) \cup {p}
  BY TidyCut
<1>2. P \in [1 .. n -> PacketType] /\ \A k, j \in 1 .. n : P[k] = P[j] => k = j
  BY DEF SegmentsAre
<1>3. S = {P[j] : j \in 1 .. n}
  BY DEF SegmentSet
<1> HIDE DEF a, b, P, n, S
<1>4. Tidy(m) /\ Packets(m) = S
  <2>1. n \in Nat \ {0}
    BY DEF n
  <2> QED BY <1>2, <1>3, <2>1, TidyFlatten
<1>5. S \cap Packets(d) = {}
  BY DEF S
<1> HIDE DEF m
<1>6. Tidy(a \o m) /\ Packets(a \o m) = Packets(a) \cup S
  BY <1>1, <1>4, <1>5, TidyConcat
<1> DEFINE c == a \o m
<1>7. Packets(c) \cap Packets(b) = {} /\ Tidy(c) /\ Packets(c) = Packets(a) \cup S
  BY <1>1, <1>5, <1>6
<1> HIDE DEF c
<1>8. Tidy(c \o b) /\ Packets(c \o b) = Packets(c) \cup Packets(b)
  BY <1>1, <1>7, TidyConcat
<1>9. Packets(c \o b) = (Packets(d) \ {p}) \cup S
  BY <1>1, <1>7, <1>8
<1>10. m \in Seq(Flit)
  BY <1>4 DEF Tidy
<1>11. SpreadIs(d, p, c \o b, S, m)
  BY <1>8, <1>9, <1>10 DEF SpreadIs
<1> QED BY <1>11 DEF Spread, S, c, a, m, b, P, n

\* What DivideRequest makes of the downstream buffer.
LEMMA DivideIs ==
  ASSUME NEW st \in DownState, NEW p, p = st.down[st.i], p.tag \in Tag,
         SegmentCount(p.size) \in Nat,
         FlattenSeq(Row(Segments(p), SegmentCount(p.size))) \in Seq(Flit),
         Spread(st.down, st.i, p) \in Seq(Flit)
  PROVE  \E j : DownIs(Divide(st), j, Spread(st.down, st.i, p),
                       st.tags \o Copies(p.tag, SegmentCount(p.size)), st.vaults)
<1> DEFINE n == SegmentCount(p.size)
           m == FlattenSeq(Row(Segments(p), n))
           d == Spread(st.down, st.i, p)
           g == st.tags \o Copies(p.tag, n)
           j == st.i + Len(m) + 1
<1>1. Divide(st) = [st EXCEPT !.down = d, !.tags = g, !.i = j]
  BY DEF Divide, Row, Spread, Copies
<1>2. d \in Seq(Flit)
  BY DEF d
<1>3. j \in Nat \ {0}
  <2>1. st.i \in Nat
    BY DEF DownState
  <2> HIDE DEF m
  <2>2. m \in Seq(Flit)
    BY DEF m
  <2>3. Len(m) \in Nat
    BY <2>2
  <2> QED BY <2>1, <2>3
<1>4. g \in Seq(Tag)
  <2>1. st.tags \in Seq(Tag)
    BY DEF DownState
  <2> HIDE DEF n
  <2>2. Copies(p.tag, n) \in Seq(Tag)
    <3> DEFINE u == p.tag
    <3>1. u \in Tag /\ n \in Nat
      BY DEF n
    <3> HIDE DEF u
    <3> QED BY <3>1, CountCopies DEF u
  <2> QED BY <2>1, <2>2, CountConcat
<1> HIDE DEF n, m, d, g, j
<1>5. DownIs([st EXCEPT !.down = d, !.tags = g, !.i = j], j, d, g, st.vaults)
  BY <1>2, <1>3, <1>4, DownCut
<1>6. DownIs(Divide(st), j, d, g, st.vaults)
  BY <1>1, <1>5
<1> QED BY <1>6 DEF d, g, n

\* A request longer than a block is divided.
LEMMA DownDivides ==
  ASSUME NEW st \in DownState, NEW up, NEW banks, NEW out, NEW links, NEW pending, NEW acc, NEW pairs, NEW ans,
         DownGood(st, up, banks, out, links, pending, acc, pairs, ans),
         NEW p, st.i <= Len(st.down), p = st.down[st.i], p # NULL, p.size > BLOCK
  PROVE  Divide(st) \in DownState /\ DownGood(Divide(st), up, banks, out, links, pending, acc, pairs, ans)
<1> DEFINE D == <<"down", 0>>
           d == st.down
           d2 == Spread(d, st.i, p)
           in == st.vaults
           n == SegmentCount(p.size)
           S == SegmentSet(p)
           held == Contents(d, up, in, banks, out, links)
           tags2 == st.tags \o Copies(p.tag, n)
<1>1. /\ st.i \in 1 .. Len(d) /\ d \in Seq(Flit) /\ in \in [Vault -> Seq(Flit)]
  BY DEF DownState
<1>2. Buffers(d, up, in, out, links) /\ Good(held, st.tags, pending, acc, pairs, ans)
  BY DEF DownGood
<1>3. Tidy(d)
  BY <1>2 DEF Buffers
<1>4. p \in Packets(d) /\ p \in PacketType
  BY <1>1, <1>3, TidyErase
<1>5. held[D] = Packets(d) /\ D \in Place
  <2>1. HeldAt(held, d, up, in, banks, out, links)
    BY ContentsAt
  <2> HIDE DEF held, in, d
  <2> QED BY <2>1, PlaceIn DEF HeldAt
<1> HIDE DEF held, in, d, d2
<1>6. /\ p.tag \in Tag /\ p = RequestPacket(p.tag)
      /\ S \subseteq PacketType /\ S \cap Everything(held) = {}
      /\ Good(Swap(held, D, {p}, D, S), tags2, pending, acc, pairs, ans)
  <2>1. p \in held[<<"down", 0>>]
    BY <1>4, <1>5
  <2>2. DividedInto(held, st.tags, pending, acc, pairs, ans, p, n, S)
    BY <1>2, <2>1, GoodDivide
  <2> HIDE DEF n, S
  <2> QED BY <2>2 DEF DividedInto
<1>7. SegmentsAre(p.tag, p, n) /\ n \in Nat \ {0}
  <2> DEFINE t == p.tag
  <2>1. t \in Tag /\ p = RequestPacket(t)
    BY <1>6
  <2> HIDE DEF t
  <2>2. p.size \in Nat \ {0}
    BY <1>4, PacketFields
  <2> QED BY <2>1, <2>2, SegmentsOf, SegmentCounts DEF t
<1>8. S \cap Packets(d) = {}
  BY <1>5, <1>6 DEF Everything
<1> HIDE DEF n, S, D
<1>9. Tidy(d2) /\ Packets(d2) = (Packets(d) \ {p}) \cup S /\ FlattenSeq(Row(Segments(p), n)) \in Seq(Flit)
  <2> DEFINE e == SegmentSet(p)
             m == FlattenSeq(Row(Segments(p), SegmentCount(p.size)))
             t == p.tag
             i == st.i
  <2>1. SegmentsAre(t, p, SegmentCount(p.size)) /\ SegmentCount(p.size) \in Nat \ {0} /\ t \in Tag
    BY <1>6, <1>7 DEF n
  <2>2. e \cap Packets(d) = {}
    BY <1>8 DEF S
  <2>3. p = d[i] /\ i \in 1 .. Len(d)
    BY <1>1 DEF d
  <2> HIDE DEF t, i
  <2>4. SpreadIs(d, p, Spread(d, i, p), e, m)
    BY <1>3, <2>1, <2>2, <2>3, TidySpread
  <2> HIDE DEF e, m
  <2>5. Tidy(Spread(d, i, p)) /\ Packets(Spread(d, i, p)) = (Packets(d) \ {p}) \cup e /\ m \in Seq(Flit)
    BY <2>4 DEF SpreadIs
  <2> QED BY <2>5 DEF e, m, i, d2, S, n
<1>10. \E j : DownIs(Divide(st), j, d2, tags2, in)
  <2>1. d2 \in Seq(Flit)
    BY <1>9 DEF Tidy
  <2> QED BY <1>6, <1>7, <1>9, <2>1, DivideIs DEF d2, d, n, in
<1> HIDE DEF tags2
<1>11. PICK j : DownIs(Divide(st), j, d2, tags2, in)
  BY <1>10
<1> DEFINE s == Divide(st)
<1>12. s \in DownState /\ s.down = d2 /\ s.tags = tags2 /\ s.vaults = in
  BY <1>11 DEF DownIs
<1> HIDE DEF s
<1>13. Buffers(d2, up, in, out, links)
  BY <1>2, <1>9 DEF Buffers
<1>14. Contents(d2, up, in, banks, out, links) = Swap(held, D, {p}, D, S)
  BY <1>9, ContentsDown DEF held, D
<1> QED BY <1>6, <1>12, <1>13, <1>14 DEF DownGood, s

\* An iteration of the loop over downBuffers.
LEMMA DownStays ==
  ASSUME NEW st \in DownState, NEW up, NEW banks, NEW out, NEW links, NEW pending, NEW acc, NEW pairs, NEW ans,
         DownGood(st, up, banks, out, links, pending, acc, pairs, ans)
  PROVE  DownStep(st) \in DownState /\ DownGood(DownStep(st), up, banks, out, links, pending, acc, pairs, ans)
<1> DEFINE p == st.down[st.i]
           v == VaultMap(p)
           pass == [st EXCEPT !.i = @ + 1]
           give == [st EXCEPT !.down = Erase(@, st.i), !.vaults[v] = @ \o Flits(p)]
<1>1. pass \in DownState /\ DownGood(pass, up, banks, out, links, pending, acc, pairs, ans)
  <2>1. DownIs(pass, st.i + 1, st.down, st.tags, st.vaults)
    BY DownPass
  <2> HIDE DEF pass
  <2> QED BY <2>1 DEF DownIs, DownGood
<1>2. st.i \in Nat \ {0} /\ st.down \in Seq(Flit)
  BY DEF DownState
<1>3. CASE st.i > Len(st.down)
  BY <1>3 DEF DownStep
<1>4. CASE st.i <= Len(st.down) /\ p = NULL
  <2>1. DownStep(st) = pass
    BY <1>2, <1>4 DEF DownStep
  <2> QED BY <1>1, <2>1
<1> HIDE DEF pass
<1>5. ASSUME st.i <= Len(st.down), p # NULL
      PROVE  st.i \in 1 .. Len(st.down) /\ Tidy(st.down) /\ p \in PacketType /\ Tidy(Erase(st.down, st.i))
             /\ p.size \in Nat /\ BLOCK \in Nat /\ Erase(st.down, st.i) \in Seq(Flit)
  <2>1. st.i \in 1 .. Len(st.down)
    BY <1>2, <1>5
  <2>2. Tidy(st.down)
    BY DEF DownGood, Buffers
  <2>3. p \in PacketType /\ Tidy(Erase(st.down, st.i))
    BY <1>5, <2>1, <2>2, TidyErase
  <2> QED BY <2>1, <2>2, <2>3, PacketFields, CrossbarAssumption DEF Tidy
<1>6. CASE st.i <= Len(st.down) /\ p # NULL /\ p.size > BLOCK
  <2>1. DownStep(st) = Divide(st)
    BY <1>2, <1>5, <1>6 DEF DownStep
  <2> QED BY <1>6, <2>1, DownDivides
<1>7. CASE st.i <= Len(st.down) /\ p # NULL /\ p.size <= BLOCK /\ ~Fits(st.vaults[v], p, MAX_VLT_BUF)
  <2>1. DownStep(st) = pass
    BY <1>2, <1>5, <1>7 DEF DownStep, pass
  <2> QED BY <1>1, <2>1
<1>8. CASE st.i <= Len(st.down) /\ p # NULL /\ p.size <= BLOCK /\ Fits(st.vaults[v], p, MAX_VLT_BUF)
  <2>1. DownStep(st) = give
    BY <1>2, <1>5, <1>8 DEF DownStep
  <2>2. v \in Vault
    <3>1. p.adrs \in Nat /\ NUM_VAULTS \in Nat \ {0}
      BY <1>5, <1>8, PacketFields, CrossbarAssumption
    <3>2. \A a \in Nat, n \in Nat \ {0} : (a % n) \in 0 .. n - 1
      OBVIOUS
    <3>3. VaultMap(p) \in 0 .. NUM_VAULTS - 1
      BY <3>1, <3>2 DEF VaultMap
    <3> QED BY <3>3 DEF Vault
  <2>3. Flits(p) \in Seq(Flit) /\ Erase(st.down, st.i) \in Seq(Flit)
    BY <1>5, <1>8, FlitsOf
  <2> DEFINE f == Flits(p)
             d == Erase(st.down, st.i)
  <2>4. give = [st EXCEPT !.down = d, !.vaults[v] = @ \o f]
    OBVIOUS
  <2> HIDE DEF f, d, give
  <2>5. DownIs(give, st.i, d, st.tags, [st.vaults EXCEPT ![v] = @ \o f])
    <3> HIDE DEF v
    <3> QED BY <2>2, <2>3, <2>4, DownHand DEF f, d
  <2>6. give \in DownState
    BY <2>5 DEF DownIs
  <2>7. DownGood(give, up, banks, out, links, pending, acc, pairs, ans)
    <3>1. DownIs(give, st.i, Erase(st.down, st.i), st.tags, [st.vaults EXCEPT ![v] = @ \o Flits(p)])
      BY <2>5 DEF f, d
    <3> HIDE DEF p
    <3>2. p = st.down[st.i]
      BY DEF p
    <3> QED BY <1>8, <3>1, <3>2, DownGivesVault
  <2> QED BY <2>1, <2>6, <2>7
<1> QED BY <1>2, <1>3, <1>4, <1>5, <1>6, <1>7, <1>8

-----------------------------------------------------------------------------
(* The upstream loop.                                                      *)



UpState == [i : Nat \ {0}, up : Seq(Flit), tags : Seq(Tag), pending : Seq(PacketType),
            links : [Link -> Seq(Flit)], service : Int, error : {NoError}]

UpGood(st, down, in, banks, out, acc, pairs, ans) ==
  /\ st \in UpState
  /\ Buffers(down, st.up, in, out, st.links)
  /\ Good(Contents(down, st.up, in, banks, out, st.links), st.tags, st.pending, acc, pairs, ans)

UpIs(s, up, tags, pending, links) ==
  s \in UpState /\ s.up = up /\ s.tags = tags /\ s.pending = pending /\ s.links = links

\* One member of the state is set.
LEMMA SetI ==
  ASSUME NEW st \in UpState, NEW i \in Nat \ {0}
  PROVE  UpIs([st EXCEPT !.i = i], st.up, st.tags, st.pending, st.links)
BY DEF UpState, UpIs

LEMMA SetUp ==
  ASSUME NEW st \in UpState, NEW up \in Seq(Flit)
  PROVE  UpIs([st EXCEPT !.up = up], up, st.tags, st.pending, st.links)
BY DEF UpState, UpIs

LEMMA SetTags ==
  ASSUME NEW st \in UpState, NEW tags \in Seq(Tag)
  PROVE  UpIs([st EXCEPT !.tags = tags], st.up, tags, st.pending, st.links)
BY DEF UpState, UpIs

LEMMA SetPending ==
  ASSUME NEW st \in UpState, NEW pending \in Seq(PacketType)
  PROVE  UpIs([st EXCEPT !.pending = pending], st.up, st.tags, pending, st.links)
BY DEF UpState, UpIs

LEMMA SetLinks ==
  ASSUME NEW st \in UpState, NEW links \in [Link -> Seq(Flit)]
  PROVE  UpIs([st EXCEPT !.links = links], st.up, st.tags, st.pending, links)
BY DEF UpState, UpIs

LEMMA SetService ==
  ASSUME NEW st \in UpState, NEW service \in Int
  PROVE  UpIs([st EXCEPT !.service = service], st.up, st.tags, st.pending, st.links)
BY DEF UpState, UpIs

\* The state of the loop over upBuffers by its members.
LEMMA UpGoodBy ==
  ASSUME NEW s, NEW up, NEW tags, NEW pending, NEW links, UpIs(s, up, tags, pending, links),
         NEW down, NEW in, NEW banks, NEW out, NEW acc, NEW pairs, NEW ans,
         Buffers(down, up, in, out, links),
         Good(Contents(down, up, in, banks, out, links), tags, pending, acc, pairs, ans)
  PROVE  UpGood(s, down, in, banks, out, acc, pairs, ans)
BY DEF UpGood, UpIs

\* The loop over upBuffers passes a flit by.
LEMMA UpPass ==
  ASSUME NEW st, NEW down, NEW in, NEW banks, NEW out, NEW acc, NEW pairs, NEW ans,
         UpGood(st, down, in, banks, out, acc, pairs, ans), NEW service \in Int
  PROVE  /\ UpGood([st EXCEPT !.i = @ + 1], down, in, banks, out, acc, pairs, ans)
         /\ UpGood([st EXCEPT !.service = service, !.i = @ + 1], down, in, banks, out, acc, pairs, ans)
<1> DEFINE j == st.i + 1
           s == [st EXCEPT !.service = service]
<1>1. st \in UpState /\ j \in Nat \ {0}
  BY DEF UpGood, UpState
<1> HIDE DEF j
<1>2. [st EXCEPT !.service = service, !.i = j] = [s EXCEPT !.i = j]
  BY <1>1 DEF UpState
<1>3. UpIs(s, st.up, st.tags, st.pending, st.links)
  BY <1>1, SetService
<1> HIDE DEF s
<1>4. /\ UpIs([st EXCEPT !.i = j], st.up, st.tags, st.pending, st.links)
      /\ UpIs([s EXCEPT !.i = j], st.up, st.tags, st.pending, st.links)
  <2>1. s \in UpState /\ UpIs([s EXCEPT !.i = j], s.up, s.tags, s.pending, s.links)
    BY <1>1, <1>3, SetI DEF UpIs
  <2> QED BY <1>1, <1>3, <2>1, SetI DEF UpIs
<1>5. /\ Buffers(down, st.up, in, out, st.links)
      /\ Good(Contents(down, st.up, in, banks, out, st.links), st.tags, st.pending, acc, pairs, ans)
  BY DEF UpGood
<1>6. /\ UpGood([st EXCEPT !.i = j], down, in, banks, out, acc, pairs, ans)
      /\ UpGood([s EXCEPT !.i = j], down, in, banks, out, acc, pairs, ans)
  BY <1>4, <1>5, UpGoodBy
<1> QED BY <1>2, <1>6 DEF j

\* Packets of two places are different ones.
LEMMA Apart ==
  ASSUME NEW held, NEW tags, NEW pending, NEW acc, NEW pairs, NEW ans,
         Good(held, tags, pending, acc, pairs, ans),
         NEW x \in Place, NEW y \in Place, x # y, NEW p \in held[x]
  PROVE  p \notin held[y]
BY DEF Good, Placed

\* A complete response is handed to a link.
LEMMA UpGivesLink ==
  ASSUME NEW d, NEW u, NEW in, NEW banks, NEW out, NEW links,
         NEW tags, NEW pending, NEW acc, NEW pairs, NEW ans,
         InOrder(d, in, banks, out, tags, pending, acc, pairs, ans, u, links),
         NEW i \in 1 .. Len(u), NEW p, p = u[i], p # NULL, ~p.segment,
         NEW l \in Link, Fits(links[l], p, MAX_LINK_BUF)
  PROVE  InOrder(d, in, banks, out, tags, pending, acc, pairs, ans,
                 Erase(u, i), [links EXCEPT ![l] = @ \o Flits(p)])
<1> DEFINE U == <<"up", 0>>
           y == <<"link", l>>
           u2 == Erase(u, i)
           links2 == [links EXCEPT ![l] = @ \o Flits(p)]
           held == Contents(d, u, in, banks, out, links)
<1>1. /\ Tidy(d) /\ Tidy(u)
      /\ in \in [Vault -> Seq(Flit)] /\ out \in [Vault -> Seq(Flit)] /\ links \in [Link -> Seq(Flit)]
      /\ \A w \in Vault : Tidy(in[w]) /\ Len(in[w]) <= MAX_VLT_BUF
      /\ \A w \in Vault : Tidy(out[w]) /\ Len(out[w]) <= MAX_VLT_BUF
      /\ \A k \in Link : Tidy(links[k]) /\ Len(links[k]) <= MAX_LINK_BUF
  BY DEF InOrder, Buffers
<1>2. Good(held, tags, pending, acc, pairs, ans)
  BY DEF InOrder
<1>3. p \in Packets(u) /\ p \in PacketType /\ Tidy(u2) /\ Packets(u2) = Packets(u) \ {p}
  BY <1>1, TidyErase
<1> HIDE DEF u2, links2
<1>4. held[U] = Packets(u) /\ held[y] = Packets(links[l])
  <2>1. HeldAt(held, d, u, in, banks, out, links)
    BY ContentsAt
  <2> HIDE DEF held
  <2> QED BY <2>1 DEF HeldAt
<1> HIDE DEF held
<1>5. U \in Place /\ y \in Place /\ U # y /\ p \in held[U]
  BY <1>3, <1>4, PlaceIn, PlacesDiffer
<1>6. p.tag \in Tag /\ Admits(U, p) /\ p \notin held[y] /\ p = Answer(p.tag)
  <2> HIDE DEF U, y
  <2>1. p.tag \in Tag /\ Admits(U, p) /\ p \notin held[y]
    BY <1>2, <1>5, PacketHere, Apart
  <2> QED BY <1>3, <2>1, CompleteIs DEF U
<1>7. Admits(y, p)
  BY <1>6 DEF Admits
<1>8. /\ Tidy(links[l] \o Flits(p)) /\ Packets(links[l] \o Flits(p)) = Packets(links[l]) \cup {p}
      /\ Len(links[l] \o Flits(p)) = Len(links[l]) + p.lng
  BY <1>1, <1>3, <1>4, <1>6, TidyPut
<1>9. /\ links2 \in [Link -> Seq(Flit)] /\ links2[l] = links[l] \o Flits(p)
      /\ \A k \in Link : k # l => links2[k] = links[k]
  <2>1. links[l] \o Flits(p) \in Seq(Flit)
    BY <1>8 DEF Tidy
  <2> QED BY <1>1, <2>1 DEF links2
<1>10. Buffers(d, u2, in, out, links2)
  <2>1. Len(links[l]) + p.lng <= MAX_LINK_BUF
    BY DEF Fits
  <2>2. \A k \in Link : Tidy(links2[k]) /\ Len(links2[k]) <= MAX_LINK_BUF
    BY <1>1, <1>8, <1>9, <2>1
  <2> QED BY <1>1, <1>3, <1>9, <2>2 DEF Buffers
<1> HIDE DEF U, y
<1>11. Contents(d, u2, in, banks, out, links2) = Swap(held, U, {p}, y, {p})
  <2>1. FromUpTo(l, p, u, links, u2, links2)
    BY <1>3, <1>8, <1>9 DEF FromUpTo
  <2> QED BY <2>1, ContentsUpLink DEF held, U, y
<1>12. Good(Swap(held, U, {p}, y, {p}), tags, pending, acc, pairs, ans)
  BY <1>2, <1>5, <1>7, GoodMove
<1>13. InOrder(d, in, banks, out, tags, pending, acc, pairs, ans, u2, links2)
  BY <1>10, <1>11, <1>12 DEF InOrder
<1> QED BY <1>13 DEF u2, links2

\* A response that is no segment: handed to a link, or left for later.
LEMMA UpResponds ==
  ASSUME NEW st, NEW down, NEW in, NEW banks, NEW out, NEW acc, NEW pairs, NEW ans,
         UpGood(st, down, in, banks, out, acc, pairs, ans),
         st.i <= Len(st.up), st.up[st.i] # NULL, ~st.up[st.i].segment
  PROVE  UpGood(UpResponse(st), down, in, banks, out, acc, pairs, ans)
<1> DEFINE p == st.up[st.i]
           takers == {k \in 1 .. NUM_LINKS :
                        Fits(st.links[RoundRobin(st.service, k)], p, MAX_LINK_BUF)}
           k == Min(takers)
           l == RoundRobin(st.service, k)
           u == Erase(st.up, st.i)
           w == [st.links EXCEPT ![l] = @ \o Flits(p)]
<1>1. st \in UpState /\ st.service \in Int /\ st.i \in Nat \ {0} /\ st.up \in Seq(Flit)
  BY DEF UpGood, UpState
<1>2. \A j \in Nat : RoundRobin(st.service, j) \in Link
  <2>1. NUM_LINKS \in Nat \ {0}
    BY CrossbarAssumption
  <2>2. \A a \in Int, n \in Nat \ {0} : (a % n) \in 0 .. n - 1
    OBVIOUS
  <2>3. ASSUME NEW j \in Nat PROVE RoundRobin(st.service, j) \in Link
    <3> DEFINE a == st.service + j
               n == NUM_LINKS
    <3>1. a \in Int /\ n \in Nat \ {0} /\ RoundRobin(st.service, j) = a % n /\ Link = 0 .. n - 1
      BY <1>1, <2>1 DEF RoundRobin, Link
    <3> HIDE DEF a, n
    <3>2. (a % n) \in 0 .. n - 1
      BY <2>2, <3>1
    <3> QED BY <3>1, <3>2
  <2> QED BY <2>3
<1>3. CASE takers = {}
  <2> DEFINE s == RoundRobin(st.service, NUM_LINKS)
  <2>1. s \in Int
    BY <1>2, CrossbarAssumption DEF Link
  <2>2. UpResponse(st) = [st EXCEPT !.service = s, !.i = @ + 1]
    BY <1>3 DEF UpResponse
  <2> HIDE DEF s
  <2>3. UpGood([st EXCEPT !.service = s, !.i = @ + 1], down, in, banks, out, acc, pairs, ans)
    BY <2>1, UpPass
  <2> QED BY <2>2, <2>3
<1>4. CASE takers # {}
  <2>1. k \in takers
    <3>1. takers \in SUBSET Nat
      OBVIOUS
    <3> HIDE DEF takers
    <3> QED BY <1>4, <3>1, MinOf
  <2>2. l \in Link /\ l \in Int /\ Fits(st.links[l], p, MAX_LINK_BUF)
    BY <1>2, <2>1 DEF Link
  <2>3. UpResponse(st) = [st EXCEPT !.service = l, !.up = u, !.links[l] = @ \o Flits(p)]
    BY <1>4 DEF UpResponse
  <2> HIDE DEF l, takers, k
  <2>4. st.i \in 1 .. Len(st.up)
    BY <1>1
  <2>5. InOrder(down, in, banks, out, st.tags, st.pending, acc, pairs, ans, st.up, st.links)
    BY DEF UpGood, InOrder
  <2>6. InOrder(down, in, banks, out, st.tags, st.pending, acc, pairs, ans, u, w)
    BY <2>2, <2>4, <2>5, UpGivesLink
  <2>7. [st EXCEPT !.service = l, !.up = u, !.links[l] = @ \o Flits(p)]
          = [[[st EXCEPT !.service = l] EXCEPT !.up = u] EXCEPT !.links = w]
    <3> DEFINE f == Flits(p)
    <3> HIDE DEF f, u
    <3>1. [st EXCEPT !.service = l, !.up = u, !.links[l] = @ \o f]
            = [[[st EXCEPT !.service = l] EXCEPT !.up = u] EXCEPT !.links = [st.links EXCEPT ![l] = @ \o f]]
      BY <1>1 DEF UpState
    <3> QED BY <3>1 DEF f
  <2>8. u \in Seq(Flit) /\ w \in [Link -> Seq(Flit)]
    BY <2>6 DEF InOrder, Buffers, Tidy
  <2> HIDE DEF u, w
  <2> DEFINE s1 == [st EXCEPT !.service = l]
             s2 == [s1 EXCEPT !.up = u]
             s3 == [s2 EXCEPT !.links = w]
  <2>9. UpIs(s1, st.up, st.tags, st.pending, st.links)
    BY <1>1, <2>2, SetService
  <2> HIDE DEF s1
  <2>10. UpIs(s2, u, st.tags, st.pending, st.links)
    <3>1. s1 \in UpState /\ s1.tags = st.tags /\ s1.pending = st.pending /\ s1.links = st.links
      BY <2>9 DEF UpIs
    <3> QED BY <2>8, <3>1, SetUp DEF UpIs
  <2> HIDE DEF s2
  <2>11. UpIs(s3, u, st.tags, st.pending, w)
    <3>1. s2 \in UpState /\ s2.tags = st.tags /\ s2.pending = st.pending /\ s2.up = u
      BY <2>10 DEF UpIs
    <3> QED BY <2>8, <3>1, SetLinks DEF UpIs
  <2> HIDE DEF s3
  <2>12. UpGood(s3, down, in, banks, out, acc, pairs, ans)
    BY <2>6, <2>11, UpGoodBy DEF InOrder
  <2> QED BY <2>3, <2>7, <2>12 DEF s1, s2, s3
<1> QED BY <1>3, <1>4

\* The buffers when a segment is taken out of the upstream buffer, and r is put
\* in front of it.
LEMMA UpTaken ==
  ASSUME NEW d, NEW u, NEW in, NEW banks, NEW out, NEW links,
         Buffers(d, u, in, out, links), NEW i \in 1 .. Len(u), NEW p, p = u[i], p # NULL
  PROVE  /\ Buffers(d, Erase(u, i), in, out, links)
         /\ Contents(d, Erase(u, i), in, banks, out, links)
              = Swap(Contents(d, u, in, banks, out, links), <<"up", 0>>, {p}, <<"up", 0>>, {})
         /\ p \in Contents(d, u, in, banks, out, links)[<<"up", 0>>]
<1> DEFINE u2 == Erase(u, i)
           held == Contents(d, u, in, banks, out, links)
<1>1. Tidy(u)
  BY DEF Buffers
<1>2. p \in Packets(u) /\ Tidy(u2) /\ Packets(u2) = Packets(u) \ {p}
  BY <1>1, TidyErase
<1> HIDE DEF u2
<1>3. Packets(u2) = (Packets(u) \ {p}) \cup {}
  BY <1>2
<1>4. Buffers(d, u2, in, out, links)
  BY <1>2 DEF Buffers
<1>5. Contents(d, u2, in, banks, out, links) = Swap(held, <<"up", 0>>, {p}, <<"up", 0>>, {})
  BY <1>3, ContentsUp
<1>6. held[<<"up", 0>>] = Packets(u)
  <2>1. HeldAt(held, d, u, in, banks, out, links)
    BY ContentsAt
  <2> HIDE DEF held
  <2> QED BY <2>1 DEF HeldAt
<1> QED BY <1>2, <1>4, <1>5, <1>6 DEF u2

UpHolds(d, u, in, banks, out, links, held) ==
  Buffers(d, u, in, out, links) /\ Contents(d, u, in, banks, out, links) = held

\* A segment's response makes room for a complete one.
LEMMA UpReplaced ==
  ASSUME NEW d, NEW u, NEW in, NEW banks, NEW out, NEW links,
         Buffers(d, u, in, out, links), NEW i \in 1 .. Len(u), NEW p, p = u[i], p # NULL,
         NEW r \in PacketType, r \notin Everything(Contents(d, u, in, banks, out, links))
  PROVE  UpHolds(d, Flits(r) \o Erase(u, i), in, banks, out, links,
                 Swap(Contents(d, u, in, banks, out, links), <<"up", 0>>, {p}, <<"up", 0>>, {r}))
<1> DEFINE u2 == Erase(u, i)
           u3 == Flits(r) \o u2
           held == Contents(d, u, in, banks, out, links)
<1>1. Tidy(u)
  BY DEF Buffers
<1>2. p \in Packets(u) /\ Tidy(u2) /\ Packets(u2) = Packets(u) \ {p}
  BY <1>1, TidyErase
<1> HIDE DEF u2
<1>3. held[<<"up", 0>>] = Packets(u) /\ <<"up", 0>> \in Place
  <2>1. HeldAt(held, d, u, in, banks, out, links)
    BY ContentsAt
  <2> HIDE DEF held
  <2> QED BY <2>1, PlaceIn DEF HeldAt
<1> HIDE DEF held
<1>4. r \notin Packets(u2)
  BY <1>2, <1>3 DEF Everything, held
<1>5. Tidy(u3) /\ Packets(u3) = Packets(u2) \cup {r}
  BY <1>2, <1>4, TidyPut
<1> HIDE DEF u3
<1>6. Packets(u3) = (Packets(u) \ {p}) \cup {r}
  BY <1>2, <1>5
<1>7. Buffers(d, u3, in, out, links)
  BY <1>5 DEF Buffers
<1>8. Contents(d, u3, in, banks, out, links) = Swap(held, <<"up", 0>>, {p}, <<"up", 0>>, {r})
  BY <1>6, ContentsUp DEF held
<1>9. UpHolds(d, u3, in, banks, out, links, Swap(held, <<"up", 0>>, {p}, <<"up", 0>>, {r}))
  BY <1>7, <1>8 DEF UpHolds
<1> QED BY <1>9 DEF u3, u2, held

\* A segment is met.
UpMeets(d, in, banks, out, tags, pending, acc, pairs, ans, u, links, i, p) ==
  /\ InOrder(d, in, banks, out, tags, pending, acc, pairs, ans, u, links)
  /\ i \in 1 .. Len(u) /\ p = u[i] /\ p # NULL /\ p.segment

\* A segment's response in the upstream buffer.
LEMMA UpMet ==
  ASSUME NEW d, NEW in, NEW banks, NEW out, NEW tags, NEW pending, NEW acc, NEW pairs, NEW ans,
         NEW u, NEW links, NEW i, NEW p,
         UpMeets(d, in, banks, out, tags, pending, acc, pairs, ans, u, links, i, p)
  PROVE  LET held == Contents(d, u, in, banks, out, links) IN
         Met(held, tags, pending, acc, pairs, ans, p, p.tag, Of(p.tag, Everything(held)), Count(tags, p.tag))
<1> DEFINE held == Contents(d, u, in, banks, out, links)
<1>1. Buffers(d, u, in, out, links) /\ Good(held, tags, pending, acc, pairs, ans)
  BY DEF UpMeets, InOrder
<1>2. p \in held[<<"up", 0>>]
  BY <1>1, UpTaken DEF UpMeets
<1> HIDE DEF held
<1>3. p.segment
  BY DEF UpMeets
<1>4. Met(held, tags, pending, acc, pairs, ans, p, p.tag, Of(p.tag, Everything(held)), Count(tags, p.tag))
  BY <1>1, <1>2, <1>3, MetIs
<1> QED BY <1>4 DEF held

\* It is the first one of its request.
LEMMA UpFirst ==
  ASSUME NEW d, NEW in, NEW banks, NEW out, NEW tags, NEW pending, NEW acc, NEW pairs, NEW ans,
         NEW u, NEW links, NEW i, NEW p,
         UpMeets(d, in, banks, out, tags, pending, acc, pairs, ans, u, links, i, p),
         \A k \in 1 .. Len(pending) : pending[k].tag # p.tag
  PROVE  InOrder(d, in, banks, out, RemoveAt(tags, Min(At(tags, p.tag))), Append(pending, p),
                 acc, pairs, ans, Erase(u, i), links)
<1> DEFINE held == Contents(d, u, in, banks, out, links)
           t == p.tag
           here == Of(t, Everything(held))
           n == Count(tags, t)
           u2 == Erase(u, i)
<1>1. Buffers(d, u, in, out, links) /\ Good(held, tags, pending, acc, pairs, ans)
  BY DEF UpMeets, InOrder
<1>2. Met(held, tags, pending, acc, pairs, ans, p, t, here, n)
  BY UpMet
<1>3. /\ Buffers(d, u2, in, out, links)
      /\ Contents(d, u2, in, banks, out, links) = Swap(held, <<"up", 0>>, {p}, <<"up", 0>>, {})
  BY <1>1, UpTaken DEF UpMeets
<1> HIDE DEF held, u2
<1>4. \A k \in 1 .. Len(pending) : pending[k].tag # t
  OBVIOUS
<1> HIDE DEF here, n, t
<1>5. Good(Swap(held, <<"up", 0>>, {p}, <<"up", 0>>, {}),
           RemoveAt(tags, Min(At(tags, t))), Append(pending, p), acc, pairs, ans)
  BY <1>1, <1>2, <1>4, GoodFirst
<1> QED BY <1>3, <1>5 DEF InOrder, u2, t

\* It is neither the first nor the last one.
LEMMA UpMore ==
  ASSUME NEW d, NEW in, NEW banks, NEW out, NEW tags, NEW pending, NEW acc, NEW pairs, NEW ans,
         NEW u, NEW links, NEW i, NEW p,
         UpMeets(d, in, banks, out, tags, pending, acc, pairs, ans, u, links, i, p),
         NEW k \in 1 .. Len(pending), pending[k].tag = p.tag, Count(tags, p.tag) # 1
  PROVE  InOrder(d, in, banks, out, RemoveAt(tags, Min(At(tags, p.tag))),
                 [pending EXCEPT ![k] = Combine(pending[k], p)], acc, pairs, ans, Erase(u, i), links)
<1> DEFINE held == Contents(d, u, in, banks, out, links)
           t == p.tag
           here == Of(t, Everything(held))
           n == Count(tags, t)
           u2 == Erase(u, i)
<1>1. Buffers(d, u, in, out, links) /\ Good(held, tags, pending, acc, pairs, ans)
  BY DEF UpMeets, InOrder
<1>2. Met(held, tags, pending, acc, pairs, ans, p, t, here, n)
  BY UpMet
<1>3. /\ Buffers(d, u2, in, out, links)
      /\ Contents(d, u2, in, banks, out, links) = Swap(held, <<"up", 0>>, {p}, <<"up", 0>>, {})
  <2>1. i \in 1 .. Len(u) /\ p = u[i] /\ p # NULL
    BY DEF UpMeets
  <2> HIDE DEF u2
  <2> QED BY <1>1, <2>1, UpTaken DEF u2
<1> HIDE DEF held, u2
<1>4. pending[k].tag = t /\ n # 1
  OBVIOUS
<1> HIDE DEF here, n, t
<1>5. Good(Swap(held, <<"up", 0>>, {p}, <<"up", 0>>, {}),
           RemoveAt(tags, Min(At(tags, t))), [pending EXCEPT ![k] = Combine(pending[k], p)],
           acc, pairs, ans)
  BY <1>1, <1>2, <1>4, GoodMore
<1> QED BY <1>3, <1>5 DEF InOrder, u2, t

\* It is the last one.
LEMMA UpLast ==
  ASSUME NEW d, NEW in, NEW banks, NEW out, NEW tags, NEW pending, NEW acc, NEW pairs, NEW ans,
         NEW u, NEW links, NEW i, NEW p,
         UpMeets(d, in, banks, out, tags, pending, acc, pairs, ans, u, links, i, p),
         NEW k \in 1 .. Len(pending), pending[k].tag = p.tag, Count(tags, p.tag) = 1
  PROVE  InOrder(d, in, banks, out, RemoveAt(tags, Min(At(tags, p.tag))), RemoveAt(pending, k),
                 acc, pairs, ans,
                 Flits([Combine(pending[k], p) EXCEPT !.segment = FALSE]) \o Erase(u, i), links)
<1> DEFINE held == Contents(d, u, in, banks, out, links)
           t == p.tag
           here == Of(t, Everything(held))
           n == Count(tags, t)
           r == [Combine(pending[k], p) EXCEPT !.segment = FALSE]
           u3 == Flits(r) \o Erase(u, i)
<1>1. Buffers(d, u, in, out, links) /\ Good(held, tags, pending, acc, pairs, ans)
  BY DEF UpMeets, InOrder
<1>2. Met(held, tags, pending, acc, pairs, ans, p, t, here, n)
  BY UpMet
<1>3. pending[k].tag = t /\ n = 1
  OBVIOUS
<1> HIDE DEF here, n, held
<1> HIDE DEF t
<1>4. Completes(held, RemoveAt(tags, Min(At(tags, t))), RemoveAt(pending, k), acc, pairs, ans, p, r)
  BY <1>1, <1>2, <1>3, GoodLast
<1> HIDE DEF r
<1>5. /\ Buffers(d, u3, in, out, links)
      /\ Contents(d, u3, in, banks, out, links) = Swap(held, <<"up", 0>>, {p}, <<"up", 0>>, {r})
  <2>1. i \in 1 .. Len(u) /\ p = u[i] /\ p # NULL
    BY DEF UpMeets
  <2>2. r \in PacketType /\ r \notin Everything(Contents(d, u, in, banks, out, links))
    BY <1>4 DEF Completes, held
  <2>3. Buffers(d, u, in, out, links)
    BY <1>1
  <2>4. UpHolds(d, Flits(r) \o Erase(u, i), in, banks, out, links,
                Swap(Contents(d, u, in, banks, out, links), <<"up", 0>>, {p}, <<"up", 0>>, {r}))
    BY <2>1, <2>2, <2>3, UpReplaced
  <2> HIDE DEF u3
  <2> QED BY <2>4 DEF UpHolds, held, u3
<1> HIDE DEF u3
<1>6. InOrder(d, in, banks, out, RemoveAt(tags, Min(At(tags, t))), RemoveAt(pending, k),
              acc, pairs, ans, u3, links)
  BY <1>4, <1>5 DEF InOrder, Completes
<1> QED BY <1>6 DEF t, r, u3

\* Several members of the state are set.
LEMMA SetTagsUpPending ==
  ASSUME NEW st \in UpState, NEW tags \in Seq(Tag), NEW up \in Seq(Flit), NEW pending \in Seq(PacketType)
  PROVE  UpIs([[[st EXCEPT !.tags = tags] EXCEPT !.pending = pending] EXCEPT !.up = up],
              up, tags, pending, st.links)
<1> DEFINE s1 == [st EXCEPT !.tags = tags]
           s2 == [s1 EXCEPT !.pending = pending]
           s3 == [s2 EXCEPT !.up = up]
<1>1. UpIs(s1, st.up, tags, st.pending, st.links)
  BY SetTags
<1> HIDE DEF s1
<1>2. s1 \in UpState /\ s1.up = st.up /\ s1.tags = tags /\ s1.links = st.links
  BY <1>1 DEF UpIs
<1>3. UpIs(s2, st.up, tags, pending, st.links)
  BY <1>2, SetPending DEF UpIs
<1> HIDE DEF s2
<1>4. s2 \in UpState /\ s2.tags = tags /\ s2.links = st.links /\ s2.pending = pending
  BY <1>3 DEF UpIs
<1>5. UpIs(s3, up, tags, pending, st.links)
  BY <1>4, SetUp DEF UpIs
<1> QED BY <1>5 DEF s3, s2, s1

\* The types in the loop's state follow from its order.
LEMMA UpGoodOf ==
  ASSUME NEW st, NEW down, NEW in, NEW banks, NEW out, NEW acc, NEW pairs, NEW ans,
         UpGood(st, down, in, banks, out, acc, pairs, ans),
         NEW up, NEW tags, NEW pending,
         InOrder(down, in, banks, out, tags, pending, acc, pairs, ans, up, st.links)
  PROVE  /\ up \in Seq(Flit) /\ tags \in Seq(Tag) /\ pending \in Seq(PacketType)
         /\ UpGood([[[st EXCEPT !.tags = tags] EXCEPT !.pending = pending] EXCEPT !.up = up],
                   down, in, banks, out, acc, pairs, ans)
<1>1. st \in UpState
  BY DEF UpGood
<1>2. up \in Seq(Flit) /\ tags \in Seq(Tag) /\ pending \in Seq(PacketType)
  BY DEF InOrder, Buffers, Tidy, Good, Kept
<1> DEFINE s == [[[st EXCEPT !.tags = tags] EXCEPT !.pending = pending] EXCEPT !.up = up]
<1>3. UpIs(s, up, tags, pending, st.links)
  BY <1>1, <1>2, SetTagsUpPending
<1> HIDE DEF s
<1>4. UpGood(s, down, in, banks, out, acc, pairs, ans)
  BY <1>3, UpGoodBy DEF InOrder
<1> QED BY <1>2, <1>4 DEF s

\* The loop meets a segment's response.
LEMMA UpSegments ==
  ASSUME NEW st, NEW down, NEW in, NEW banks, NEW out, NEW acc, NEW pairs, NEW ans,
         UpGood(st, down, in, banks, out, acc, pairs, ans),
         st.i <= Len(st.up), st.up[st.i] # NULL, st.up[st.i].segment
  PROVE  UpGood(UpSegment(st), down, in, banks, out, acc, pairs, ans)
<1> DEFINE p == st.up[st.i]
           t == p.tag
           found == {j \in 1 .. Len(st.tags) : st.tags[j] = p.tag}
           joins == {n \in 1 .. Len(st.pending) : st.pending[n].tag = p.tag}
           tags == RemoveAt(st.tags, Min(At(st.tags, t)))
           u == Erase(st.up, st.i)
           Good2(s) == UpGood(s, down, in, banks, out, acc, pairs, ans)
<1>1. st \in UpState /\ st.i \in Nat \ {0} /\ st.up \in Seq(Flit) /\ st.tags \in Seq(Tag)
      /\ st.pending \in Seq(PacketType)
  BY DEF UpGood, UpState
<1>2. UpMeets(down, in, banks, out, st.tags, st.pending, acc, pairs, ans, st.up, st.links, st.i, p)
  <2>1. st.i \in 1 .. Len(st.up)
    BY <1>1
  <2> QED BY <2>1 DEF UpGood, InOrder, UpMeets
<1>3. /\ Count(st.tags, t) # 0 /\ found # {} /\ found = At(st.tags, t)
      /\ (IsLast(st.tags, Min(found)) <=> Count(st.tags, t) = 1)
  <2>1. found = At(st.tags, t)
    BY DEF At
  <2> DEFINE held == Contents(down, st.up, in, banks, out, st.links)
  <2>2. Met(held, st.tags, st.pending, acc, pairs, ans, p, t, Of(t, Everything(held)), Count(st.tags, t))
    BY <1>2, UpMet
  <2> HIDE DEF held, p, t
  <2>3. TagOut(st.tags, t, Min(At(st.tags, t)), Count(st.tags, t)) /\ Count(st.tags, t) \in Nat \ {0}
    BY <2>2 DEF Met
  <2>4. /\ Min(At(st.tags, t)) \in 1 .. Len(st.tags) /\ st.tags[Min(At(st.tags, t))] = t
        /\ (IsLast(st.tags, Min(At(st.tags, t))) <=> Count(st.tags, t) = 1)
    BY <2>3 DEF TagOut
  <2>5. At(st.tags, t) # {}
    BY <2>4 DEF At
  <2> HIDE DEF found
  <2> QED BY <2>1, <2>3, <2>4, <2>5
<1> DEFINE rest == [st EXCEPT !.tags = RemoveAt(@, Min(found))]
<1>4. rest = [st EXCEPT !.tags = tags]
  BY <1>3
<1>5. CASE joins = {}
  <2>1. UpSegment(st) = [rest EXCEPT !.pending = Append(@, p), !.up = Erase(@, st.i)]
    BY <1>3, <1>5 DEF UpSegment
  <2>2. \A k \in 1 .. Len(st.pending) : st.pending[k].tag # p.tag
    BY <1>5
  <2> DEFINE q == Append(st.pending, p)
  <2>3. InOrder(down, in, banks, out, tags, q, acc, pairs, ans, u, st.links)
    <3> HIDE DEF p
    <3> QED BY <1>2, <2>2, UpFirst
  <2> HIDE DEF p, tags, q, u, found
  <2>4. UpGood([[[st EXCEPT !.tags = tags] EXCEPT !.pending = q] EXCEPT !.up = u],
               down, in, banks, out, acc, pairs, ans) /\ tags \in Seq(Tag)
    BY <2>3, UpGoodOf
  <2>5. /\ [st EXCEPT !.tags = tags].pending = st.pending /\ [st EXCEPT !.tags = tags].up = st.up
        /\ [st EXCEPT !.tags = tags] \in UpState
    BY <1>1, <2>4 DEF UpState
  <2> HIDE DEF rest
  <2>6. [rest EXCEPT !.pending = Append(@, p), !.up = Erase(@, st.i)] = [[rest EXCEPT !.pending = q] EXCEPT !.up = u]
    <3>1. rest.pending = st.pending /\ rest.up = st.up /\ rest \in UpState
      BY <1>4, <2>5
    <3>2. q = Append(rest.pending, p) /\ u = Erase(rest.up, st.i)
      BY <3>1 DEF q, u
    <3> QED BY <3>1, <3>2 DEF UpState
  <2> QED BY <1>4, <2>1, <2>4, <2>6
<1>6. CASE joins # {}
  <2> DEFINE k == Min(joins)
             c == Combine(st.pending[k], p)
             r == [c EXCEPT !.segment = FALSE]
  <2>1. k \in 1 .. Len(st.pending) /\ st.pending[k].tag = p.tag
    <3>1. joins \in SUBSET Nat
      OBVIOUS
    <3>2. k \in joins
      <4> HIDE DEF joins
      <4> QED BY <1>6, <3>1, MinOf
    <3> QED BY <3>2
  <2>2. UpSegment(st) = JoinPending(rest, p, k, IsLast(st.tags, Min(found)))
    BY <1>3, <1>6 DEF UpSegment
  <2> HIDE DEF k, joins
  <2>3. \A g \in Seq(Tag) : LET s == [st EXCEPT !.tags = g] IN
          s.pending = st.pending /\ s.up = st.up /\ s.i = st.i /\ s \in UpState
    BY <1>1 DEF UpState
  <2>4. CASE Count(st.tags, t) = 1
    <3> DEFINE q == RemoveAt(st.pending, k)
               v == Flits(r) \o u
    <3>1. InOrder(down, in, banks, out, tags, q, acc, pairs, ans, v, st.links)
      <4> HIDE DEF p
      <4> QED BY <1>2, <2>1, <2>4, UpLast
    <3>2. IsLast(st.tags, Min(found))
      BY <1>3, <2>4
    <3> HIDE DEF p, tags, found, t
    <3>3. JoinPending(rest, p, k, TRUE)
            = [rest EXCEPT !.up = Flits([Combine(rest.pending[k], p) EXCEPT !.segment = FALSE])
                                    \o Erase(rest.up, rest.i),
                           !.pending = RemoveAt(@, k), !.i = @ + 1]
      BY DEF JoinPending
    <3>4. Good2([[[st EXCEPT !.tags = tags] EXCEPT !.pending = q] EXCEPT !.up = v]) /\ tags \in Seq(Tag)
      <4> HIDE DEF q, v
      <4> QED BY <3>1, UpGoodOf
    <3>5. rest.pending = st.pending /\ rest.up = st.up /\ rest.i = st.i /\ rest \in UpState
      BY <1>4, <2>3, <3>4
    <3> HIDE DEF rest
    <3>6. JoinPending(rest, p, k, TRUE) = [rest EXCEPT !.up = v, !.pending = q, !.i = @ + 1]
      BY <3>3, <3>5 DEF q, v, r, c, u
    <3> HIDE DEF q, v
    <3>7. [rest EXCEPT !.up = v, !.pending = q, !.i = @ + 1]
            = [[[rest EXCEPT !.pending = q] EXCEPT !.up = v] EXCEPT !.i = @ + 1]
      BY <3>5 DEF UpState
    <3> DEFINE s == [[rest EXCEPT !.pending = q] EXCEPT !.up = v]
    <3>8. Good2(s)
      BY <1>4, <3>4
    <3> HIDE DEF s
    <3>9. Good2([s EXCEPT !.i = @ + 1])
      <4>1. 0 \in Int
        OBVIOUS
      <4> QED BY <3>8, <4>1, UpPass
    <3> QED BY <2>2, <3>2, <3>6, <3>7, <3>9 DEF s
  <2>5. CASE Count(st.tags, t) # 1
    <3> DEFINE q == [st.pending EXCEPT ![k] = c]
    <3>1. InOrder(down, in, banks, out, tags, q, acc, pairs, ans, u, st.links)
      <4> HIDE DEF p
      <4> QED BY <1>2, <2>1, <2>5, UpMore
    <3>2. ~IsLast(st.tags, Min(found))
      BY <1>3, <2>5
    <3> HIDE DEF p, tags, found, t
    <3>3. JoinPending(rest, p, k, FALSE)
            = [rest EXCEPT !.up = Erase(rest.up, rest.i), !.pending[k] = Combine(rest.pending[k], p)]
      BY DEF JoinPending
    <3>4. Good2([[[st EXCEPT !.tags = tags] EXCEPT !.pending = q] EXCEPT !.up = u]) /\ tags \in Seq(Tag)
      <4> HIDE DEF q, u
      <4> QED BY <3>1, UpGoodOf
    <3>5. rest.pending = st.pending /\ rest.up = st.up /\ rest.i = st.i /\ rest \in UpState
      BY <1>4, <2>3, <3>4
    <3> HIDE DEF rest
    <3>6. JoinPending(rest, p, k, FALSE) = [rest EXCEPT !.up = u, !.pending[k] = c]
      BY <3>3, <3>5 DEF c, u
    <3> HIDE DEF c, u
    <3>7. [rest EXCEPT !.up = u, !.pending[k] = c] = [[rest EXCEPT !.pending = q] EXCEPT !.up = u]
      <4>1. [rest EXCEPT !.up = u, !.pending[k] = c]
              = [[rest EXCEPT !.pending = [rest.pending EXCEPT ![k] = c]] EXCEPT !.up = u]
        BY <3>5 DEF UpState
      <4> QED BY <3>5, <4>1
    <3>8. UpSegment(st) = [rest EXCEPT !.up = u, !.pending[k] = c]
      <4>1. IsLast(st.tags, Min(found)) = FALSE
        BY <3>2 DEF IsLast
      <4> QED BY <2>2, <3>6, <4>1
    <3> HIDE DEF q
    <3> QED BY <1>4, <3>4, <3>7, <3>8
  <2> QED BY <2>4, <2>5
<1> QED BY <1>5, <1>6

\* An iteration of the loop over upBuffers.
LEMMA UpStays ==
  ASSUME NEW st, NEW down, NEW in, NEW banks, NEW out, NEW acc, NEW pairs, NEW ans,
         UpGood(st, down, in, banks, out, acc, pairs, ans)
  PROVE  UpGood(UpStep(st), down, in, banks, out, acc, pairs, ans)
<1> DEFINE p == st.up[st.i]
<1>1. st.i \in Nat \ {0} /\ st.up \in Seq(Flit)
  BY DEF UpGood, UpState
<1>2. CASE st.i > Len(st.up)
  BY <1>2 DEF UpStep
<1>3. CASE st.i <= Len(st.up) /\ p = NULL
  <2>1. UpStep(st) = [st EXCEPT !.i = @ + 1]
    BY <1>1, <1>3 DEF UpStep
  <2>2. 0 \in Int
    OBVIOUS
  <2>3. UpGood([st EXCEPT !.i = @ + 1], down, in, banks, out, acc, pairs, ans)
    BY <2>2, UpPass
  <2> QED BY <2>1, <2>3
<1>4. ASSUME st.i <= Len(st.up), p # NULL PROVE p.segment \in BOOLEAN
  <2>1. st.i \in 1 .. Len(st.up)
    BY <1>1, <1>4
  <2>2. Tidy(st.up)
    BY DEF UpGood, Buffers
  <2>3. p \in PacketType
    BY <1>4, <2>1, <2>2, TidyErase
  <2> QED BY <2>3, PacketFields
<1>5. CASE st.i <= Len(st.up) /\ p # NULL /\ p.segment
  <2>1. UpStep(st) = UpSegment(st)
    BY <1>1, <1>5 DEF UpStep
  <2> QED BY <1>5, <2>1, UpSegments
<1>6. CASE st.i <= Len(st.up) /\ p # NULL /\ ~p.segment
  <2>1. UpStep(st) = UpResponse(st)
    BY <1>1, <1>6 DEF UpStep
  <2> QED BY <1>6, <2>1, UpResponds
<1> QED BY <1>1, <1>2, <1>3, <1>4, <1>5, <1>6

\* After the two loops of an Update the buffers and the contents are good.
LEMMA LoopsStay ==
  ASSUME NEW down, NEW up, NEW in, NEW banks, NEW out, NEW links, NEW tags, NEW pending,
         NEW acc, NEW pairs, NEW ans, NEW service \in Int,
         Buffers(down, up, in, out, links),
         Good(Contents(down, up, in, banks, out, links), tags, pending, acc, pairs, ans)
  PROVE  LET d == DownLoop([i |-> 1, down |-> down, tags |-> tags, vaults |-> in])
             u == UpLoop([i |-> 1, up |-> up, tags |-> d.tags, pending |-> pending,
                          links |-> links, service |-> service, error |-> NoError])
         IN  /\ d \in DownState
             /\ UpGood(u, d.down, d.vaults, banks, out, acc, pairs, ans)
<1> DEFINE st == [i |-> 1, down |-> down, tags |-> tags, vaults |-> in]
           d == DownLoop(st)
           G(x) == DownGood(x, up, banks, out, links, pending, acc, pairs, ans)
           S == {x \in DownState : G(x)}
<1>1. /\ down \in Seq(Flit) /\ up \in Seq(Flit) /\ tags \in Seq(Tag) /\ pending \in Seq(PacketType)
      /\ in \in [Vault -> Seq(Flit)] /\ links \in [Link -> Seq(Flit)]
  BY DEF Buffers, Tidy, Good, Kept
<1>2. st \in DownState /\ st.down = down /\ st.tags = tags /\ st.vaults = in
  BY <1>1 DEF DownState
<1> HIDE DEF st
<1>3. G(st)
  BY <1>2 DEF DownGood
<1>4. \A x \in S : DownStep(x) \in S
  <2>1. ASSUME NEW x \in DownState, G(x) PROVE DownStep(x) \in DownState /\ G(DownStep(x))
    BY <2>1, DownStays
  <2> HIDE DEF G
  <2> QED BY <2>1
<1>5. d \in S
  <2>1. st \in S /\ Len(st.down) \in Nat
    BY <1>1, <1>2, <1>3
  <2> HIDE DEF S
  <2> QED BY <1>4, <2>1, DownLoopStays
<1> HIDE DEF d
<1>6. d \in DownState /\ G(d)
  BY <1>5
<1> DEFINE ut == [i |-> 1, up |-> up, tags |-> d.tags, pending |-> pending,
                  links |-> links, service |-> service, error |-> NoError]
           u == UpLoop(ut)
           H(x) == UpGood(x, d.down, d.vaults, banks, out, acc, pairs, ans)
           R == {x \in UpState : H(x)}
<1>7. ut \in UpState /\ ut.up = up /\ ut.tags = d.tags /\ ut.pending = pending /\ ut.links = links
  <2>1. d.tags \in Seq(Tag)
    BY <1>6 DEF DownState
  <2> QED BY <1>1, <2>1 DEF UpState
<1> HIDE DEF ut
<1>8. H(ut)
  BY <1>6, <1>7 DEF UpGood, DownGood
<1>9. \A x \in R : UpStep(x) \in R
  <2>1. ASSUME NEW x \in UpState, H(x) PROVE H(UpStep(x))
    BY <2>1, UpStays
  <2>2. \A x : H(x) => x \in UpState
    BY DEF UpGood
  <2> HIDE DEF H
  <2> QED BY <2>1, <2>2
<1>10. u \in R
  <2>1. ut \in R /\ Len(ut.up) \in Nat /\ ut.pending \in Seq(PacketType)
    BY <1>1, <1>7, <1>8
  <2> HIDE DEF R
  <2> QED BY <1>9, <2>1, UpLoopStays
<1>11. d \in DownState /\ UpGood(u, d.down, d.vaults, banks, out, acc, pairs, ans)
  BY <1>6, <1>10
<1> QED BY <1>11 DEF d, st, ut

-----------------------------------------------------------------------------
(* The actions.                                                            *)

\* The vaults by their buffers.
LEMMA VaultsAre ==
  ASSUME vault \in [Vault -> VaultType]
  PROVE  /\ Ins \in [Vault -> Seq(Flit)] /\ Outs \in [Vault -> Seq(Flit)]
         /\ \A v \in Vault : /\ Ins[v] = vault[v].downBuffers /\ Banks[v] = vault[v].banks
                             /\ Outs[v] = vault[v].upBuffers
                             /\ vault[v].downBuffers \in Seq(Flit) /\ vault[v].upBuffers \in Seq(Flit)
                             /\ vault[v].banks \in SUBSET PacketType
BY DEF Ins, Outs, Banks, VaultType

\* One vault changes.
LEMMA VaultChanges ==
  ASSUME vault \in [Vault -> VaultType], NEW v \in Vault, NEW x \in VaultType, vault' = [vault EXCEPT ![v] = x]
  PROVE  /\ vault' \in [Vault -> VaultType]
         /\ Ins' = [Ins EXCEPT ![v] = x.downBuffers] /\ Banks' = [Banks EXCEPT ![v] = x.banks]
         /\ Outs' = [Outs EXCEPT ![v] = x.upBuffers]
<1>1. vault' \in [Vault -> VaultType]
  OBVIOUS
<1>2. vault'[v] = x /\ \A w \in Vault : w # v => vault'[w] = vault[w]
  OBVIOUS
<1>3. Ins' = [Ins EXCEPT ![v] = x.downBuffers]
  BY <1>2 DEF Ins
<1>4. Banks' = [Banks EXCEPT ![v] = x.banks]
  BY <1>2 DEF Banks
<1>5. Outs' = [Outs EXCEPT ![v] = x.upBuffers]
  BY <1>2 DEF Outs
<1> QED BY <1>1, <1>3, <1>4, <1>5

\* The crossbar receives a request.
LEMMA AcceptKeeps ==
  ASSUME IInv, NEW t \in Tag, ReceiveDown(t)
  PROVE  IInv'
<1> DEFINE p == RequestPacket(t)
           d == crossbar.downBuffers
           d2 == d \o Flits(p)
           u == crossbar.upBuffers
           held == Contents(d, u, Ins, Banks, Outs, link)
<1>1. /\ crossbar \in CrossbarType /\ vault \in [Vault -> VaultType]
      /\ Buffers(d, u, Ins, Outs, link)
      /\ Good(held, crossbar.pendingSegTag, crossbar.pendingSegPacket, accepted, accessed, answered)
  BY DEF IInv, InOrder
<1>2. /\ t \notin accepted /\ crossbar' = [crossbar EXCEPT !.downBuffers = d2]
      /\ accepted' = accepted \cup {t}
      /\ vault' = vault /\ link' = link /\ accessed' = accessed /\ answered' = answered
  BY DEF ReceiveDown
<1> HIDE DEF held
<1>3. p \notin Everything(held)
      /\ Good(Swap(held, <<"down", 0>>, {}, <<"down", 0>>, {p}),
              crossbar.pendingSegTag, crossbar.pendingSegPacket, accepted', accessed, answered)
  BY <1>1, <1>2, GoodAccept
<1>4. held[<<"down", 0>>] = Packets(d) /\ <<"down", 0>> \in Place
  <2>1. HeldAt(held, d, u, Ins, Banks, Outs, link)
    BY ContentsAt DEF held
  <2> QED BY <2>1, PlaceIn DEF HeldAt
<1>5. Tidy(d2) /\ Packets(d2) = Packets(d) \cup {p} /\ d2 \in Seq(Flit)
  <2>1. p \notin Packets(d) /\ p \in PacketType
    BY <1>3, <1>4, RequestIs DEF Everything
  <2>2. Tidy(d)
    BY <1>1 DEF Buffers
  <2> HIDE DEF d, p
  <2> QED BY <2>1, <2>2, TidyPut DEF Tidy
<1> HIDE DEF d2
<1>6. /\ crossbar' \in CrossbarType /\ crossbar'.downBuffers = d2 /\ crossbar'.upBuffers = u
      /\ crossbar'.pendingSegTag = crossbar.pendingSegTag
      /\ crossbar'.pendingSegPacket = crossbar.pendingSegPacket
  BY <1>1, <1>2, <1>5 DEF CrossbarType
<1>7. Buffers(d2, u, Ins, Outs, link)
  BY <1>1, <1>5 DEF Buffers
<1>8. Contents(d2, u, Ins, Banks, Outs, link) = Swap(held, <<"down", 0>>, {}, <<"down", 0>>, {p})
  <2>1. Packets(d2) = (Packets(d) \ {}) \cup {p}
    BY <1>5
  <2> QED BY <2>1, ContentsDown DEF held
<1>9. Ins' = Ins /\ Outs' = Outs /\ Banks' = Banks
  BY <1>2 DEF Ins, Outs, Banks
<1> HIDE DEF d, u, p
<1>10. InOrder(d2, Ins, Banks, Outs, crossbar.pendingSegTag, crossbar.pendingSegPacket,
               accepted', accessed, answered, u, link)
  BY <1>3, <1>7, <1>8 DEF InOrder
<1> QED BY <1>1, <1>2, <1>6, <1>9, <1>10 DEF IInv

\* The crossbar's Update.
LEMMA UpdateKeeps ==
  ASSUME IInv, CrossbarUpdate
  PROVE  IInv'
<1> DEFINE c == crossbar
           D == DownLoop([i |-> 1, down |-> c.downBuffers, tags |-> c.pendingSegTag, vaults |-> Ins])
           U == UpLoop([i |-> 1, up |-> c.upBuffers, tags |-> D.tags, pending |-> c.pendingSegPacket,
                        links |-> link, service |-> c.inServiceLink, error |-> NoError])
<1>1. /\ c \in CrossbarType /\ vault \in [Vault -> VaultType]
      /\ Buffers(c.downBuffers, c.upBuffers, Ins, Outs, link)
      /\ Good(Contents(c.downBuffers, c.upBuffers, Ins, Banks, Outs, link),
              c.pendingSegTag, c.pendingSegPacket, accepted, accessed, answered)
  BY DEF IInv, InOrder
<1>2. /\ crossbar' = [downBuffers |-> D.down, upBuffers |-> U.up,
                      pendingSegTag |-> U.tags, pendingSegPacket |-> U.pending,
                      inServiceLink |-> U.service, error |-> U.error]
      /\ vault' = [v \in Vault |-> [vault[v] EXCEPT !.downBuffers = D.vaults[v]]]
      /\ link' = U.links
      /\ accepted' = accepted /\ accessed' = accessed /\ answered' = answered
  BY ZenonT(60) DEF CrossbarUpdate, Ins, NoError
<1>3. c.inServiceLink \in Int
  BY <1>1 DEF CrossbarType
<1>4. D \in DownState /\ UpGood(U, D.down, D.vaults, Banks, Outs, accepted, accessed, answered)
  <2> DEFINE d == c.downBuffers
             u == c.upBuffers
             g == c.pendingSegTag
             q == c.pendingSegPacket
             s == c.inServiceLink
  <2>1. /\ Buffers(d, u, Ins, Outs, link) /\ s \in Int
        /\ Good(Contents(d, u, Ins, Banks, Outs, link), g, q, accepted, accessed, answered)
    BY <1>1, <1>3
  <2> HIDE DEF d, u, g, q, s
  <2>2. LET dd == DownLoop([i |-> 1, down |-> d, tags |-> g, vaults |-> Ins])
            uu == UpLoop([i |-> 1, up |-> u, tags |-> dd.tags, pending |-> q,
                          links |-> link, service |-> s, error |-> NoError])
        IN  /\ dd \in DownState
            /\ UpGood(uu, dd.down, dd.vaults, Banks, Outs, accepted, accessed, answered)
    BY <2>1, LoopsStay
  <2> QED BY <2>2 DEF d, u, g, q, s
<1> HIDE DEF U, D, c
<1>5. /\ U \in UpState
      /\ InOrder(D.down, D.vaults, Banks, Outs, U.tags, U.pending, accepted, accessed, answered,
                 U.up, U.links)
  BY <1>4 DEF UpGood, InOrder
<1>6. /\ crossbar' \in CrossbarType /\ crossbar'.downBuffers = D.down /\ crossbar'.upBuffers = U.up
      /\ crossbar'.pendingSegTag = U.tags /\ crossbar'.pendingSegPacket = U.pending
  <2>1. D.down \in Seq(Flit)
    BY <1>4 DEF DownState
  <2>2. /\ U.up \in Seq(Flit) /\ U.tags \in Seq(Tag) /\ U.pending \in Seq(PacketType)
        /\ U.service \in Int /\ U.error \in {NoError}
    BY <1>5 DEF UpState
  <2> QED BY <1>2, <2>1, <2>2 DEF CrossbarType
<1>7. /\ vault' \in [Vault -> VaultType] /\ Ins' = D.vaults /\ Banks' = Banks /\ Outs' = Outs
  <2>1. D.vaults \in [Vault -> Seq(Flit)]
    BY <1>4 DEF DownState
  <2>2. ASSUME NEW v \in Vault
        PROVE  /\ vault'[v] \in VaultType /\ vault'[v].downBuffers = D.vaults[v]
               /\ vault'[v].banks = vault[v].banks /\ vault'[v].upBuffers = vault[v].upBuffers
    <3> DEFINE f == D.vaults[v]
    <3>1. f \in Seq(Flit) /\ vault[v] \in VaultType /\ vault'[v] = [vault[v] EXCEPT !.downBuffers = f]
      BY <1>1, <1>2, <2>1
    <3> HIDE DEF f
    <3>2. /\ [vault[v] EXCEPT !.downBuffers = f] \in VaultType
          /\ [vault[v] EXCEPT !.downBuffers = f].downBuffers = f
          /\ [vault[v] EXCEPT !.downBuffers = f].banks = vault[v].banks
          /\ [vault[v] EXCEPT !.downBuffers = f].upBuffers = vault[v].upBuffers
      BY <3>1 DEF VaultType
    <3> QED BY <3>1, <3>2 DEF f
  <2>3. vault' \in [Vault -> VaultType]
    <3>1. vault' = [v \in Vault |-> vault'[v]]
      BY <1>2
    <3> QED BY <2>2, <3>1
  <2>4. Ins' = D.vaults
    BY <2>1, <2>2 DEF Ins
  <2>5. Banks' = Banks /\ Outs' = Outs
    BY <2>2 DEF Banks, Outs
  <2> QED BY <2>3, <2>4, <2>5
<1> QED BY <1>2, <1>5, <1>6, <1>7 DEF IInv

\* A vault takes a packet out of its buffer.
LEMMA ConvKeeps ==
  ASSUME IInv, NEW v \in Vault, NEW i \in 1 .. Len(vault[v].downBuffers), ConvPacketIntoCMDs(v, i)
  PROVE  IInv'
<1> DEFINE d == crossbar.downBuffers
           u == crossbar.upBuffers
           q == vault[v].downBuffers
           p == q[i]
           q2 == Erase(q, i)
           b2 == vault[v].banks \cup {p}
           x == [[vault[v] EXCEPT !.downBuffers = q2] EXCEPT !.banks = b2]
           held == Contents(d, u, Ins, Banks, Outs, link)
<1>1. /\ crossbar \in CrossbarType /\ vault \in [Vault -> VaultType]
      /\ Buffers(d, u, Ins, Outs, link)
      /\ Good(held, crossbar.pendingSegTag, crossbar.pendingSegPacket, accepted, accessed, answered)
  BY DEF IInv, InOrder
<1>2. /\ p # NULL /\ crossbar' = crossbar /\ link' = link
      /\ accepted' = accepted /\ accessed' = accessed /\ answered' = answered
      /\ vault' = [vault EXCEPT ![v].downBuffers = q2, ![v].banks = @ \cup {p}]
  BY DEF ConvPacketIntoCMDs
<1>3. vault' = [vault EXCEPT ![v] = x]
  <2> HIDE DEF q2, p
  <2>1. vault[v] \in VaultType
    BY <1>1
  <2>2. [vault EXCEPT ![v].downBuffers = q2, ![v].banks = @ \cup {p}] = [vault EXCEPT ![v] = x]
    BY <1>1, <2>1 DEF VaultType
  <2> QED BY <1>2, <2>2
<1>4. Tidy(q) /\ Len(q) <= MAX_VLT_BUF /\ Ins[v] = q /\ Banks[v] = vault[v].banks
      /\ vault[v].banks \in SUBSET PacketType
  BY <1>1, VaultsAre DEF Buffers
<1> HIDE DEF held
<1>5. /\ p \in Packets(q) /\ p \in PacketType /\ Tidy(q2) /\ Packets(q2) = Packets(q) \ {p}
      /\ Len(q2) <= MAX_VLT_BUF
  <2> HIDE DEF q
  <2>1. /\ p \in Packets(q) /\ p \in PacketType /\ Tidy(q2) /\ Packets(q2) = Packets(q) \ {p}
        /\ Len(q2) + p.lng = Len(q)
    BY <1>2, <1>4, TidyErase DEF q
  <2>2. Len(q2) \in Nat /\ Len(q) \in Nat /\ p.lng \in Nat
    BY <1>4, <2>1, PacketFields DEF Tidy
  <2>3. MAX_VLT_BUF \in Nat
    BY CrossbarAssumption
  <2> HIDE DEF q2, p
  <2> QED BY <1>4, <2>1, <2>2, <2>3
<1> HIDE DEF q2, p
<1>6. x \in VaultType /\ x.downBuffers = q2 /\ x.banks = b2 /\ x.upBuffers = vault[v].upBuffers
  <2>1. vault[v] \in VaultType /\ q2 \in Seq(Flit) /\ b2 \in SUBSET PacketType
    BY <1>1, <1>4, <1>5 DEF Tidy
  <2> HIDE DEF b2
  <2> QED BY <2>1 DEF VaultType
<1> HIDE DEF x, b2
<1>7. /\ vault' \in [Vault -> VaultType]
      /\ Ins' = [Ins EXCEPT ![v] = q2] /\ Banks' = [Banks EXCEPT ![v] = b2] /\ Outs' = Outs
  <2>1. /\ vault' \in [Vault -> VaultType]
        /\ Ins' = [Ins EXCEPT ![v] = x.downBuffers] /\ Banks' = [Banks EXCEPT ![v] = x.banks]
        /\ Outs' = [Outs EXCEPT ![v] = x.upBuffers]
    BY <1>1, <1>3, <1>6, VaultChanges
  <2>2. [Outs EXCEPT ![v] = vault[v].upBuffers] = Outs
    BY DEF Outs
  <2> QED BY <1>6, <2>1, <2>2
<1>8. /\ Ins' \in [Vault -> Seq(Flit)] /\ Ins'[v] = q2 /\ Banks'[v] = b2
      /\ \A w \in Vault : w # v => Ins'[w] = Ins[w] /\ Banks'[w] = Banks[w]
  <2>1. Ins \in [Vault -> Seq(Flit)] /\ DOMAIN Banks = Vault /\ q2 \in Seq(Flit)
    BY <1>1, <1>5, VaultsAre DEF Banks, Tidy
  <2> QED BY <1>7, <2>1
<1>9. Buffers(d, u, Ins', Outs, link)
  BY <1>1, <1>5, <1>8 DEF Buffers
<1>10. Contents(d, u, Ins', Banks', Outs, link) = Swap(held, <<"in", v>>, {p}, <<"banks", v>>, {p})
  <2>1. Packets(Ins'[v]) = Packets(Ins[v]) \ {p} /\ Banks'[v] = Banks[v] \cup {p}
    BY <1>4, <1>5, <1>8 DEF b2
  <2> HIDE DEF d, u
  <2> DEFINE in2 == Ins'
             banks2 == Banks'
  <2>2. /\ Packets(in2[v]) = Packets(Ins[v]) \ {p} /\ banks2[v] = Banks[v] \cup {p}
        /\ \A w \in Vault : w # v => in2[w] = Ins[w] /\ banks2[w] = Banks[w]
    BY <1>8, <2>1
  <2> HIDE DEF in2, banks2
  <2>3. Contents(d, u, in2, banks2, Outs, link)
          = Swap(Contents(d, u, Ins, Banks, Outs, link), <<"in", v>>, {p}, <<"banks", v>>, {p})
    <3>1. FromInToBanks(v, p, Ins, Banks, in2, banks2)
      BY <2>2 DEF FromInToBanks
    <3> QED BY <3>1, ContentsInBanks
  <2> QED BY <2>3 DEF in2, banks2, held
<1>11. Good(Swap(held, <<"in", v>>, {p}, <<"banks", v>>, {p}), crossbar.pendingSegTag,
            crossbar.pendingSegPacket, accepted, accessed, answered)
  <2> DEFINE y == <<"in", v>>
             z == <<"banks", v>>
  <2>1. held[y] = Packets(q) /\ y \in Place /\ z \in Place
    <3>1. HeldAt(held, d, u, Ins, Banks, Outs, link)
      BY ContentsAt DEF held
    <3> QED BY <1>4, <3>1, PlaceIn DEF HeldAt
  <2>2. p \in held[y]
    BY <1>5, <2>1
  <2>3. Admits(y, p) <=> Admits(z, p)
    BY DEF Admits
  <2> HIDE DEF y, z
  <2>4. Admits(z, p)
    BY <1>1, <2>1, <2>2, <2>3, PacketHere
  <2>5. Good(Swap(held, y, {p}, z, {p}), crossbar.pendingSegTag,
             crossbar.pendingSegPacket, accepted, accessed, answered)
    BY <1>1, <2>1, <2>2, <2>4, GoodMove
  <2> QED BY <2>5 DEF y, z
<1> HIDE DEF d, u
<1>12. InOrder(d, Ins', Banks', Outs, crossbar.pendingSegTag, crossbar.pendingSegPacket,
               accepted, accessed, answered, u, link)
  BY <1>9, <1>10, <1>11 DEF InOrder
<1> QED BY <1>1, <1>2, <1>7, <1>12 DEF IInv, d, u

\* A vault responds: the block it accessed is one that was asked for, and new.
LEMMA RespondKeeps ==
  ASSUME IInv, NEW v \in Vault, NEW p \in vault[v].banks, MakeRespondPacket(v, p)
  PROVE  /\ IInv'
         /\ p.tag \in accepted /\ p.tag \in Tag /\ p.adrs \in Blocks(p.tag)
         /\ <<p.tag, p.adrs>> \notin accessed
<1> DEFINE d == crossbar.downBuffers
           u == crossbar.upBuffers
           q == vault[v].upBuffers
           r == RespondPacket(p)
           q2 == q \o Flits(r)
           b2 == vault[v].banks \ {p}
           x == [[vault[v] EXCEPT !.banks = b2] EXCEPT !.upBuffers = q2]
           held == Contents(d, u, Ins, Banks, Outs, link)
           pairs == accessed \cup {<<p.tag, p.adrs>>}
<1>1. /\ crossbar \in CrossbarType /\ vault \in [Vault -> VaultType]
      /\ Buffers(d, u, Ins, Outs, link)
      /\ Good(held, crossbar.pendingSegTag, crossbar.pendingSegPacket, accepted, accessed, answered)
  BY DEF IInv, InOrder
<1>2. /\ Fits(q, r, MAX_VLT_BUF) /\ crossbar' = crossbar /\ link' = link
      /\ accepted' = accepted /\ accessed' = pairs /\ answered' = answered
      /\ vault' = [vault EXCEPT ![v].banks = @ \ {p}, ![v].upBuffers = @ \o Flits(r)]
  BY DEF MakeRespondPacket
<1>3. vault' = [vault EXCEPT ![v] = x]
  <2> DEFINE f == Flits(r)
  <2> HIDE DEF f
  <2>1. vault[v] \in VaultType
    BY <1>1
  <2>2. [vault EXCEPT ![v].banks = @ \ {p}, ![v].upBuffers = @ \o f]
          = [vault EXCEPT ![v] = [[vault[v] EXCEPT !.banks = vault[v].banks \ {p}]
                                    EXCEPT !.upBuffers = vault[v].upBuffers \o f]]
    BY <1>1, <2>1 DEF VaultType
  <2> QED BY <1>2, <2>2 DEF f
<1>4. Tidy(q) /\ Len(q) <= MAX_VLT_BUF /\ Outs[v] = q /\ Banks[v] = vault[v].banks
      /\ vault[v].banks \in SUBSET PacketType
  BY <1>1, VaultsAre DEF Buffers
<1> HIDE DEF held
<1>5. /\ p \in held[<<"banks", v>>] /\ held[<<"out", v>>] = Packets(q) /\ <<"out", v>> \in Place
  <2>1. HeldAt(held, d, u, Ins, Banks, Outs, link)
    BY ContentsAt DEF held
  <2> QED BY <1>4, <2>1, PlaceIn DEF HeldAt
<1>6. /\ p \in PacketType /\ p.tag \in accepted /\ p.tag \in Tag
      /\ p.adrs \in Blocks(p.tag) /\ <<p.tag, p.adrs>> \notin accessed
      /\ r \in PacketType /\ r \notin Everything(held)
      /\ Good(Swap(held, <<"banks", v>>, {p}, <<"out", v>>, {r}),
              crossbar.pendingSegTag, crossbar.pendingSegPacket, accepted, pairs, answered)
  BY <1>1, <1>5, GoodAccess
<1>7. r \notin Packets(q)
  BY <1>5, <1>6 DEF Everything
<1> HIDE DEF r
<1>8. /\ Tidy(q2) /\ Packets(q2) = Packets(q) \cup {r} /\ Len(q2) <= MAX_VLT_BUF
  <2> HIDE DEF q
  <2>1. Tidy(q2) /\ Packets(q2) = Packets(q) \cup {r} /\ Len(q2) = Len(q) + r.lng
    BY <1>4, <1>6, <1>7, TidyPut
  <2> HIDE DEF q2
  <2> QED BY <1>2, <2>1 DEF Fits
<1> HIDE DEF q2, pairs
<1>9. x \in VaultType /\ x.downBuffers = vault[v].downBuffers /\ x.banks = b2 /\ x.upBuffers = q2
  <2>1. vault[v] \in VaultType /\ q2 \in Seq(Flit) /\ b2 \in SUBSET PacketType
    BY <1>1, <1>4, <1>8 DEF Tidy
  <2> HIDE DEF b2
  <2> QED BY <2>1 DEF VaultType
<1> HIDE DEF x, b2
<1>10. /\ vault' \in [Vault -> VaultType]
       /\ Ins' = Ins /\ Banks' = [Banks EXCEPT ![v] = b2] /\ Outs' = [Outs EXCEPT ![v] = q2]
  <2>1. /\ vault' \in [Vault -> VaultType]
        /\ Ins' = [Ins EXCEPT ![v] = x.downBuffers] /\ Banks' = [Banks EXCEPT ![v] = x.banks]
        /\ Outs' = [Outs EXCEPT ![v] = x.upBuffers]
    BY <1>1, <1>3, <1>9, VaultChanges
  <2>2. [Ins EXCEPT ![v] = vault[v].downBuffers] = Ins
    BY DEF Ins
  <2> QED BY <1>9, <2>1, <2>2
<1>11. /\ Outs' \in [Vault -> Seq(Flit)] /\ Outs'[v] = q2 /\ Banks'[v] = b2
       /\ \A w \in Vault : w # v => Outs'[w] = Outs[w] /\ Banks'[w] = Banks[w]
  <2>1. Outs \in [Vault -> Seq(Flit)] /\ DOMAIN Banks = Vault /\ q2 \in Seq(Flit)
    BY <1>1, <1>8, VaultsAre DEF Banks, Tidy
  <2> QED BY <1>10, <2>1
<1>12. Buffers(d, u, Ins, Outs', link)
  BY <1>1, <1>8, <1>11 DEF Buffers
<1>13. Contents(d, u, Ins, Banks', Outs', link) = Swap(held, <<"banks", v>>, {p}, <<"out", v>>, {r})
  <2> DEFINE out2 == Outs'
             banks2 == Banks'
  <2>1. FromBanksToOut(v, p, r, Banks, Outs, banks2, out2)
    BY <1>4, <1>8, <1>11 DEF b2, FromBanksToOut
  <2> HIDE DEF out2, banks2
  <2>2. Contents(d, u, Ins, banks2, out2, link)
          = Swap(Contents(d, u, Ins, Banks, Outs, link), <<"banks", v>>, {p}, <<"out", v>>, {r})
    BY <2>1, ContentsBanksOut
  <2> QED BY <2>2 DEF out2, banks2, held
<1> HIDE DEF d, u
<1>14. InOrder(d, Ins, Banks', Outs', crossbar.pendingSegTag, crossbar.pendingSegPacket,
               accepted, pairs, answered, u, link)
  BY <1>6, <1>12, <1>13 DEF InOrder
<1> QED BY <1>1, <1>2, <1>6, <1>10, <1>14 DEF IInv, d, u

\* The element at the front of a buffer that is not empty is a packet.
LEMMA TidyFirst ==
  ASSUME NEW q, Tidy(q), q # <<>>
  PROVE  1 \in 1 .. Len(q) /\ q[1] # NULL
<1>1. q \in Seq(Flit) /\ Len(q) \in Nat
  BY DEF Tidy
<1>2. Len(q) # 0
  BY <1>1, EmptySeq
<1>3. 1 \in 1 .. Len(q)
  BY <1>1, <1>2
<1> QED BY <1>3 DEF Tidy, Whole

\* The crossbar receives a response.
LEMMA ReceiveUpKeeps ==
  ASSUME IInv, NEW v \in Vault, ReceiveUp(v)
  PROVE  IInv'
<1> DEFINE d == crossbar.downBuffers
           u == crossbar.upBuffers
           q == vault[v].upBuffers
           p == q[1]
           q2 == Erase(q, 1)
           u2 == u \o Flits(p)
           x == [vault[v] EXCEPT !.upBuffers = q2]
           held == Contents(d, u, Ins, Banks, Outs, link)
<1>1. /\ crossbar \in CrossbarType /\ vault \in [Vault -> VaultType]
      /\ Buffers(d, u, Ins, Outs, link)
      /\ Good(held, crossbar.pendingSegTag, crossbar.pendingSegPacket, accepted, accessed, answered)
  BY DEF IInv, InOrder
<1>2. /\ q # <<>> /\ crossbar' = [crossbar EXCEPT !.upBuffers = u2] /\ link' = link
      /\ accepted' = accepted /\ accessed' = accessed /\ answered' = answered
      /\ vault' = [vault EXCEPT ![v].upBuffers = q2]
  BY DEF ReceiveUp
<1>3. vault' = [vault EXCEPT ![v] = x]
  <2> HIDE DEF q2
  <2> QED BY <1>1, <1>2
<1>4. Tidy(q) /\ Len(q) <= MAX_VLT_BUF /\ Outs[v] = q /\ Banks[v] = vault[v].banks
  BY <1>1, VaultsAre DEF Buffers
<1> HIDE DEF held
<1>5. /\ p \in Packets(q) /\ p \in PacketType /\ Tidy(q2) /\ Packets(q2) = Packets(q) \ {p}
      /\ Len(q2) <= MAX_VLT_BUF
  <2> HIDE DEF q
  <2>0. 1 \in 1 .. Len(q) /\ p # NULL
    BY <1>2, <1>4, TidyFirst
  <2>1. /\ p \in Packets(q) /\ p \in PacketType /\ Tidy(q2) /\ Packets(q2) = Packets(q) \ {p}
        /\ Len(q2) + p.lng = Len(q)
    BY <1>4, <2>0, TidyErase
  <2>2. Len(q2) \in Nat /\ Len(q) \in Nat /\ p.lng \in Nat
    BY <1>4, <2>1, PacketFields DEF Tidy
  <2>3. MAX_VLT_BUF \in Nat
    BY CrossbarAssumption
  <2> HIDE DEF q2, p
  <2> QED BY <1>4, <2>1, <2>2, <2>3
<1> HIDE DEF q2, p
<1>6. x \in VaultType /\ x.downBuffers = vault[v].downBuffers /\ x.banks = vault[v].banks /\ x.upBuffers = q2
  <2>1. vault[v] \in VaultType /\ q2 \in Seq(Flit)
    BY <1>1, <1>5 DEF Tidy
  <2> QED BY <2>1 DEF VaultType
<1> HIDE DEF x
<1>7. /\ vault' \in [Vault -> VaultType]
      /\ Ins' = Ins /\ Banks' = Banks /\ Outs' = [Outs EXCEPT ![v] = q2]
  <2>1. /\ vault' \in [Vault -> VaultType]
        /\ Ins' = [Ins EXCEPT ![v] = x.downBuffers] /\ Banks' = [Banks EXCEPT ![v] = x.banks]
        /\ Outs' = [Outs EXCEPT ![v] = x.upBuffers]
    BY <1>1, <1>3, <1>6, VaultChanges
  <2>2. [Ins EXCEPT ![v] = vault[v].downBuffers] = Ins /\ [Banks EXCEPT ![v] = vault[v].banks] = Banks
    BY DEF Ins, Banks
  <2> QED BY <1>6, <2>1, <2>2
<1>8. /\ Outs' \in [Vault -> Seq(Flit)] /\ Outs'[v] = q2
      /\ \A w \in Vault : w # v => Outs'[w] = Outs[w]
  <2>1. Outs \in [Vault -> Seq(Flit)] /\ q2 \in Seq(Flit)
    BY <1>1, <1>5, VaultsAre DEF Tidy
  <2> QED BY <1>7, <2>1
<1> DEFINE y == <<"out", v>>
           z == <<"up", 0>>
<1>9. held[y] = Packets(q) /\ held[z] = Packets(u) /\ y \in Place /\ z \in Place /\ y # z
  <2>1. HeldAt(held, d, u, Ins, Banks, Outs, link)
    BY ContentsAt DEF held
  <2> QED BY <1>4, <2>1, PlaceIn, PlacesDiffer DEF HeldAt
<1>10. p \in held[y]
  BY <1>5, <1>9
<1>11. Admits(y, p) => Admits(z, p)
  BY DEF Admits
<1>12. y = <<"out", v>> /\ z = <<"up", 0>>
  OBVIOUS
<1> HIDE DEF y, z
<1>13. Admits(z, p) /\ p \notin Packets(u)
  BY <1>1, <1>9, <1>10, <1>11, PacketHere, Apart
<1>14. Good(Swap(held, y, {p}, z, {p}), crossbar.pendingSegTag,
            crossbar.pendingSegPacket, accepted, accessed, answered)
  BY <1>1, <1>9, <1>10, <1>13, GoodMove
<1>15. Tidy(u2) /\ Packets(u2) = Packets(u) \cup {p}
  <2>1. Tidy(u)
    BY <1>1 DEF Buffers
  <2> HIDE DEF u
  <2> QED BY <1>5, <1>13, <2>1, TidyPut
<1> HIDE DEF u2
<1>16. /\ crossbar' \in CrossbarType /\ crossbar'.downBuffers = d /\ crossbar'.upBuffers = u2
       /\ crossbar'.pendingSegTag = crossbar.pendingSegTag
       /\ crossbar'.pendingSegPacket = crossbar.pendingSegPacket
  <2>1. u2 \in Seq(Flit)
    BY <1>15 DEF Tidy
  <2> QED BY <1>1, <1>2, <2>1 DEF CrossbarType
<1>17. Buffers(d, u2, Ins, Outs', link)
  BY <1>1, <1>5, <1>8, <1>15 DEF Buffers
<1>18. Contents(d, u2, Ins, Banks, Outs', link) = Swap(held, y, {p}, z, {p})
  <2> DEFINE out2 == Outs'
  <2>1. FromOutToUp(v, p, u, Outs, u2, out2)
    BY <1>4, <1>5, <1>8, <1>15 DEF FromOutToUp
  <2> HIDE DEF out2
  <2>2. Contents(d, u2, Ins, Banks, out2, link)
          = Swap(Contents(d, u, Ins, Banks, Outs, link), <<"out", v>>, {p}, <<"up", 0>>, {p})
    BY <2>1, ContentsOutUp
  <2> QED BY <1>12, <2>2 DEF out2, held
<1> HIDE DEF d, u
<1>19. InOrder(d, Ins, Banks, Outs', crossbar.pendingSegTag, crossbar.pendingSegPacket,
               accepted, accessed, answered, u2, link)
  BY <1>14, <1>17, <1>18 DEF InOrder
<1> QED BY <1>1, <1>2, <1>7, <1>16, <1>19 DEF IInv, d

\* A link sends a response: the first one to its request, whose blocks are all accessed.
LEMMA SendKeeps ==
  ASSUME IInv, NEW l \in Link, SendResponse(l)
  PROVE  /\ IInv'
         /\ link[l][1].tag \in Tag /\ answered[link[l][1].tag] = 0
         /\ \A b \in Blocks(link[l][1].tag) : <<link[l][1].tag, b>> \in accessed
<1> DEFINE d == crossbar.downBuffers
           u == crossbar.upBuffers
           q == link[l]
           p == q[1]
           t == p.tag
           q2 == Erase(q, 1)
           ans == [answered EXCEPT ![t] = @ + 1]
           held == Contents(d, u, Ins, Banks, Outs, link)
<1>1. /\ crossbar \in CrossbarType /\ vault \in [Vault -> VaultType]
      /\ Buffers(d, u, Ins, Outs, link)
      /\ Good(held, crossbar.pendingSegTag, crossbar.pendingSegPacket, accepted, accessed, answered)
  BY DEF IInv, InOrder
<1>2. /\ q # <<>> /\ crossbar' = crossbar /\ vault' = vault
      /\ accepted' = accepted /\ accessed' = accessed /\ answered' = ans
      /\ link' = [link EXCEPT ![l] = q2]
  BY DEF SendResponse
<1>3. Tidy(q) /\ Len(q) <= MAX_LINK_BUF /\ link \in [Link -> Seq(Flit)]
  BY <1>1 DEF Buffers
<1> HIDE DEF held
<1>4. /\ p \in Packets(q) /\ p \in PacketType /\ Tidy(q2) /\ Packets(q2) = Packets(q) \ {p}
      /\ Len(q2) <= MAX_LINK_BUF
  <2> HIDE DEF q
  <2>0. 1 \in 1 .. Len(q) /\ p # NULL
    BY <1>2, <1>3, TidyFirst
  <2>1. /\ p \in Packets(q) /\ p \in PacketType /\ Tidy(q2) /\ Packets(q2) = Packets(q) \ {p}
        /\ Len(q2) + p.lng = Len(q)
    BY <1>3, <2>0, TidyErase
  <2>2. Len(q2) \in Nat /\ Len(q) \in Nat /\ p.lng \in Nat
    BY <1>3, <2>1, PacketFields DEF Tidy
  <2>3. MAX_LINK_BUF \in Nat
    BY CrossbarAssumption
  <2> HIDE DEF q2, p
  <2> QED BY <1>3, <2>1, <2>2, <2>3
<1> HIDE DEF q2, p
<1>5. p \in held[<<"link", l>>]
  <2>1. HeldAt(held, d, u, Ins, Banks, Outs, link)
    BY ContentsAt DEF held
  <2> QED BY <1>4, <2>1 DEF HeldAt
<1>6. /\ t \in Tag /\ answered[t] = 0 /\ \A b \in Blocks(t) : <<t, b>> \in accessed
      /\ Good(Swap(held, <<"link", l>>, {p}, <<"link", l>>, {}),
              crossbar.pendingSegTag, crossbar.pendingSegPacket, accepted, accessed, ans)
  BY <1>1, <1>5, GoodSend
<1> HIDE DEF ans
<1>7. /\ link' \in [Link -> Seq(Flit)] /\ link'[l] = q2
      /\ \A k \in Link : k # l => link'[k] = link[k]
  <2>1. q2 \in Seq(Flit)
    BY <1>4 DEF Tidy
  <2> QED BY <1>2, <1>3, <2>1
<1>8. Buffers(d, u, Ins, Outs, link')
  BY <1>1, <1>4, <1>7 DEF Buffers
<1>9. Contents(d, u, Ins, Banks, Outs, link') = Swap(held, <<"link", l>>, {p}, <<"link", l>>, {})
  <2> DEFINE links2 == link'
  <2>1. FromLink(l, p, link, links2)
    BY <1>4, <1>7 DEF FromLink
  <2> HIDE DEF links2
  <2>2. Contents(d, u, Ins, Banks, Outs, links2)
          = Swap(Contents(d, u, Ins, Banks, Outs, link), <<"link", l>>, {p}, <<"link", l>>, {})
    BY <2>1, ContentsLink
  <2> QED BY <2>2 DEF links2, held
<1>10. Ins' = Ins /\ Outs' = Outs /\ Banks' = Banks
  BY <1>2 DEF Ins, Outs, Banks
<1> HIDE DEF d, u
<1>11. InOrder(d, Ins, Banks, Outs, crossbar.pendingSegTag, crossbar.pendingSegPacket,
               accepted, accessed, ans, u, link')
  BY <1>6, <1>8, <1>9 DEF InOrder
<1>12. IInv'
  BY <1>1, <1>2, <1>10, <1>11 DEF IInv, d, u
<1> QED BY <1>6, <1>12 DEF t, p

-----------------------------------------------------------------------------
(* What the invariant implies.                                             *)

\* A request under way: its segments are as many as its pending tags, and its
\* pending packet adds up those that are back.
LEMMA StageTells ==
  ASSUME NEW t \in Tag, NEW here, NEW n, NEW pend, NEW in, NEW acc, NEW ans,
         Stage(t, here, n, pend, in, acc, ans)
  PROVE  /\ Cardinality({p \in here : p.segment}) = n
         /\ \A q \in pend : \E A \in SUBSET Blocks(t) :
              Partial(t, A, q) /\ n > 0 /\ Cardinality(A) = SegmentCount(Requests[t].size) - n
<1> DEFINE segs == {p \in here : p.segment}
<1>1. Cardinality({}) = 0
  BY FS_EmptySet
<1>2. RequestPacket(t).segment = FALSE /\ Answer(t).segment = FALSE
  BY RequestIs, AnswerIs
<1>3. CASE Divided(t, here, n, pend, acc)
  <2> DEFINE left == Left(here)
  <2>1. /\ left \subseteq Blocks(t)
        /\ \A p \in here : p \in {RequestSegment(t, p.adrs), RespondPacket(RequestSegment(t, p.adrs))}
        /\ \A p, q \in here : p.adrs = q.adrs => p = q
        /\ n = Cardinality(left) /\ n > 0
        /\ IF left = Blocks(t) THEN pend = {}
           ELSE \E q \in pend : pend = {q} /\ Partial(t, Blocks(t) \ left, q)
    BY <1>3 DEF Divided, Left
  <2>2. /\ Blocks(t) \subseteq Nat /\ IsFiniteSet(Blocks(t))
        /\ Cardinality(Blocks(t)) = SegmentCount(Requests[t].size)
    BY BlocksOf
  <2>3. \A p \in here : p.segment
    <3>1. ASSUME NEW p \in here PROVE p.segment
      <4> DEFINE b == p.adrs
                 s == RequestSegment(t, b)
      <4>1. b \in left
        BY DEF Left
      <4> HIDE DEF left
      <4>2. b \in Nat /\ p \in {s, RespondPacket(s)}
        BY <2>1, <2>2, <4>1
      <4> HIDE DEF b
      <4>3. s \in PacketType /\ s.segment = TRUE
        BY <4>2, SegmentIs
      <4> HIDE DEF s
      <4>4. RespondPacket(s).segment = TRUE
        BY <4>3, ReplyTo
      <4> QED BY <4>2, <4>3, <4>4
    <3> QED BY <3>1
  <2>4. segs = here
    BY <2>3
  <2>5. IsFiniteSet(left)
    BY <2>1, <2>2, FS_Subset
  <2>6. Cardinality(here) = Cardinality(left)
    <3> DEFINE f == [b \in left |-> CHOOSE p \in here : p.adrs = b]
    <3>1. \A b \in left : f[b] \in here /\ f[b].adrs = b
      BY DEF Left
    <3>2. \A p \in here : p.adrs \in left /\ f[p.adrs] = p
      BY <2>1, <3>1 DEF Left
    <3>3. f \in [left -> here]
      BY <3>1
    <3> HIDE DEF f, left
    <3>4. f \in Injection(left, here)
      BY <3>1, <3>3 DEF Injection, IsInjective
    <3>5. f \in Surjection(left, here)
      BY <3>2, <3>3 DEF Surjection
    <3>6. ExistsBijection(left, here)
      BY <3>4, <3>5 DEF ExistsBijection, Bijection
    <3> QED BY <2>5, <3>6, FS_Bijection
  <2>7. ASSUME NEW q \in pend
        PROVE  \E A \in SUBSET Blocks(t) :
                 Partial(t, A, q) /\ n > 0 /\ Cardinality(A) = SegmentCount(Requests[t].size) - n
    <3> DEFINE A == Blocks(t) \ left
    <3>1. Partial(t, A, q)
      BY <2>1, <2>7
    <3>2. Cardinality(A) = Cardinality(Blocks(t)) - Cardinality(Blocks(t) \cap left)
      <4> HIDE DEF left
      <4> QED BY <2>2, FS_Difference
    <3>3. Blocks(t) \cap left = left /\ A \in SUBSET Blocks(t)
      BY <2>1
    <3> HIDE DEF left, A
    <3>4. Cardinality(A) = SegmentCount(Requests[t].size) - n
      BY <2>1, <2>2, <3>2, <3>3
    <3> QED BY <2>1, <3>1, <3>3, <3>4
  <2> QED BY <2>1, <2>4, <2>6, <2>7
<1>4. CASE pend = {} /\ n = 0 /\ here \in {{}, {RequestPacket(t)}, {Answer(t)}}
  <2>1. segs = {}
    BY <1>2, <1>4
  <2> QED BY <1>1, <1>4, <2>1
<1> QED BY <1>3, <1>4 DEF Stage

\* The pending tags are the segments under way.
LEMMA AccountedIs ==
  ASSUME IInv
  PROVE  SegmentsAccounted
<1> DEFINE d == crossbar.downBuffers
           u == crossbar.upBuffers
           held == Contents(d, u, Ins, Banks, Outs, link)
           tags == crossbar.pendingSegTag
           pending == crossbar.pendingSegPacket
           W == CrossbarPackets \cup UNION {VaultPackets(v) : v \in Vault}
<1>1. /\ vault \in [Vault -> VaultType] /\ Good(held, tags, pending, accepted, accessed, answered)
  BY DEF IInv, InOrder
<1>2. HeldAt(held, d, u, Ins, Banks, Outs, link)
  BY ContentsAt
<1> HIDE DEF held
<1>3. /\ held[<<"down", 0>>] = Packets(d) /\ held[<<"up", 0>>] = Packets(u)
      /\ \A v \in Vault : /\ held[<<"in", v>>] = Packets(vault[v].downBuffers)
                          /\ held[<<"banks", v>>] = vault[v].banks
                          /\ held[<<"out", v>>] = Packets(vault[v].upBuffers)
      /\ \A l \in Link : held[<<"link", l>>] = Packets(link[l])
  BY <1>1, <1>2, VaultsAre DEF HeldAt
<1>4. /\ CrossbarPackets = held[<<"down", 0>>] \cup held[<<"up", 0>>]
      /\ \A v \in Vault : VaultPackets(v) = held[<<"in", v>>] \cup held[<<"banks", v>>] \cup held[<<"out", v>>]
  BY <1>3 DEF CrossbarPackets, VaultPackets
<1>5. ASSUME NEW t \in Tag
      PROVE  {p \in W : p.tag = t /\ p.segment} = {p \in Of(t, Everything(held)) : p.segment}
  <2>1. ASSUME NEW p \in W PROVE p \in Everything(held)
    <3>1. <<"down", 0>> \in Place /\ <<"up", 0>> \in Place
          /\ \A v \in Vault : <<"in", v>> \in Place /\ <<"banks", v>> \in Place /\ <<"out", v>> \in Place
      BY PlaceIn
    <3>2. \/ p \in held[<<"down", 0>>] \/ p \in held[<<"up", 0>>]
          \/ \E v \in Vault : p \in held[<<"in", v>>] \/ p \in held[<<"banks", v>>] \/ p \in held[<<"out", v>>]
      BY <1>4
    <3> QED BY <3>1, <3>2 DEF Everything
  <2>2. ASSUME NEW p \in Everything(held), p.segment PROVE p \in W
    <3>1. PICK x \in Place : p \in held[x]
      BY DEF Everything
    <3>2. ASSUME NEW l \in Link, x = <<"link", l>> PROVE FALSE
      <4>1. p.tag \in Tag /\ Admits(x, p)
        BY <1>1, <3>1, PacketHere
      <4>2. p = Answer(p.tag)
        BY <3>2, <4>1 DEF Admits
      <4> DEFINE w == p.tag
      <4>3. w \in Tag /\ p = Answer(w)
        BY <4>1, <4>2
      <4> HIDE DEF w
      <4>4. Answer(w).segment = FALSE
        BY <4>3, AnswerIs
      <4> QED BY <2>2, <4>3, <4>4
    <3>3. \/ x = <<"down", 0>> \/ x = <<"up", 0>>
          \/ \E v \in Vault : x \in {<<"in", v>>, <<"banks", v>>, <<"out", v>>}
      BY <3>2, Places
    <3> QED BY <1>4, <3>1, <3>3
  <2> HIDE DEF W
  <2>3. \A p : p \in W => p \in Everything(held)
    BY <2>1
  <2>4. \A p \in Everything(held) : p.segment => p \in W
    BY <2>2
  <2> QED BY <2>3, <2>4 DEF Of
<1>6. ASSUME NEW t \in Tag
      PROVE  Count(tags, t) = Cardinality({p \in W : p.tag = t /\ p.segment})
  <2> DEFINE here == Of(t, Everything(held))
  <2>1. Stage(t, here, Count(tags, t), Of(t, ToSet(pending)), t \in accepted, BlocksIn(accessed, t), answered[t])
    BY <1>1 DEF Good, StageOf
  <2>2. Cardinality({p \in here : p.segment}) = Count(tags, t)
    <3> HIDE DEF here, tags, pending
    <3> QED BY <2>1, StageTells
  <2> QED BY <1>5, <2>2
<1> QED BY <1>6 DEF SegmentsAccounted, Count

\* The pending packet adds up the segments that are back.
LEMMA PartialIs ==
  ASSUME IInv
  PROVE  PartialResponse
<1> DEFINE held == Contents(crossbar.downBuffers, crossbar.upBuffers, Ins, Banks, Outs, link)
           tags == crossbar.pendingSegTag
           pending == crossbar.pendingSegPacket
<1>1. Good(held, tags, pending, accepted, accessed, answered)
  BY DEF IInv, InOrder
<1> HIDE DEF held
<1>2. /\ tags \in Seq(Tag) /\ pending \in Seq(PacketType)
      /\ \A m, n \in 1 .. Len(pending) : pending[m].tag = pending[n].tag => m = n
  BY <1>1 DEF Good, Kept
<1>3. ASSUME NEW n \in 1 .. Len(pending), NEW q, q = pending[n], NEW back,
             back = SegmentCount(Requests[q.tag].size) - Count(tags, q.tag)
      PROVE  /\ \A m \in 1 .. Len(pending) : pending[m].tag = q.tag => m = n
             /\ q.lng = IF q.cmd = "RD" THEN 1 + back * BLOCK ELSE 1
             /\ q.trace => q.adrs = Requests[q.tag].adrs
             /\ back < SegmentCount(Requests[q.tag].size)
  <2> DEFINE t == q.tag
             c == Count(tags, t)
             pend == Of(t, ToSet(pending))
  <2>1. q \in PacketType /\ t \in Tag
    BY <1>2, <1>3, PacketFields
  <2>2. q \in pend
    BY <1>2, <1>3 DEF Of, ToSet
  <2>3. Stage(t, Of(t, Everything(held)), c, pend, t \in accepted, BlocksIn(accessed, t), answered[t])
    BY <1>1, <2>1 DEF Good, StageOf
  <2> HIDE DEF pend, c, tags, pending
  <2>4. \E A \in SUBSET Blocks(t) :
          Partial(t, A, q) /\ c > 0 /\ Cardinality(A) = SegmentCount(Requests[t].size) - c
    <3> DEFINE here == Of(t, Everything(held))
               in == t \in accepted
               acc == BlocksIn(accessed, t)
               a == answered[t]
    <3>1. Stage(t, here, c, pend, in, acc, a)
      BY <2>3
    <3> HIDE DEF here, in, acc, a, t
    <3>2. \A x \in pend : \E A \in SUBSET Blocks(t) :
            Partial(t, A, x) /\ c > 0 /\ Cardinality(A) = SegmentCount(Requests[t].size) - c
      BY <2>1, <3>1, StageTells
    <3> QED BY <2>2, <3>2
  <2>5. PICK A \in SUBSET Blocks(t) :
          Partial(t, A, q) /\ c > 0 /\ Cardinality(A) = SegmentCount(Requests[t].size) - c
    BY <2>4
  <2>6. q.lng = IF q.cmd = "RD" THEN 1 + back * BLOCK ELSE 1
    BY <1>3, <2>5 DEF Partial, c
  <2>7. q.trace => q.adrs = Requests[q.tag].adrs
    BY <2>5 DEF Partial
  <2>8. back < SegmentCount(Requests[q.tag].size)
    <3>1. c \in Nat /\ back = SegmentCount(Requests[t].size) - c
      BY <1>2, <1>3, CountFinite DEF c
    <3>2. SegmentCount(Requests[t].size) \in Nat
      BY <2>1, RequestFields, SegmentCounts
    <3> QED BY <2>5, <3>1, <3>2
  <2> QED BY <1>2, <1>3, <2>6, <2>7, <2>8
<1> QED BY <1>3 DEF PartialResponse, Count

\* Every buffer holds whole packets.
LEMMA WholeIs ==
  ASSUME IInv
  PROVE  BuffersWhole
<1>1. /\ vault \in [Vault -> VaultType]
      /\ Buffers(crossbar.downBuffers, crossbar.upBuffers, Ins, Outs, link)
  BY DEF IInv, InOrder
<1>2. \A v \in Vault : Ins[v] = vault[v].downBuffers /\ Outs[v] = vault[v].upBuffers
  BY <1>1, VaultsAre
<1> QED BY <1>1, <1>2 DEF BuffersWhole, Buffers, Tidy

\* No error exit.
LEMMA QuietIs ==
  ASSUME IInv
  PROVE  NoErrorExit
<1>1. crossbar.error = NoError
  BY DEF IInv, CrossbarType
<1> QED BY <1>1, Zenon DEF NoErrorExit, NoError

\* The responses on a link.
LEMMA LinkHolds ==
  ASSUME IInv, NEW l \in Link, NEW p \in Packets(link[l])
  PROVE  /\ p.tag \in Tag /\ p = Answer(p.tag)
         /\ \A b \in Blocks(p.tag) : <<p.tag, b>> \in accessed
<1> DEFINE held == Contents(crossbar.downBuffers, crossbar.upBuffers, Ins, Banks, Outs, link)
           x == <<"link", l>>
<1>1. Good(held, crossbar.pendingSegTag, crossbar.pendingSegPacket, accepted, accessed, answered)
  BY DEF IInv, InOrder
<1>2. HeldAt(held, crossbar.downBuffers, crossbar.upBuffers, Ins, Banks, Outs, link)
  BY ContentsAt
<1> HIDE DEF held
<1>3. p \in held[<<"link", l>>]
  BY <1>2 DEF HeldAt
<1>4. p.tag \in Tag /\ \A b \in Blocks(p.tag) : <<p.tag, b>> \in accessed
  BY <1>1, <1>3, GoodSend
<1>5. Admits(x, p)
  <2>1. x \in Place
    BY PlaceIn
  <2>2. p \in held[x]
    BY <1>3
  <2> HIDE DEF x
  <2> QED BY <1>1, <2>1, <2>2, PacketHere
<1>6. p = Answer(p.tag)
  BY <1>5 DEF Admits
<1> QED BY <1>4, <1>6

\* A response on a link has the length of its request.
LEMMA IntactIs ==
  ASSUME IInv, \A t \in Tag : Long(t) => Requests[t].size % BLOCK = 0
  PROVE  ResponseIntact
<1>1. ASSUME NEW l \in Link, NEW p \in Packets(link[l]), NEW t, t = p.tag
      PROVE  /\ p.adrs = Requests[t].adrs /\ p.trace /\ ~p.segment
             /\ p.lng = IF Requests[t].cmd = "RD" THEN 1 + Requests[t].size ELSE 1
             /\ \A b \in Blocks(t) : <<t, b>> \in accessed
  <2>1. t \in Tag /\ p = Answer(t) /\ \A b \in Blocks(t) : <<t, b>> \in accessed
    BY <1>1, LinkHolds
  <2>2. p.adrs = Requests[t].adrs /\ p.trace = TRUE /\ p.segment = FALSE
    BY <2>1, AnswerIs
  <2>3. Long(t) => SegmentCount(Requests[t].size) * BLOCK = Requests[t].size
    BY <2>1, RequestFields, SegmentCounts
  <2>4. p.lng = IF Requests[t].cmd = "RD"
                THEN 1 + IF Long(t) THEN SegmentCount(Requests[t].size) * BLOCK ELSE Requests[t].size
                ELSE 1
    BY <2>1, AnswerIs
  <2> QED BY <2>1, <2>2, <2>3, <2>4
<1> QED BY <1>1 DEF ResponseIntact

\* The invariant holds at first.
LEMMA InitIs ==
  ASSUME Init
  PROVE  IInv
<1> DEFINE held == Contents(<<>>, <<>>, Ins, Banks, Outs, link)
<1>1. /\ crossbar.downBuffers = <<>> /\ crossbar.upBuffers = <<>> /\ crossbar.pendingSegTag = <<>>
      /\ crossbar.pendingSegPacket = <<>> /\ crossbar.inServiceLink = -1 /\ crossbar.error = NoError
      /\ crossbar = [downBuffers |-> <<>>, upBuffers |-> <<>>, pendingSegTag |-> <<>>,
                     pendingSegPacket |-> <<>>, inServiceLink |-> -1, error |-> NoError]
  <2>1. crossbar = [downBuffers |-> <<>>, upBuffers |-> <<>>, pendingSegTag |-> <<>>,
                    pendingSegPacket |-> <<>>, inServiceLink |-> -1, error |-> NoError]
    BY Zenon DEF Init, NoError
  <2> QED BY <2>1
<1>2. /\ vault = [v \in Vault |-> [downBuffers |-> <<>>, banks |-> {}, upBuffers |-> <<>>]]
      /\ link = [l \in Link |-> <<>>] /\ accepted = {} /\ accessed = {}
      /\ answered = [t \in Tag |-> 0]
  BY Zenon DEF Init
<1>3. <<>> \in Seq(Flit) /\ <<>> \in Seq(Tag) /\ <<>> \in Seq(PacketType) /\ -1 \in Int
  OBVIOUS
<1>4. crossbar \in CrossbarType
  BY <1>1, <1>3 DEF CrossbarType
<1>5. vault \in [Vault -> VaultType]
  BY <1>2, <1>3 DEF VaultType
<1>6. Ins = [v \in Vault |-> <<>>] /\ Outs = [v \in Vault |-> <<>>] /\ Banks = [v \in Vault |-> {}]
  BY <1>2 DEF Ins, Outs, Banks
<1>7. MAX_VLT_BUF \in Nat /\ MAX_LINK_BUF \in Nat
  BY CrossbarAssumption
<1>8. Buffers(<<>>, <<>>, Ins, Outs, link)
  <2>1. Ins \in [Vault -> Seq(Flit)] /\ Outs \in [Vault -> Seq(Flit)] /\ link \in [Link -> Seq(Flit)]
    BY <1>2, <1>3, <1>6
  <2>2. /\ \A v \in Vault : Ins[v] = <<>> /\ Outs[v] = <<>>
        /\ \A l \in Link : link[l] = <<>>
    BY <1>2, <1>6
  <2>3. 0 <= MAX_VLT_BUF /\ 0 <= MAX_LINK_BUF
    BY <1>7
  <2> QED BY <2>1, <2>2, <2>3, TidyEmpty DEF Buffers
<1>9. held = [x \in Place |-> {}]
  <2>1. \A x \in Place : held[x] = {}
    <3>1. HeldAt(held, <<>>, <<>>, Ins, Banks, Outs, link)
      BY ContentsAt
    <3> HIDE DEF held
    <3>2. ASSUME NEW x \in Place PROVE held[x] = {}
      BY ZenonT(30), <1>2, <1>6, <3>1, Places, TidyEmpty DEF HeldAt
    <3> QED BY <3>2
  <2>2. held = [x \in Place |-> held[x]]
    BY ContentsFunction
  <2> HIDE DEF held
  <2> QED BY <2>1, <2>2
<1> HIDE DEF held
<1>10. Placed(held) /\ Everything(held) = {}
  BY <1>9 DEF Placed, Everything
<1>11. Kept(<<>>, <<>>, {}, {}, answered)
  <2>1. \A m \in 1 .. Len(<<>>) : FALSE
    OBVIOUS
  <2>2. answered \in [Tag -> Nat]
    BY <1>2
  <2> QED BY <1>3, <2>1, <2>2 DEF Kept
<1>12. ASSUME NEW t \in Tag PROVE StageOf(t, Of(t, Everything(held)), <<>>, <<>>, {}, {}, answered)
  <2>1. Of(t, Everything(held)) = {} /\ Count(<<>>, t) = 0 /\ BlocksIn({}, t) = {} /\ answered[t] = 0
    BY <1>2, <1>10, CountEmpty DEF Of, BlocksIn
  <2>2. Of(t, ToSet(<<>>)) = {}
    <3>1. ToSet(<<>>) = {}
      BY DEF ToSet
    <3> QED BY <3>1 DEF Of
  <2> QED BY <2>1, <2>2 DEF StageOf, Stage
<1>13. Good(held, <<>>, <<>>, {}, {}, answered)
  BY <1>10, <1>11, <1>12 DEF Good
<1>14. InOrder(<<>>, Ins, Banks, Outs, <<>>, <<>>, accepted, accessed, answered, <<>>, link)
  BY <1>2, <1>8, <1>13 DEF InOrder, held
<1> QED BY <1>1, <1>4, <1>5, <1>14 DEF IInv

\* Each step keeps it.
LEMMA NextKeeps ==
  ASSUME IInv, [Next]_crossbarVars
  PROVE  IInv'
<1>1. CASE UNCHANGED crossbarVars
  BY <1>1 DEF crossbarVars, IInv, InOrder, Ins, Outs, Banks
<1>2. ASSUME NEW t \in Tag, ReceiveDown(t) PROVE IInv'
  BY <1>2, AcceptKeeps
<1>3. CASE CrossbarUpdate
  BY <1>3, UpdateKeeps
<1>4. ASSUME NEW v \in Vault, NEW i \in 1 .. Len(vault[v].downBuffers), ConvPacketIntoCMDs(v, i) PROVE IInv'
  BY <1>4, ConvKeeps
<1>5. ASSUME NEW v \in Vault, NEW p \in vault[v].banks, MakeRespondPacket(v, p) PROVE IInv'
  BY <1>5, RespondKeeps
<1>6. ASSUME NEW v \in Vault, ReceiveUp(v) PROVE IInv'
  BY <1>6, ReceiveUpKeeps
<1>7. ASSUME NEW l \in Link, SendResponse(l) PROVE IInv'
  BY <1>7, SendKeeps
<1> QED BY <1>1, <1>2, <1>3, <1>4, <1>5, <1>6, <1>7 DEF Next, VaultStep

\* The invariant behind the theorems.
LEMMA AlwaysIInv == CrossbarSpec => []IInv
<1>1. Init => IInv
  BY InitIs
<1>2. IInv /\ [Next]_crossbarVars => IInv'
  BY NextKeeps
<1> QED BY <1>1, <1>2, PTL DEF CrossbarSpec

\* Whatever the requests, the sizes of the buffers and the numbers of links and
\* vaults, and in whatever order responses come back: every buffer holds whole
\* packets, the tags in pendingSegTag are those of the segments under way, the
\* pending packet of a request is the sum of the segments that are back, and a
\* segment always finds its tag, so the exit at CrossbarSwitch.cpp:133 is
\* unreachable (divided at CrossbarSwitch.cpp:68-90, joined at 110-174).
THEOREM Consistent == CrossbarSpec => []CrossbarInv
<1>1. IInv => CrossbarInv
  BY WholeIs, QuietIs, AccountedIs, PartialIs DEF CrossbarInv
<1> QED BY <1>1, AlwaysIInv, PTL

\* A response on a link has its request's address and trace and the length of its
\* data, and all of the request's blocks are accessed by then.  A request longer
\* than a block is assumed to be a whole number of blocks: DivideRequest rounds up,
\* and a response joined from its segments has the data of whole blocks.
THEOREM ResponsesIntact ==
  ASSUME \A t \in Tag : Long(t) => Requests[t].size % BLOCK = 0
  PROVE  CrossbarSpec => []ResponseIntact
<1>1. IInv => ResponseIntact
  BY IntactIs
<1> QED BY <1>1, AlwaysIInv, PTL

\* The crossbar with its vaults implements CubeMemory: a request's blocks are
\* accessed once each, after it is accepted, and it is answered once, after all of
\* them, though its packet is divided, its segments are accessed in any order and
\* their responses come back interleaved with those of other requests.
THEOREM ImplementsMemory == CrossbarSpec => AnswersOnce
<1>1. Init => Memory!Init
  BY Zenon DEF Init, Memory!Init
<1>2. IInv /\ [Next]_crossbarVars => [Memory!Next]_(Memory!memoryVars)
  <2> SUFFICES ASSUME IInv, [Next]_crossbarVars
               PROVE  Memory!Next \/ UNCHANGED <<accepted, accessed, answered>>
    BY DEF Memory!memoryVars
  <2>1. CASE UNCHANGED crossbarVars
    BY <2>1 DEF crossbarVars
  <2>2. ASSUME NEW t \in Tag, ReceiveDown(t) PROVE Memory!Next
    <3>1. Memory!Accept(t)
      BY <2>2 DEF ReceiveDown, Memory!Accept
    <3> QED BY <3>1 DEF Memory!Next
  <2>3. CASE CrossbarUpdate
    BY <2>3, Zenon DEF CrossbarUpdate
  <2>4. ASSUME NEW v \in Vault, NEW i \in 1 .. Len(vault[v].downBuffers), ConvPacketIntoCMDs(v, i)
        PROVE  UNCHANGED <<accepted, accessed, answered>>
    BY <2>4 DEF ConvPacketIntoCMDs
  <2>5. ASSUME NEW v \in Vault, NEW p \in vault[v].banks, MakeRespondPacket(v, p) PROVE Memory!Next
    <3> DEFINE t == p.tag
               b == p.adrs
    <3>1. t \in accepted /\ t \in Tag /\ b \in Blocks(t) /\ <<t, b>> \notin accessed
      BY <2>5, RespondKeeps
    <3>2. /\ accessed' = accessed \cup {<<t, b>>} /\ accepted' = accepted /\ answered' = answered
      BY <2>5 DEF MakeRespondPacket
    <3> HIDE DEF t, b
    <3>3. Memory!Access(t, b)
      BY <3>1, <3>2 DEF Memory!Access
    <3> QED BY <3>1, <3>3 DEF Memory!Next
  <2>6. ASSUME NEW v \in Vault, ReceiveUp(v) PROVE UNCHANGED <<accepted, accessed, answered>>
    BY <2>6 DEF ReceiveUp
  <2>7. ASSUME NEW l \in Link, SendResponse(l) PROVE Memory!Next
    <3> DEFINE t == link[l][1].tag
    <3>1. t \in Tag /\ answered[t] = 0 /\ \A b \in Blocks(t) : <<t, b>> \in accessed
      BY <2>7, SendKeeps
    <3>2. /\ answered' = [answered EXCEPT ![t] = @ + 1] /\ accepted' = accepted /\ accessed' = accessed
      BY <2>7 DEF SendResponse
    <3> HIDE DEF t
    <3>3. answered' = [answered EXCEPT ![t] = 1]
      BY <3>1, <3>2
    <3>4. Memory!Answer(t)
      BY <3>1, <3>2, <3>3 DEF Memory!Answer
    <3> QED BY <3>1, <3>4 DEF Memory!Next
  <2> QED BY <2>1, <2>2, <2>3, <2>4, <2>5, <2>6, <2>7 DEF Next, VaultStep
<1> QED BY <1>1, <1>2, AlwaysIInv, PTL DEF CrossbarSpec, AnswersOnce, Memory!Spec
=============================================================================
