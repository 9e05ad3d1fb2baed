-------------------------- MODULE Gem5Port_proofs --------------------------
(***************************************************************************)
(* Proofs about Gem5Port, for any set of packets, any size of the queue,   *)
(* any address map, any order of completions, refusals and drains.  The    *)
(* first invariant, PortInv, asks nothing of the packets or of the clock;  *)
(* the second, Matched, needs Aligned, PlainPackets and WholeTicks.        *)
(***************************************************************************)
EXTENDS Gem5Port, SequenceTheorems, FiniteSetTheorems, TLAPS

Reads == {p \in Packet : Requests[p].isRead}
Writes == {p \in Packet : ~Requests[p].isRead /\ Requests[p].isWrite}
ReadsAt(a) == {p \in Reads : Requests[p].addr = a}
WritesAt(a) == {p \in Writes : Requests[p].addr = a}

\* The packets whose transaction the simulator has.
UnderWay == downBuffers \cup inCube

\* Until an assert fails, the port counts as many transactions as the simulator
\* has, wherever they are counted: what relates its room to the controller's.
Room ==
  /\ downBuffers \cap inCube = {}
  /\ Running => Cardinality(UnderWay) = nbrOutstandingReads + nbrOutstandingWrites

\* Only reads wait in outstandingReads: each will have a response.
ReadsWait == outstandingReads \in [Addr -> Seq(Reads)]

PortInv == TypeOK /\ ReadsWait /\ Room /\ ResponseScheduled /\ DrainSignalled

\* The transactions under way are those of the packets that wait, in all and per
\* address: a completion finds a packet.
Matched ==
  /\ Running
  /\ drift = 0
  /\ UnderWay \subseteq Reads \cup Writes
  /\ nbrOutstandingReads = Cardinality(UnderWay \cap Reads)
  /\ nbrOutstandingWrites = Cardinality(UnderWay \cap Writes)
  /\ \A a \in Addr :
       /\ Len(outstandingReads[a]) = Cardinality(UnderWay \cap ReadsAt(a))
       /\ Len(outstandingWrites[a]) = Cardinality(UnderWay \cap WritesAt(a))

-----------------------------------------------------------------------------
(* Addresses.                                                              *)

\* Quotient and remainder.
LEMMA Division ==
  ASSUME NEW x \in Nat, NEW d \in Nat \ {0}
  PROVE  /\ x \div d \in Nat /\ x % d \in 0 .. d - 1
         /\ x = (x \div d) * d + (x % d)
OBVIOUS

LEMMA Quotient ==
  ASSUME NEW q \in Nat, NEW d \in Nat \ {0}
  PROVE  (q * d) \div d = q
OBVIOUS

LEMMA QuotientBound ==
  ASSUME NEW x \in Nat, NEW d \in Nat \ {0}, NEW n \in Nat, x < n * d
  PROVE  x \div d < n
OBVIOUS

\* The response to a request has the request's address cut to the capacity and to
\* whole blocks (VaultController.cpp:477-513, HMCController.cpp:83): the bank,
\* column and row that the vault keeps of it do not hold the offset in the block.
THEOREM AddressReturned ==
  \A a \in Nat : LET m == a % CAPACITY IN ResponseAddress(a) = m - (m % ADDRESS_MAPPING)
<1> SUFFICES ASSUME NEW a \in Nat
             PROVE  ResponseAddress(a) = (a % CAPACITY) - ((a % CAPACITY) % ADDRESS_MAPPING)
  OBVIOUS
<1> DEFINE b == ADDRESS_MAPPING
           K == Blocks
           m == a % CAPACITY
           block == m \div b
           inVault == block \div NUM_VAULTS
           inBank == inVault \div NUM_BANKS
           row == inBank \div K
<1>1. /\ b \in Nat \ {0} /\ NUM_VAULTS \in Nat \ {0} /\ NUM_BANKS \in Nat \ {0}
      /\ NUM_ROWS \in Nat \ {0} /\ NUM_COLS = K * b
  BY AddressAssumption DEF Blocks
<1>2. K \in Nat \ {0}
  <2>1. K \in Nat
    BY <1>1, AddressAssumption, Division DEF Blocks
  <2>2. K # 0
    BY <1>1, <2>1, AddressAssumption
  <2> QED
    BY <2>1, <2>2
<1> HIDE DEF b, K
<1>3. CAPACITY = (((NUM_ROWS * K) * NUM_BANKS) * NUM_VAULTS) * b /\ CAPACITY \in Nat \ {0}
  <2>1. CAPACITY = (((NUM_ROWS * K) * NUM_BANKS) * NUM_VAULTS) * b
    BY <1>1, <1>2 DEF CAPACITY
  <2>2. \A x, y \in Nat \ {0} : x * y \in Nat \ {0}
    OBVIOUS
  <2> QED
    BY <1>1, <1>2, <2>1, <2>2
<1>4. m \in Nat /\ m < CAPACITY
  BY <1>3, Division
<1> HIDE DEF m
<1>5. /\ NUM_ROWS * K \in Nat /\ (NUM_ROWS * K) * NUM_BANKS \in Nat
      /\ ((NUM_ROWS * K) * NUM_BANKS) * NUM_VAULTS \in Nat
  BY <1>1, <1>2
<1>6. block \in Nat /\ block < ((NUM_ROWS * K) * NUM_BANKS) * NUM_VAULTS
  BY <1>1, <1>3, <1>4, <1>5, Division, QuotientBound
<1>7. m = block * b + (m % b) /\ m % b \in 0 .. b - 1
  BY <1>1, <1>4, Division
<1> HIDE DEF block
<1>8. inVault \in Nat /\ inVault < (NUM_ROWS * K) * NUM_BANKS
  BY <1>1, <1>5, <1>6, Division, QuotientBound
<1>9. block = inVault * NUM_VAULTS + (block % NUM_VAULTS)
  BY <1>1, <1>6, Division
<1> HIDE DEF inVault
<1>10. inBank \in Nat /\ inBank < NUM_ROWS * K
  BY <1>1, <1>5, <1>8, Division, QuotientBound
<1>11. inVault = inBank * NUM_BANKS + (inVault % NUM_BANKS)
  BY <1>1, <1>8, Division
<1> HIDE DEF inBank
<1>12. row \in Nat /\ row < NUM_ROWS
  BY <1>1, <1>2, <1>10, Division, QuotientBound
<1>13. inBank = row * K + (inBank % K) /\ inBank % K \in Nat
  BY <1>2, <1>10, Division
<1> HIDE DEF row
<1>14. row % NUM_ROWS = row
  BY <1>1, <1>12
<1>15. ((inBank % K) * b) \div b = inBank % K
  BY <1>1, <1>13, Quotient
<1>16. AddressMapping(m) = [bank |-> inVault % NUM_BANKS, col |-> (inBank % K) * b, row |-> row]
  BY <1>14 DEF AddressMapping, b, K, block, inVault, inBank, row
<1>17. VaultMap(m) = block % NUM_VAULTS
  BY DEF VaultMap, block, b
<1>18. ReverseAddressMapping(VaultMap(m), AddressMapping(m)) = block * b
  <2>1. ReverseAddressMapping(VaultMap(m), AddressMapping(m))
        = (((row * K + (((inBank % K) * b) \div b)) * NUM_BANKS + (inVault % NUM_BANKS))
           * NUM_VAULTS + (block % NUM_VAULTS)) * b
    BY <1>16, <1>17 DEF ReverseAddressMapping, K, b
  <2>2. row * K + (((inBank % K) * b) \div b) = inBank
    BY <1>13, <1>15
  <2> QED
    BY <1>9, <1>11, <2>1, <2>2
<1> QED
  <2>1. block * b = m - (m % b)
    <3>1. block * b \in Nat /\ m % b \in Nat
      BY <1>1, <1>6, <1>7
    <3> QED
      BY <1>4, <1>7, <3>1
  <2> QED
    BY <1>18, <2>1 DEF ResponseAddress, m, b

\* The address a callback reports is the packet's when it is a block's first.
LEMMA ReportedAddr ==
  ASSUME Aligned, NEW p \in Packet
  PROVE  Reported[p] = Requests[p].addr /\ Reported[p] \in Addr
<1> DEFINE a == Requests[p].addr
<1>1. a \in Nat /\ a < CAPACITY /\ a % ADDRESS_MAPPING = 0
  BY Gem5Assumption DEF Aligned
<1>2. CAPACITY \in Nat
  BY AddressAssumption DEF CAPACITY
<1>3. \A x, c \in Nat : x < c => x % c = x
  OBVIOUS
<1>4. a % CAPACITY = a
  BY <1>1, <1>2, <1>3
<1>5. ResponseAddress(a) = a - 0
  BY <1>1, <1>4, AddressReturned
<1> QED
  BY <1>1, <1>5 DEF Reported, Addr

-----------------------------------------------------------------------------
(* Counting and time.                                                      *)

LEMMA Added ==
  ASSUME NEW S, IsFiniteSet(S), NEW K, NEW p, p \notin S
  PROVE  Cardinality((S \cup {p}) \cap K)
         = IF p \in K THEN Cardinality(S \cap K) + 1 ELSE Cardinality(S \cap K)
<1>1. IsFiniteSet(S \cap K)
  BY FS_Subset
<1>2. CASE p \in K
  <2>1. (S \cup {p}) \cap K = (S \cap K) \cup {p}
    BY <1>2
  <2> QED
    BY <1>1, <1>2, <2>1, FS_AddElement
<1>3. CASE p \notin K
  <2>1. (S \cup {p}) \cap K = S \cap K
    BY <1>3
  <2> QED
    BY <1>3, <2>1
<1> QED
  BY <1>2, <1>3

LEMMA Removed ==
  ASSUME NEW S, IsFiniteSet(S), NEW K, NEW p \in S
  PROVE  Cardinality((S \ {p}) \cap K)
         = IF p \in K THEN Cardinality(S \cap K) - 1 ELSE Cardinality(S \cap K)
<1>1. IsFiniteSet(S \cap K)
  BY FS_Subset
<1>2. CASE p \in K
  <2>1. (S \ {p}) \cap K = (S \cap K) \ {p}
    BY <1>2
  <2> QED
    BY <1>1, <1>2, <2>1, FS_RemoveElement
<1>3. CASE p \notin K
  <2>1. (S \ {p}) \cap K = S \cap K
    BY <1>3
  <2> QED
    BY <1>3, <2>1
<1> QED
  BY <1>2, <1>3

LEMMA UnderWayFinite ==
  ASSUME TypeOK
  PROVE  /\ IsFiniteSet(UnderWay) /\ IsFiniteSet(downBuffers)
         /\ \A K : IsFiniteSet(UnderWay \cap K) /\ Cardinality(UnderWay \cap K) \in Nat
<1>1. UnderWay \in SUBSET Packet /\ downBuffers \in SUBSET Packet
  BY DEF TypeOK, UnderWay
<1>2. IsFiniteSet(UnderWay) /\ IsFiniteSet(downBuffers)
  BY <1>1, Gem5Assumption, FS_Subset
<1>3. ASSUME NEW K PROVE IsFiniteSet(UnderWay \cap K) /\ Cardinality(UnderWay \cap K) \in Nat
  BY <1>2, FS_Subset, FS_CardinalityType
<1> QED
  BY <1>2, <1>3

\* The next tick's drift; a period of whole ticks leaves none.
LEMMA NextTickDrift ==
  ASSUME TypeOK, NextTick
  PROVE  /\ drift' \in -PERIOD .. START
         /\ WholeTicks /\ drift = 0 => drift' = 0
<1>1. /\ PERIOD \in Nat /\ PARTS \in Nat \ {0} /\ START \in Nat /\ PERIOD >= PARTS
      /\ drift \in -PERIOD .. START
  BY Gem5Assumption DEF TypeOK
<1>2. PERIOD % PARTS \in Nat
  BY <1>1, Division
<1> QED
  BY <1>1, <1>2 DEF NextTick, WholeTicks

\* In whole ticks without drift, the cycle is the one gem5's time gives.
LEMMA CycleOfTime ==
  ASSUME drift = 0
  PROVE  CycleAgrees
BY Gem5Assumption DEF CycleAgrees

\* When the port's numbers leave room, so does the controller's buffer.
LEMMA RoomForRequest ==
  ASSUME PortInv, Running, CanAccept
  PROVE  CanAcceptTran
<1>1. Cardinality(downBuffers) <= Cardinality(UnderWay) /\ Cardinality(downBuffers) \in Nat
  BY UnderWayFinite, FS_Subset, FS_CardinalityType DEF PortInv, UnderWay
<1>2. Len(responseQueue) \in Nat
  BY LenProperties DEF PortInv, TypeOK
<1>3. Cardinality(UnderWay) = nbrOutstandingReads + nbrOutstandingWrites
  BY DEF PortInv, Room
<1> QED
  BY <1>1, <1>2, <1>3, Gem5Assumption
     DEF CanAccept, CanAcceptTran, nbrOutstanding, PortInv, TypeOK

\* What accessAndRespond does to the response queue.
LEMMA Responded ==
  ASSUME TypeOK, ResponseScheduled, NEW p \in Packet, accessAndRespond(p),
         UNCHANGED retryResp
  PROVE  /\ responseQueue' \in Seq(Packet) /\ sendResponseEvent' \in BOOLEAN
         /\ accessed' = accessed \cup {p}
         /\ ResponseScheduled'
         /\ Len(responseQueue') >= Len(responseQueue)
         /\ Requests[p].needsResponse => responseQueue' # <<>>
<1>1. /\ responseQueue \in Seq(Packet) /\ Len(responseQueue) \in Nat
      /\ sendResponseEvent \in BOOLEAN /\ retryResp \in BOOLEAN
  BY LenProperties DEF TypeOK
<1>2. CASE Requests[p].needsResponse
  <2>1. responseQueue' = Append(responseQueue, p)
    BY <1>2 DEF accessAndRespond
  <2>2. /\ responseQueue' \in Seq(Packet) /\ Len(responseQueue') = Len(responseQueue) + 1
        /\ responseQueue' # <<>>
    BY <1>1, <2>1, AppendProperties, EmptySeq
  <2>3. /\ sendResponseEvent' = (sendResponseEvent \/ ~retryResp)
        /\ accessed' = accessed \cup {p} /\ retryResp' = retryResp
    BY <1>2 DEF accessAndRespond
  <2>4. sendResponseEvent' \in BOOLEAN
    BY <2>3
  <2>5. ~(sendResponseEvent /\ retryResp)
    BY DEF ResponseScheduled
  <2>6. ResponseScheduled'
    <3>1. CASE retryResp
      <4>1. sendResponseEvent' = FALSE
        BY <2>3, <2>5, <3>1, Zenon
      <4> QED
        BY <2>2, <2>3, <3>1, <4>1, Zenon DEF ResponseScheduled
    <3>2. CASE ~retryResp
      <4>1. sendResponseEvent' = TRUE
        BY <2>3, <3>2, Zenon
      <4>2. retryResp' = FALSE
        BY <1>1, <2>3, <3>2
      <4> QED
        BY <2>2, <4>1, <4>2, Zenon DEF ResponseScheduled
    <3> QED
      BY <3>1, <3>2
  <2> QED
    BY <1>1, <2>2, <2>3, <2>4, <2>6
<1>3. CASE ~Requests[p].needsResponse
  BY <1>1, <1>3 DEF accessAndRespond, ResponseScheduled
<1> QED
  BY <1>2, <1>3
\* The count of the transactions under way in K when p comes or goes.
LEMMA CountsAdd ==
  ASSUME TypeOK, NEW p, p \notin UnderWay, NEW K
  PROVE  /\ Cardinality((UnderWay \cup {p}) \cap K)
            = Cardinality(UnderWay \cap K) + (IF p \in K THEN 1 ELSE 0)
         /\ Cardinality(UnderWay \cap K) \in Nat
<1>1. IsFiniteSet(UnderWay) /\ Cardinality(UnderWay \cap K) \in Nat
  BY UnderWayFinite
<1>2. Cardinality((UnderWay \cup {p}) \cap K)
      = IF p \in K THEN Cardinality(UnderWay \cap K) + 1 ELSE Cardinality(UnderWay \cap K)
  BY <1>1, Added
<1> QED
  BY <1>1, <1>2

LEMMA CountsRemove ==
  ASSUME TypeOK, NEW p \in UnderWay, NEW K
  PROVE  /\ Cardinality((UnderWay \ {p}) \cap K)
            = Cardinality(UnderWay \cap K) - (IF p \in K THEN 1 ELSE 0)
         /\ Cardinality(UnderWay \cap K) \in Nat
<1>1. IsFiniteSet(UnderWay) /\ Cardinality(UnderWay \cap K) \in Nat
  BY UnderWayFinite
<1>2. Cardinality((UnderWay \ {p}) \cap K)
      = IF p \in K THEN Cardinality(UnderWay \cap K) - 1 ELSE Cardinality(UnderWay \cap K)
  BY <1>1, Removed
<1> QED
  BY <1>1, <1>2

-----------------------------------------------------------------------------
(* PortInv is inductive, whatever the packets, the map and the clock.      *)

LEMMA InitPort == Init => PortInv
<1> SUFFICES ASSUME Init PROVE PortInv
  OBVIOUS
<1>1. /\ <<>> \in Seq(Packet) /\ <<>> \in Seq(Reads) /\ Len(<<>>) = 0
  BY EmptySeq
<1>2. Room
  BY FS_EmptySet DEF Init, Room, UnderWay
<1>3. TypeOK /\ ReadsWait
  <2>1. /\ outstandingReads \in [Addr -> Seq(Packet)]
        /\ outstandingWrites \in [Addr -> Seq(Packet)]
        /\ outstandingReads \in [Addr -> Seq(Reads)]
        /\ responseQueue \in Seq(Packet) /\ answered \in [Packet -> Nat]
    BY <1>1 DEF Init
  <2>2. {retryReq, retryResp, sendResponseEvent, draining, assertFails} \subseteq BOOLEAN
    BY DEF Init
  <2>3. drift \in -PERIOD .. START
    BY Gem5Assumption DEF Init
  <2> QED
    BY <2>1, <2>2, <2>3, Gem5Assumption DEF Init, TypeOK, ReadsWait
<1> QED
  BY <1>2, <1>3 DEF Init, PortInv, ResponseScheduled, DrainSignalled

\* What recvTimingReq does to either map, and a completion undoes.
LEMMA Queued ==
  ASSUME NEW S, NEW o \in [Addr -> Seq(S)], NEW a \in Addr, NEW p \in S,
         NEW n, n = [o EXCEPT ![a] = Append(@, p)]
  PROVE  /\ n \in [Addr -> Seq(S)]
         /\ \A b \in Addr : /\ n[b] = IF b = a THEN Append(o[b], p) ELSE o[b]
                            /\ Len(n[b]) = Len(o[b]) + (IF b = a THEN 1 ELSE 0)
<1>1. \A b \in Addr : o[b] \in Seq(S) /\ Len(o[b]) \in Nat
  BY LenProperties
<1>2. \A b \in Addr : /\ Append(o[b], p) \in Seq(S)
                      /\ Len(Append(o[b], p)) = Len(o[b]) + 1
  BY <1>1, AppendProperties
<1>3. \A b \in Addr : n[b] = IF b = a THEN Append(o[b], p) ELSE o[b]
  OBVIOUS
<1>4. n = [b \in Addr |-> n[b]]
  OBVIOUS
<1>5. ASSUME NEW b \in Addr PROVE Len(n[b]) = Len(o[b]) + (IF b = a THEN 1 ELSE 0)
  BY <1>1, <1>2, <1>3
<1> QED
  BY <1>1, <1>2, <1>3, <1>4, <1>5

LEMMA Unqueued ==
  ASSUME NEW S, NEW o \in [Addr -> Seq(S)], NEW a \in Addr, o[a] # <<>>,
         NEW n, n = [o EXCEPT ![a] = Tail(@)]
  PROVE  /\ n \in [Addr -> Seq(S)] /\ Head(o[a]) \in S
         /\ \A b \in Addr : /\ n[b] = IF b = a THEN Tail(o[b]) ELSE o[b]
                            /\ Len(n[b]) = Len(o[b]) - (IF b = a THEN 1 ELSE 0)
<1>1. \A b \in Addr : o[b] \in Seq(S) /\ Len(o[b]) \in Nat
  BY LenProperties
<1>2. /\ Tail(o[a]) \in Seq(S) /\ Len(Tail(o[a])) = Len(o[a]) - 1
      /\ Head(o[a]) \in S
  BY <1>1, HeadTailProperties
<1>3. \A b \in Addr : n[b] = IF b = a THEN Tail(o[b]) ELSE o[b]
  OBVIOUS
<1>4. n = [b \in Addr |-> n[b]]
  OBVIOUS
<1>5. ASSUME NEW b \in Addr PROVE Len(n[b]) = Len(o[b]) - (IF b = a THEN 1 ELSE 0)
  BY <1>1, <1>2, <1>3
<1> QED
  BY <1>1, <1>2, <1>3, <1>4, <1>5

LEMMA AcceptPort ==
  ASSUME PortInv, NEW p \in Packet, Accept(p)
  PROVE  /\ PortInv'
         /\ UnderWay' = UnderWay \cup {p} /\ p \notin UnderWay
         /\ assertFails' = assertFails /\ drift' = drift
<1>1. /\ p \notin UnderWay /\ p \notin accepted
      /\ Running /\ UNCHANGED <<retryReq, retryResp, inCube, draining, answered, drift>>
      /\ accepted' = accepted \cup {p}
  BY DEF PortInv, TypeOK, UnderWay, Accept
<1>2. CanAcceptTran /\ CanAccept
  BY RoomForRequest DEF Accept
<1>3. downBuffers' = downBuffers \cup {p} /\ assertFails' = assertFails
  BY <1>2 DEF Accept
<1>4. UnderWay' = UnderWay \cup {p}
  BY <1>1, <1>3 DEF UnderWay
<1>5. /\ TypeOK /\ ReadsWait /\ Room /\ ResponseScheduled
      /\ Requests[p].addr \in Addr
      /\ nbrOutstandingReads \in Nat /\ nbrOutstandingWrites \in Nat
      /\ Len(responseQueue) \in Nat
  BY LenProperties DEF PortInv, TypeOK, Addr
<1>6. nbrOutstandingReads + nbrOutstandingWrites + 1 <= QUEUE_SIZE
  BY <1>2, <1>5, Gem5Assumption DEF CanAccept, nbrOutstanding
<1>7. /\ downBuffers' \cap inCube' = {}
      /\ Cardinality(UnderWay') = nbrOutstandingReads + nbrOutstandingWrites + 1
  <2>1. IsFiniteSet(UnderWay)
    BY <1>5, UnderWayFinite
  <2>2. Cardinality(UnderWay') = Cardinality(UnderWay) + 1
    BY <1>1, <1>4, <2>1, FS_AddElement
  <2> QED
    BY <1>1, <1>3, <1>5, <2>2 DEF Room, UnderWay
<1>8. CASE AcceptRead(p)
  <2>1. /\ p \in Reads
        /\ outstandingReads' = [outstandingReads EXCEPT ![Requests[p].addr] = Append(@, p)]
        /\ nbrOutstandingReads' = nbrOutstandingReads + 1
        /\ UNCHANGED <<outstandingWrites, nbrOutstandingWrites>>
        /\ UNCHANGED <<responseQueue, sendResponseEvent, accessed>>
    BY <1>8 DEF AcceptRead, Reads, responding
  <2>2. /\ outstandingReads' \in [Addr -> Seq(Packet)]
        /\ outstandingReads' \in [Addr -> Seq(Reads)]
    <3>1. outstandingReads \in [Addr -> Seq(Packet)] /\ outstandingReads \in [Addr -> Seq(Reads)]
      BY <1>5 DEF TypeOK, ReadsWait
    <3>2. outstandingReads' \in [Addr -> Seq(Packet)]
      BY <1>5, <2>1, <3>1, Queued
    <3>3. outstandingReads' \in [Addr -> Seq(Reads)]
      BY <1>5, <2>1, <3>1, Queued
    <3> QED
      BY <3>2, <3>3
  <2>3. /\ nbrOutstandingReads' \in Nat
        /\ nbrOutstandingReads' + nbrOutstandingWrites <= QUEUE_SIZE
    BY <1>5, <1>6, <2>1
  <2>4. TypeOK' /\ ReadsWait'
    BY <1>1, <1>3, <1>5, <2>1, <2>2, <2>3 DEF TypeOK, ReadsWait
  <2>5. Room'
    BY <1>5, <1>7, <2>1 DEF Room
  <2>6. ResponseScheduled'
    BY <1>1, <1>5, <2>1 DEF ResponseScheduled
  <2>7. DrainSignalled'
    BY <1>5, <2>1 DEF DrainSignalled, nbrOutstanding
  <2> QED
    BY <1>1, <1>3, <1>4, <2>4, <2>5, <2>6, <2>7 DEF PortInv
<1>9. CASE AcceptWrite(p)
  <2>1. /\ outstandingWrites' = [outstandingWrites EXCEPT ![Requests[p].addr] = Append(@, p)]
        /\ nbrOutstandingWrites' = nbrOutstandingWrites + 1
        /\ UNCHANGED <<outstandingReads, nbrOutstandingReads>>
        /\ accessAndRespond(p)
    BY <1>9 DEF AcceptWrite
  <2>2. /\ responseQueue' \in Seq(Packet) /\ sendResponseEvent' \in BOOLEAN
        /\ accessed' = accessed \cup {p} /\ ResponseScheduled'
    BY <1>1, <1>5, <2>1, Responded
  <2>3. outstandingWrites' \in [Addr -> Seq(Packet)]
    <3>1. outstandingWrites \in [Addr -> Seq(Packet)]
      BY <1>5 DEF TypeOK
    <3> QED
      BY <1>5, <2>1, <3>1, Queued
  <2>4. /\ nbrOutstandingWrites' \in Nat
        /\ nbrOutstandingReads + nbrOutstandingWrites' <= QUEUE_SIZE
    BY <1>5, <1>6, <2>1
  <2>5. TypeOK' /\ ReadsWait'
    BY <1>1, <1>3, <1>5, <2>1, <2>2, <2>3, <2>4 DEF TypeOK, ReadsWait
  <2>6. Room'
    BY <1>5, <1>7, <2>1 DEF Room
  <2>7. DrainSignalled'
    <3>1. Len(responseQueue') \in Nat
      BY <2>2, LenProperties
    <3> QED
      BY <1>5, <2>1, <3>1 DEF DrainSignalled, nbrOutstanding
  <2> QED
    BY <1>1, <1>3, <1>4, <2>2, <2>5, <2>6, <2>7 DEF PortInv
<1> QED
  BY <1>8, <1>9 DEF Accept

LEMMA AcceptOtherPort ==
  ASSUME PortInv, NEW p \in Packet, AcceptOther(p)
  PROVE  PortInv'
<1>1. /\ UNCHANGED <<retryReq, retryResp, draining, answered, drift, assertFails,
                     downBuffers, inCube>>
      /\ UNCHANGED <<outstandingReads, outstandingWrites,
                     nbrOutstandingReads, nbrOutstandingWrites>>
      /\ accepted' = accepted \cup {p}
      /\ accessAndRespond(p)
  BY DEF AcceptOther, counters, memory
<1>2. TypeOK /\ ReadsWait /\ Room /\ ResponseScheduled /\ DrainSignalled
  BY DEF PortInv
<1>3. /\ responseQueue' \in Seq(Packet) /\ sendResponseEvent' \in BOOLEAN
      /\ accessed' = accessed \cup {p} /\ ResponseScheduled'
      /\ Len(responseQueue') >= Len(responseQueue)
  BY <1>1, <1>2, Responded
<1>4. TypeOK' /\ ReadsWait'
  BY <1>1, <1>2, <1>3 DEF TypeOK, ReadsWait
<1>5. Room'
  BY <1>1, <1>2 DEF Room, UnderWay, Running
<1>6. DrainSignalled'
  <2>1. Len(responseQueue) \in Nat /\ Len(responseQueue') \in Nat
    BY <1>2, <1>3, LenProperties DEF TypeOK
  <2> QED
    BY <1>1, <1>2, <1>3, <2>1 DEF DrainSignalled, nbrOutstanding, TypeOK
<1> QED
  BY <1>3, <1>4, <1>5, <1>6 DEF PortInv

LEMMA TickIdlePort ==
  ASSUME PortInv, NEW T \in SUBSET downBuffers, TickIdle(T)
  PROVE  PortInv' /\ UnderWay' = UnderWay
<1>1. /\ UNCHANGED <<retryResp, draining, accepted, accessed, answered, assertFails>>
      /\ UNCHANGED <<outstandingReads, outstandingWrites, nbrOutstandingReads,
                     nbrOutstandingWrites, responseQueue, sendResponseEvent>>
      /\ downBuffers' = downBuffers \ T /\ inCube' = inCube \cup T
      /\ retryReq' \in BOOLEAN /\ NextTick
  BY DEF TickIdle, RetryOwed, counters, responding, gem5
<1>2. TypeOK /\ ReadsWait /\ Room /\ ResponseScheduled /\ DrainSignalled
  BY DEF PortInv
<1>3. UnderWay' = UnderWay /\ downBuffers' \cap inCube' = {}
  BY <1>1, <1>2 DEF UnderWay, Room
<1>4. drift' \in -PERIOD .. START
  BY <1>1, <1>2, NextTickDrift
<1>5. TypeOK' /\ ReadsWait'
  BY <1>1, <1>2, <1>4 DEF TypeOK, ReadsWait
<1>6. Room'
  BY <1>1, <1>2, <1>3 DEF Room, Running
<1>7. ResponseScheduled' /\ DrainSignalled'
  BY <1>1, <1>2 DEF ResponseScheduled, DrainSignalled, nbrOutstanding
<1> QED
  BY <1>3, <1>5, <1>6, <1>7 DEF PortInv

LEMMA TickCompletePort ==
  ASSUME PortInv, NEW T \in SUBSET downBuffers, NEW p \in inCube, TickComplete(T, p)
  PROVE  PortInv' /\ UnderWay' = UnderWay \ {p}
<1>1. /\ UNCHANGED <<retryResp, accepted, answered>>
      /\ downBuffers' = downBuffers \ T /\ inCube' = (inCube \ {p}) \cup T
      /\ retryReq' \in BOOLEAN /\ NextTick /\ Running
  BY DEF TickComplete, RetryOwed
<1>2. TypeOK /\ ReadsWait /\ Room /\ ResponseScheduled /\ DrainSignalled
  BY DEF PortInv
<1>3. /\ p \in UnderWay /\ p \in Packet
      /\ UnderWay' = UnderWay \ {p} /\ downBuffers' \cap inCube' = {}
  BY <1>1, <1>2 DEF UnderWay, Room, TypeOK
<1>4. /\ nbrOutstandingReads \in Nat /\ nbrOutstandingWrites \in Nat
      /\ Len(responseQueue) \in Nat
      /\ outstandingReads \in [Addr -> Seq(Packet)]
      /\ outstandingReads \in [Addr -> Seq(Reads)]
      /\ outstandingWrites \in [Addr -> Seq(Packet)]
      /\ nbrOutstandingReads + nbrOutstandingWrites <= QUEUE_SIZE
  BY <1>2, LenProperties DEF TypeOK, ReadsWait
<1>5. drift' \in -PERIOD .. START
  BY <1>1, <1>2, NextTickDrift
<1>6. /\ Cardinality(UnderWay') = nbrOutstandingReads + nbrOutstandingWrites - 1
      /\ downBuffers' \subseteq accepted' /\ inCube' \subseteq accepted'
      /\ accepted' \subseteq Packet /\ answered' \in [Packet -> Nat]
  <2>1. IsFiniteSet(UnderWay)
    BY <1>2, UnderWayFinite
  <2>2. Cardinality(UnderWay') = Cardinality(UnderWay) - 1
    BY <1>3, <2>1, FS_RemoveElement
  <2> QED
    BY <1>1, <1>2, <2>2 DEF Room, TypeOK
<1>7. CASE assertFails' = TRUE /\ UNCHANGED <<counters, responding, draining>>
  <2>1. /\ UNCHANGED <<outstandingReads, outstandingWrites, nbrOutstandingReads,
                       nbrOutstandingWrites, responseQueue, sendResponseEvent, accessed>>
        /\ assertFails' = TRUE /\ draining' = draining
    BY <1>7 DEF counters, responding
  <2>2. {retryReq', retryResp', sendResponseEvent', draining', assertFails'} \subseteq BOOLEAN
    BY <1>1, <1>2, <2>1 DEF TypeOK
  <2>3. TypeOK' /\ ReadsWait'
    BY <1>1, <1>2, <1>5, <1>6, <2>1, <2>2 DEF TypeOK, ReadsWait
  <2>4. Room'
    BY <1>3, <2>1 DEF Room, Running
  <2>5. ResponseScheduled' /\ DrainSignalled'
    BY <1>1, <1>2, <2>1 DEF ResponseScheduled, DrainSignalled, nbrOutstanding
  <2> QED
    BY <1>3, <2>3, <2>4, <2>5 DEF PortInv
<1>8. CASE readComplete(p) /\ assertFails' # TRUE
  <2> DEFINE a == Reported[p]
             q == outstandingReads[a]
  <2>1. /\ a \in Addr /\ q # <<>> /\ nbrOutstandingReads # 0
        /\ outstandingReads' = [outstandingReads EXCEPT ![a] = Tail(@)]
        /\ nbrOutstandingReads' = nbrOutstandingReads - 1
        /\ accessAndRespond(Head(q))
        /\ UNCHANGED <<outstandingWrites, nbrOutstandingWrites, assertFails, draining>>
    BY <1>8 DEF readComplete, Finds
  <2> HIDE DEF a
  <2>2. outstandingReads' \in [Addr -> Seq(Packet)] /\ Head(q) \in Packet
    BY <1>4, <2>1, Unqueued
  <2>3. outstandingReads' \in [Addr -> Seq(Reads)] /\ Head(q) \in Reads
    BY <1>4, <2>1, Unqueued
  <2>4. Requests[Head(q)].needsResponse
    BY <2>3, Gem5Assumption DEF Reads
  <2> HIDE DEF q
  <2>5. /\ responseQueue' \in Seq(Packet) /\ sendResponseEvent' \in BOOLEAN
        /\ accessed' = accessed \cup {Head(q)} /\ ResponseScheduled'
        /\ responseQueue' # <<>>
    BY <1>1, <1>2, <2>1, <2>2, <2>4, Responded
  <2>6. /\ nbrOutstandingReads' \in Nat
        /\ nbrOutstandingReads' + nbrOutstandingWrites <= QUEUE_SIZE
    BY <1>4, <2>1, Gem5Assumption
  <2>7. {retryReq', retryResp', sendResponseEvent', draining', assertFails'} \subseteq BOOLEAN
    BY <1>1, <1>2, <2>1, <2>5 DEF TypeOK
  <2>8. accessed' \subseteq Packet /\ outstandingWrites' \in [Addr -> Seq(Packet)]
    BY <1>2, <1>4, <2>1, <2>2, <2>5 DEF TypeOK
  <2>9. TypeOK' /\ ReadsWait'
    BY <1>4, <1>5, <1>6, <2>1, <2>2, <2>3, <2>5, <2>6, <2>7, <2>8 DEF TypeOK, ReadsWait
  <2>10. Room'
    BY <1>3, <1>4, <1>6, <2>1 DEF Room
  <2>11. DrainSignalled'
    <3>1. Len(responseQueue') \in Nat /\ Len(responseQueue') # 0
      BY <2>5, EmptySeq
    <3> QED
      BY <1>4, <2>1, <2>6, <3>1 DEF DrainSignalled, nbrOutstanding
  <2> QED
    BY <1>3, <2>5, <2>9, <2>10, <2>11 DEF PortInv
<1>9. CASE writeComplete(p) /\ assertFails' # TRUE
  <2> DEFINE a == Reported[p]
  <2>1. /\ a \in Addr /\ outstandingWrites[a] # <<>> /\ nbrOutstandingWrites # 0
        /\ outstandingWrites' = [outstandingWrites EXCEPT ![a] = Tail(@)]
        /\ nbrOutstandingWrites' = nbrOutstandingWrites - 1
        /\ draining' = (draining /\ nbrOutstanding # 1)
        /\ UNCHANGED <<outstandingReads, nbrOutstandingReads, assertFails>>
        /\ UNCHANGED <<responseQueue, sendResponseEvent, accessed>>
    BY <1>9 DEF writeComplete, Finds, responding
  <2> HIDE DEF a
  <2>2. outstandingWrites' \in [Addr -> Seq(Packet)]
    BY <1>4, <2>1, Unqueued
  <2>3. draining' \in BOOLEAN
    BY <2>1
  <2>4. /\ nbrOutstandingWrites' \in Nat
        /\ nbrOutstandingReads + nbrOutstandingWrites' <= QUEUE_SIZE
    BY <1>4, <2>1, Gem5Assumption
  <2>5. {retryReq', retryResp', sendResponseEvent', draining', assertFails'} \subseteq BOOLEAN
    BY <1>1, <1>2, <2>1, <2>3 DEF TypeOK
  <2>6. TypeOK' /\ ReadsWait'
    BY <1>2, <1>5, <1>6, <2>1, <2>2, <2>4, <2>5 DEF TypeOK, ReadsWait
  <2>7. Room'
    BY <1>3, <1>4, <1>6, <2>1 DEF Room
  <2>8. ResponseScheduled'
    BY <1>1, <1>2, <2>1 DEF ResponseScheduled
  <2>9. DrainSignalled'
    <3>1. draining' => draining /\ nbrOutstanding # 1
      BY <2>1
    <3>2. nbrOutstanding' = nbrOutstanding - 1 /\ nbrOutstanding \in Nat
      <4>1. /\ nbrOutstandingReads' = nbrOutstandingReads
            /\ nbrOutstandingWrites' = nbrOutstandingWrites - 1
            /\ Len(responseQueue') = Len(responseQueue)
        BY <2>1
      <4> QED
        BY <1>4, <4>1 DEF nbrOutstanding
    <3>3. nbrOutstanding # 1 => nbrOutstanding' # 0
      BY <3>2
    <3> QED
      BY <3>1, <3>3, Zenon DEF DrainSignalled
  <2> QED
    BY <1>3, <2>6, <2>7, <2>8, <2>9 DEF PortInv
<1>10. readComplete(p) \/ writeComplete(p)
  BY DEF TickComplete
<1>11. ASSUME assertFails' = TRUE PROVE UNCHANGED <<counters, responding, draining>>
  <2>1. assertFails = FALSE
    BY <1>1, <1>2 DEF Running, TypeOK
  <2> QED
    BY <1>10, <1>11, <2>1 DEF readComplete, writeComplete
<1> QED
  BY <1>7, <1>8, <1>9, <1>10, <1>11

\* sendResponse, which the event and the retry share.
LEMMA SendResponsePort ==
  ASSUME PortInv, NEW success \in BOOLEAN, responseQueue # <<>>, sendResponse(success),
         UNCHANGED <<retryReq, counters, memory, accepted, accessed, drift, assertFails>>
  PROVE  PortInv'
<1>1. /\ UNCHANGED <<retryReq, accepted, accessed, drift, assertFails, downBuffers, inCube>>
      /\ UNCHANGED <<outstandingReads, outstandingWrites,
                     nbrOutstandingReads, nbrOutstandingWrites>>
  BY DEF counters, memory
<1>2. TypeOK /\ ReadsWait /\ Room /\ ResponseScheduled /\ DrainSignalled
  BY DEF PortInv
<1>3. /\ responseQueue \in Seq(Packet) /\ Len(responseQueue) \in Nat \ {0}
      /\ Head(responseQueue) \in Packet
      /\ Tail(responseQueue) \in Seq(Packet)
      /\ Len(Tail(responseQueue)) = Len(responseQueue) - 1
  BY <1>2, HeadTailProperties, LenProperties, EmptySeq DEF TypeOK
<1>4. ReadsWait' /\ Room'
  BY <1>1, <1>2 DEF ReadsWait, Room, UnderWay, Running
<1>5. CASE success
  <2>1. /\ responseQueue' = Tail(responseQueue)
        /\ answered' = [answered EXCEPT ![Head(responseQueue)] = @ + 1]
        /\ sendResponseEvent' = (Len(responseQueue) > 1)
        /\ draining' = (draining /\ nbrOutstanding # 1)
        /\ retryResp' = FALSE
    BY <1>5 DEF sendResponse
  <2>2. answered' \in [Packet -> Nat]
    BY <1>2, <1>3, <2>1 DEF TypeOK
  <2>3. sendResponseEvent' \in BOOLEAN /\ draining' \in BOOLEAN /\ retryResp' \in BOOLEAN
    <3>1. sendResponseEvent' \in BOOLEAN
      BY <2>1
    <3>2. draining' \in BOOLEAN
      BY <2>1
    <3> QED
      BY <2>1, <3>1, <3>2
  <2>4. TypeOK'
    <3>1. responseQueue' \in Seq(Packet)
      BY <1>3, <2>1
    <3>2. {retryReq', retryResp', sendResponseEvent', draining', assertFails'} \subseteq BOOLEAN
      BY <1>1, <1>2, <2>3 DEF TypeOK
    <3> QED
      BY <1>1, <1>2, <2>2, <3>1, <3>2 DEF TypeOK
  <2>5. responseQueue' # <<>> <=> Len(responseQueue) > 1
    <3>1. Tail(responseQueue) # <<>> <=> Len(Tail(responseQueue)) # 0
      BY <1>3, EmptySeq
    <3> QED
      BY <1>3, <2>1, <3>1
  <2>6. ResponseScheduled'
    BY <2>1, <2>5 DEF ResponseScheduled
  <2>7. DrainSignalled'
    <3>1. draining' => draining /\ nbrOutstanding # 1
      BY <2>1
    <3>2. nbrOutstanding' = nbrOutstanding - 1 /\ nbrOutstanding \in Nat
      <4>1. /\ nbrOutstandingReads \in Nat /\ nbrOutstandingWrites \in Nat
            /\ nbrOutstandingReads' = nbrOutstandingReads
            /\ nbrOutstandingWrites' = nbrOutstandingWrites
            /\ Len(responseQueue') = Len(responseQueue) - 1
        BY <1>1, <1>2, <1>3, <2>1 DEF TypeOK
      <4> QED
        BY <1>3, <4>1 DEF nbrOutstanding
    <3>3. nbrOutstanding # 1 => nbrOutstanding' # 0
      BY <3>2
    <3> QED
      BY <3>1, <3>3, Zenon DEF DrainSignalled
  <2> QED
    BY <1>4, <2>4, <2>6, <2>7 DEF PortInv
<1>6. CASE ~success
  <2>1. /\ retryResp' = TRUE /\ sendResponseEvent' = FALSE
        /\ UNCHANGED <<responseQueue, draining, answered>>
    BY <1>6 DEF sendResponse
  <2>2. TypeOK'
    BY <1>1, <1>2, <2>1 DEF TypeOK
  <2>3. ResponseScheduled' /\ DrainSignalled'
    BY <1>1, <1>2, <2>1 DEF ResponseScheduled, DrainSignalled, nbrOutstanding
  <2> QED
    BY <1>4, <2>2, <2>3 DEF PortInv
<1> QED
  BY <1>5, <1>6

\* The event and the retry find a response, and send it as sendResponse does.
LEMMA SendsResponse ==
  ASSUME PortInv, NEW success \in BOOLEAN, ResponseEvent(success) \/ recvRespRetry(success)
  PROVE  /\ responseQueue # <<>> /\ sendResponse(success)
         /\ UNCHANGED <<retryReq, counters, memory, accepted, accessed, drift, assertFails>>
<1>1. CASE ResponseEvent(success)
  <2>1. ~retryResp /\ responseQueue # <<>>
    BY <1>1 DEF ResponseEvent, PortInv, ResponseScheduled
  <2> QED
    BY <1>1, <2>1 DEF ResponseEvent
<1>2. CASE recvRespRetry(success)
  <2>1. ~sendResponseEvent /\ responseQueue # <<>>
    BY <1>2 DEF recvRespRetry, PortInv, ResponseScheduled
  <2> QED
    BY <1>2, <2>1 DEF recvRespRetry
<1> QED
  BY <1>1, <1>2

LEMMA NextPort == PortInv /\ [Next]_portVars => PortInv'
<1> SUFFICES ASSUME PortInv, [Next]_portVars PROVE PortInv'
  OBVIOUS
<1>1. ASSUME NEW p \in Packet, Accept(p) \/ AcceptOther(p) \/ Refuse(p) PROVE PortInv'
  <2>1. CASE Refuse(p)
    BY <2>1
       DEF Refuse, PortInv, TypeOK, ReadsWait, Room, UnderWay, Running, ResponseScheduled,
           DrainSignalled, nbrOutstanding, counters, responding, memory, gem5
  <2> QED
    BY <1>1, <2>1, AcceptPort, AcceptOtherPort
<1>2. CASE Tick
  BY <1>2, TickIdlePort, TickCompletePort DEF Tick
<1>3. ASSUME NEW success \in BOOLEAN, ResponseEvent(success) \/ recvRespRetry(success)
      PROVE  PortInv'
  BY <1>3, SendsResponse, SendResponsePort
<1>4. CASE drain
  BY <1>4
     DEF drain, PortInv, TypeOK, ReadsWait, Room, UnderWay, Running, ResponseScheduled,
         DrainSignalled, nbrOutstanding, counters, responding, memory
<1>5. CASE UNCHANGED portVars
  BY <1>5
     DEF portVars, PortInv, TypeOK, ReadsWait, Room, UnderWay, Running, ResponseScheduled,
         DrainSignalled, nbrOutstanding, counters, responding, memory, gem5
<1> QED
  BY <1>1, <1>2, <1>3, <1>4, <1>5 DEF Next

LEMMA SpecPort == Spec => []PortInv
BY InitPort, NextPort, PTL DEF Spec

-----------------------------------------------------------------------------
(* The theorems that hold for all packets, maps and clocks.                *)

\* The variables keep their types, and the reads and writes under way never
\* exceed the queue.
THEOREM TypeCorrect == Spec => []TypeOK
BY SpecPort, PTL DEF PortInv

\* A request that the port has room for fits into the controller's buffer: the
\* assert at dramsim2.cc:224 does not fail.
THEOREM AcceptedFits == Spec => [](Running /\ CanAccept => CanAcceptTran)
<1>1. PortInv => (Running /\ CanAccept => CanAcceptTran)
  BY RoomForRequest
<1> QED
  BY <1>1, SpecPort, PTL

\* A response that waits always has its event or its retry to come.
THEOREM ResponsesScheduled == Spec => []ResponseScheduled
BY SpecPort, PTL DEF PortInv

\* gem5 never waits for the end of a drain that has already come.
THEOREM DrainsSignalled == Spec => []DrainSignalled
BY SpecPort, PTL DEF PortInv

-----------------------------------------------------------------------------
(* Matched is inductive, when the port is used as it needs to be.          *)

LEMMA InitMatched ==
  ASSUME WholeTicks, Init
  PROVE  Matched
<1>1. /\ UnderWay = {} /\ \A K : UnderWay \cap K = {}
  BY DEF Init, UnderWay
<1>2. Len(<<>>) = 0
  BY EmptySeq
<1> QED
  BY <1>1, <1>2, FS_EmptySet DEF Init, Matched, Running, WholeTicks

\* A read that comes is counted as one, at its address.
LEMMA ReadComes ==
  ASSUME PortInv, Matched, NEW p \in Reads, p \notin UnderWay,
         UnderWay' = UnderWay \cup {p}, assertFails' = assertFails, drift' = drift,
         outstandingReads' = [outstandingReads EXCEPT ![Requests[p].addr] = Append(@, p)],
         nbrOutstandingReads' = nbrOutstandingReads + 1,
         UNCHANGED <<outstandingWrites, nbrOutstandingWrites>>
  PROVE  Matched'
<1>1. TypeOK /\ p \in Packet /\ Requests[p].addr \in Addr /\ p \notin Writes
  BY DEF PortInv, Reads, Writes, Addr
<1>2. /\ Cardinality(UnderWay' \cap Reads) = Cardinality(UnderWay \cap Reads) + 1
      /\ Cardinality(UnderWay' \cap Writes) = Cardinality(UnderWay \cap Writes)
  <2>1. /\ Cardinality(UnderWay' \cap Reads)
           = Cardinality(UnderWay \cap Reads) + (IF p \in Reads THEN 1 ELSE 0)
        /\ Cardinality(UnderWay \cap Reads) \in Nat
    BY <1>1, CountsAdd
  <2>2. /\ Cardinality(UnderWay' \cap Writes)
           = Cardinality(UnderWay \cap Writes) + (IF p \in Writes THEN 1 ELSE 0)
        /\ Cardinality(UnderWay \cap Writes) \in Nat
    BY <1>1, CountsAdd
  <2> QED
    BY <1>1, <2>1, <2>2
<1>3. ASSUME NEW a \in Addr
      PROVE  /\ Len(outstandingReads'[a]) = Cardinality(UnderWay' \cap ReadsAt(a))
             /\ Len(outstandingWrites'[a]) = Cardinality(UnderWay' \cap WritesAt(a))
  <2>1. (p \in ReadsAt(a) <=> a = Requests[p].addr) /\ p \notin WritesAt(a)
    BY <1>1 DEF ReadsAt, WritesAt
  <2>2. /\ Cardinality(UnderWay' \cap ReadsAt(a))
           = Cardinality(UnderWay \cap ReadsAt(a)) + (IF p \in ReadsAt(a) THEN 1 ELSE 0)
        /\ Cardinality(UnderWay \cap ReadsAt(a)) \in Nat
    BY <1>1, CountsAdd
  <2>3. /\ Cardinality(UnderWay' \cap WritesAt(a))
           = Cardinality(UnderWay \cap WritesAt(a)) + (IF p \in WritesAt(a) THEN 1 ELSE 0)
        /\ Cardinality(UnderWay \cap WritesAt(a)) \in Nat
    BY <1>1, CountsAdd
  <2>4. Len(outstandingReads'[a]) = Len(outstandingReads[a]) + (IF a = Requests[p].addr THEN 1 ELSE 0)
    <3>1. outstandingReads \in [Addr -> Seq(Packet)]
      BY <1>1 DEF TypeOK
    <3> QED
      BY <1>1, <3>1, Queued
  <2>5. /\ Len(outstandingReads[a]) = Cardinality(UnderWay \cap ReadsAt(a))
        /\ Len(outstandingWrites[a]) = Cardinality(UnderWay \cap WritesAt(a))
    BY DEF Matched
  <2> QED
    BY <2>1, <2>2, <2>3, <2>4, <2>5
<1> QED
  BY <1>2, <1>3 DEF Matched, Running

\* The same for a write.
LEMMA WriteComes ==
  ASSUME PortInv, Matched, NEW p \in Writes, p \notin UnderWay,
         UnderWay' = UnderWay \cup {p}, assertFails' = assertFails, drift' = drift,
         outstandingWrites' = [outstandingWrites EXCEPT ![Requests[p].addr] = Append(@, p)],
         nbrOutstandingWrites' = nbrOutstandingWrites + 1,
         UNCHANGED <<outstandingReads, nbrOutstandingReads>>
  PROVE  Matched'
<1>1. TypeOK /\ p \in Packet /\ Requests[p].addr \in Addr /\ p \notin Reads
  BY DEF PortInv, Reads, Writes, Addr
<1>2. /\ Cardinality(UnderWay' \cap Writes) = Cardinality(UnderWay \cap Writes) + 1
      /\ Cardinality(UnderWay' \cap Reads) = Cardinality(UnderWay \cap Reads)
  <2>1. /\ Cardinality(UnderWay' \cap Reads)
           = Cardinality(UnderWay \cap Reads) + (IF p \in Reads THEN 1 ELSE 0)
        /\ Cardinality(UnderWay \cap Reads) \in Nat
    BY <1>1, CountsAdd
  <2>2. /\ Cardinality(UnderWay' \cap Writes)
           = Cardinality(UnderWay \cap Writes) + (IF p \in Writes THEN 1 ELSE 0)
        /\ Cardinality(UnderWay \cap Writes) \in Nat
    BY <1>1, CountsAdd
  <2> QED
    BY <1>1, <2>1, <2>2
<1>3. ASSUME NEW a \in Addr
      PROVE  /\ Len(outstandingReads'[a]) = Cardinality(UnderWay' \cap ReadsAt(a))
             /\ Len(outstandingWrites'[a]) = Cardinality(UnderWay' \cap WritesAt(a))
  <2>1. (p \in WritesAt(a) <=> a = Requests[p].addr) /\ p \notin ReadsAt(a)
    BY <1>1 DEF ReadsAt, WritesAt
  <2>2. /\ Cardinality(UnderWay' \cap ReadsAt(a))
           = Cardinality(UnderWay \cap ReadsAt(a)) + (IF p \in ReadsAt(a) THEN 1 ELSE 0)
        /\ Cardinality(UnderWay \cap ReadsAt(a)) \in Nat
    BY <1>1, CountsAdd
  <2>3. /\ Cardinality(UnderWay' \cap WritesAt(a))
           = Cardinality(UnderWay \cap WritesAt(a)) + (IF p \in WritesAt(a) THEN 1 ELSE 0)
        /\ Cardinality(UnderWay \cap WritesAt(a)) \in Nat
    BY <1>1, CountsAdd
  <2>4. Len(outstandingWrites'[a]) = Len(outstandingWrites[a]) + (IF a = Requests[p].addr THEN 1 ELSE 0)
    <3>1. outstandingWrites \in [Addr -> Seq(Packet)]
      BY <1>1 DEF TypeOK
    <3> QED
      BY <1>1, <3>1, Queued
  <2>5. /\ Len(outstandingReads[a]) = Cardinality(UnderWay \cap ReadsAt(a))
        /\ Len(outstandingWrites[a]) = Cardinality(UnderWay \cap WritesAt(a))
    BY DEF Matched
  <2> QED
    BY <2>1, <2>2, <2>3, <2>4, <2>5
<1> QED
  BY <1>2, <1>3 DEF Matched, Running

\* The completion of a transaction finds a packet and leaves the counts agreeing.
LEMMA CompletionMatched ==
  ASSUME Aligned, PlainPackets, WholeTicks, PortInv, Matched,
         NEW T \in SUBSET downBuffers, NEW p \in inCube, TickComplete(T, p)
  PROVE  Matched'
<1> DEFINE a == Requests[p].addr
<1>1. /\ p \in UnderWay /\ p \in Packet /\ TypeOK
      /\ UnderWay' = UnderWay \ {p}
      /\ drift = 0 /\ drift' = 0 /\ CycleAgrees
  <2>1. p \in UnderWay /\ p \in Packet /\ TypeOK /\ drift = 0
    BY DEF UnderWay, PortInv, TypeOK, Matched
  <2>2. NextTick
    BY DEF TickComplete
  <2> QED
    BY <2>1, <2>2, TickCompletePort, NextTickDrift, CycleOfTime
<1>2. Reported[p] = a /\ a \in Addr
  BY <1>1, ReportedAddr
<1> HIDE DEF a
<1>3. /\ outstandingReads \in [Addr -> Seq(Packet)]
      /\ outstandingWrites \in [Addr -> Seq(Packet)]
  BY <1>1 DEF TypeOK
<1>4. \A K : /\ Cardinality(UnderWay' \cap K)
                = Cardinality(UnderWay \cap K) - (IF p \in K THEN 1 ELSE 0)
             /\ Cardinality(UnderWay \cap K) \in Nat
             /\ p \in K => Cardinality(UnderWay \cap K) # 0
  <2> SUFFICES ASSUME NEW K
               PROVE  /\ Cardinality(UnderWay' \cap K)
                         = Cardinality(UnderWay \cap K) - (IF p \in K THEN 1 ELSE 0)
                      /\ Cardinality(UnderWay \cap K) \in Nat
                      /\ p \in K => Cardinality(UnderWay \cap K) # 0
    OBVIOUS
  <2>1. p \in K => Cardinality(UnderWay \cap K) # 0
    BY <1>1, UnderWayFinite, FS_EmptySet
  <2> QED
    BY <1>1, <2>1, CountsRemove
<1>5. \A b \in Addr :
        /\ Len(outstandingReads[b]) = Cardinality(UnderWay \cap ReadsAt(b))
        /\ Len(outstandingWrites[b]) = Cardinality(UnderWay \cap WritesAt(b))
  BY DEF Matched
<1>6. /\ nbrOutstandingReads = Cardinality(UnderWay \cap Reads)
      /\ nbrOutstandingWrites = Cardinality(UnderWay \cap Writes)
      /\ UnderWay \subseteq Reads \cup Writes
  BY DEF Matched
<1>7. CASE readComplete(p)
  <2>1. p \in Reads /\ p \notin Writes
    BY <1>1, <1>6, <1>7 DEF readComplete, Reads, Writes
  <2>2. \A b \in Addr : (p \in ReadsAt(b) <=> b = a) /\ p \notin WritesAt(b)
    BY <2>1 DEF ReadsAt, WritesAt, a
  <2>3. nbrOutstandingReads # 0 /\ Len(outstandingReads[a]) # 0
    BY <1>2, <1>4, <1>5, <1>6, <2>1, <2>2
  <2>4. outstandingReads[a] # <<>>
    BY <2>3, EmptySeq
  <2>5. /\ outstandingReads' = [outstandingReads EXCEPT ![a] = Tail(@)]
        /\ nbrOutstandingReads' = nbrOutstandingReads - 1
        /\ UNCHANGED <<outstandingWrites, nbrOutstandingWrites, assertFails>>
    BY <1>1, <1>2, <1>7, <2>3, <2>4 DEF readComplete, Finds
  <2>6. \A b \in Addr : Len(outstandingReads'[b])
                        = Len(outstandingReads[b]) - (IF b = a THEN 1 ELSE 0)
    BY <1>2, <1>3, <2>4, <2>5, Unqueued
  <2>7. /\ nbrOutstandingReads' = Cardinality(UnderWay' \cap Reads)
        /\ nbrOutstandingWrites' = Cardinality(UnderWay' \cap Writes)
    BY <1>4, <1>6, <2>1, <2>5
  <2>8. ASSUME NEW b \in Addr
        PROVE  /\ Len(outstandingReads'[b]) = Cardinality(UnderWay' \cap ReadsAt(b))
               /\ Len(outstandingWrites'[b]) = Cardinality(UnderWay' \cap WritesAt(b))
    <3>1. Len(outstandingReads'[b]) = Cardinality(UnderWay' \cap ReadsAt(b))
      BY <1>4, <1>5, <2>2, <2>6
    <3>2. Cardinality(UnderWay' \cap WritesAt(b)) = Cardinality(UnderWay \cap WritesAt(b))
      BY <1>4, <2>2
    <3>3. Len(outstandingWrites'[b]) = Cardinality(UnderWay' \cap WritesAt(b))
      BY <1>5, <2>5, <3>2
    <3> QED
      BY <3>1, <3>3
  <2> QED
    BY <1>1, <1>6, <2>5, <2>7, <2>8 DEF Matched, Running
<1>8. CASE writeComplete(p)
  <2>1. p \in Writes /\ p \notin Reads
    BY <1>1, <1>8 DEF writeComplete, Reads, Writes, PlainPackets
  <2>2. \A b \in Addr : (p \in WritesAt(b) <=> b = a) /\ p \notin ReadsAt(b)
    BY <2>1 DEF ReadsAt, WritesAt, a
  <2>3. nbrOutstandingWrites # 0 /\ Len(outstandingWrites[a]) # 0
    BY <1>2, <1>4, <1>5, <1>6, <2>1, <2>2
  <2>4. outstandingWrites[a] # <<>>
    BY <2>3, EmptySeq
  <2>5. /\ outstandingWrites' = [outstandingWrites EXCEPT ![a] = Tail(@)]
        /\ nbrOutstandingWrites' = nbrOutstandingWrites - 1
        /\ UNCHANGED <<outstandingReads, nbrOutstandingReads, assertFails>>
    BY <1>1, <1>2, <1>8, <2>3, <2>4 DEF writeComplete, Finds
  <2>6. \A b \in Addr : Len(outstandingWrites'[b])
                        = Len(outstandingWrites[b]) - (IF b = a THEN 1 ELSE 0)
    BY <1>2, <1>3, <2>4, <2>5, Unqueued
  <2>7. /\ nbrOutstandingReads' = Cardinality(UnderWay' \cap Reads)
        /\ nbrOutstandingWrites' = Cardinality(UnderWay' \cap Writes)
    BY <1>4, <1>6, <2>1, <2>5
  <2>8. ASSUME NEW b \in Addr
        PROVE  /\ Len(outstandingReads'[b]) = Cardinality(UnderWay' \cap ReadsAt(b))
               /\ Len(outstandingWrites'[b]) = Cardinality(UnderWay' \cap WritesAt(b))
    <3>1. Cardinality(UnderWay' \cap ReadsAt(b)) = Cardinality(UnderWay \cap ReadsAt(b))
      BY <1>4, <2>2
    <3>2. Len(outstandingReads'[b]) = Cardinality(UnderWay' \cap ReadsAt(b))
      BY <1>5, <2>5, <3>1
    <3>3. Len(outstandingWrites'[b]) = Cardinality(UnderWay' \cap WritesAt(b))
      BY <1>4, <1>5, <2>2, <2>6
    <3> QED
      BY <3>2, <3>3
  <2> QED
    BY <1>1, <1>6, <2>5, <2>7, <2>8 DEF Matched, Running
<1> QED
  BY <1>7, <1>8 DEF TickComplete

LEMMA NextMatched ==
  ASSUME Aligned, PlainPackets, WholeTicks, PortInv, Matched, [Next]_portVars
  PROVE  Matched'
<1> DEFINE Kept == UNCHANGED <<counters, memory, drift, assertFails>>
<1>1. ASSUME Kept PROVE Matched'
  BY <1>1 DEF Matched, UnderWay, Running, counters, memory
<1>2. ASSUME NEW p \in Packet, Accept(p) PROVE Matched'
  <2>1. /\ UnderWay' = UnderWay \cup {p} /\ p \notin UnderWay
        /\ assertFails' = assertFails /\ drift' = drift
    BY <1>2, AcceptPort
  <2>2. CASE AcceptRead(p)
    BY <2>1, <2>2, ReadComes DEF AcceptRead, Reads
  <2>3. CASE AcceptWrite(p)
    BY <2>1, <2>3, WriteComes DEF AcceptWrite, Writes
  <2> QED
    BY <1>2, <2>2, <2>3 DEF Accept
<1>3. ASSUME NEW p \in Packet, AcceptOther(p) \/ Refuse(p) PROVE Kept
  BY <1>3 DEF AcceptOther, Refuse
<1>4. ASSUME NEW T \in SUBSET downBuffers, TickIdle(T) PROVE Matched'
  <2>1. UnderWay' = UnderWay /\ UNCHANGED <<counters, assertFails>> /\ NextTick
    BY <1>4, TickIdlePort DEF TickIdle
  <2>2. drift' = 0
    BY <2>1, NextTickDrift DEF PortInv, Matched
  <2> QED
    BY <2>1, <2>2 DEF Matched, Running, counters
<1>5. ASSUME NEW success \in BOOLEAN, ResponseEvent(success) \/ recvRespRetry(success)
      PROVE  Kept
  BY <1>5, SendsResponse
<1>6. CASE drain \/ UNCHANGED portVars
  BY <1>1, <1>6 DEF drain, portVars
<1> QED
  BY <1>1, <1>2, <1>3, <1>4, <1>5, <1>6, CompletionMatched DEF Next, Tick

\* No assert of the port fails, in any order of completions, refusals and retries,
\* when every packet is a read or a write or neither but not both, its address is
\* the first of a block in the memory, and the clock's period is a whole number of
\* ticks that starts at a clock edge: what the port counts as room is room in the
\* controller, and a completion finds what it completes in the cycle it names.
\* TLC refutes it without any of the three (README, section 6).
THEOREM AssertsHold ==
  ASSUME Aligned, PlainPackets, WholeTicks
  PROVE  Spec => []NoAssertFails
<1>1. Init => PortInv /\ Matched
  BY InitPort, InitMatched
<1>2. PortInv /\ Matched /\ [Next]_portVars => (PortInv /\ Matched)'
  BY NextPort, NextMatched
<1>3. Matched => NoAssertFails
  BY DEF Matched, NoAssertFails
<1> QED
  BY <1>1, <1>2, <1>3, PTL DEF Spec

-----------------------------------------------------------------------------
(* How often a packet occurs in a queue.                                   *)

Times(q, p) == Cardinality({i \in DOMAIN q : q[i] = p})

LEMMA TimesType ==
  ASSUME NEW S, NEW q \in Seq(S), NEW p
  PROVE  /\ IsFiniteSet({i \in DOMAIN q : q[i] = p})
         /\ Times(q, p) \in Nat
<1>1. DOMAIN q = 1 .. Len(q) /\ Len(q) \in Nat
  BY LenProperties
<1>2. IsFiniteSet(DOMAIN q)
  BY <1>1, FS_Interval
<1> QED
  BY <1>2, FS_Subset, FS_CardinalityType DEF Times

LEMMA TimesEmpty == \A p : Times(<<>>, p) = 0
BY FS_EmptySet, EmptySeq DEF Times

LEMMA TimesAppend ==
  ASSUME NEW S, NEW q \in Seq(S), NEW x \in S, NEW p
  PROVE  Times(Append(q, x), p) = Times(q, p) + (IF x = p THEN 1 ELSE 0)
<1> DEFINE A == {i \in DOMAIN q : q[i] = p}
           n == Len(q) + 1
<1>1. /\ DOMAIN q = 1 .. Len(q) /\ Len(q) \in Nat
      /\ DOMAIN Append(q, x) = 1 .. n
      /\ \A i \in 1 .. Len(q) : Append(q, x)[i] = q[i]
      /\ Append(q, x)[n] = x
  BY LenProperties, AppendProperties
<1>2. {i \in DOMAIN Append(q, x) : Append(q, x)[i] = p} = IF x = p THEN A \cup {n} ELSE A
  BY <1>1
<1>3. n \notin A
  BY <1>1
<1>4. IsFiniteSet(A) /\ Cardinality(A) \in Nat
  BY TimesType DEF Times
<1>5. Times(Append(q, x), p) = IF x = p THEN Cardinality(A \cup {n}) ELSE Cardinality(A)
  BY <1>2 DEF Times
<1>6. Cardinality(A \cup {n}) = Cardinality(A) + 1
  BY <1>3, <1>4, FS_AddElement
<1>7. Times(q, p) = Cardinality(A)
  BY DEF Times
<1> HIDE DEF A, n
<1> QED
  BY <1>4, <1>5, <1>6, <1>7

LEMMA TimesTail ==
  ASSUME NEW S, NEW q \in Seq(S), q # <<>>, NEW p
  PROVE  Times(Tail(q), p) = Times(q, p) - (IF Head(q) = p THEN 1 ELSE 0)
<1> DEFINE A == {i \in DOMAIN q : q[i] = p}
           B == {i \in DOMAIN Tail(q) : Tail(q)[i] = p}
           f == [i \in B |-> i + 1]
<1>1. /\ DOMAIN q = 1 .. Len(q) /\ Len(q) \in Nat \ {0} /\ Head(q) = q[1]
      /\ DOMAIN Tail(q) = 1 .. Len(q) - 1
      /\ \A i \in 1 .. Len(q) - 1 : Tail(q)[i] = q[i + 1]
  BY LenProperties, HeadTailProperties, EmptySeq
<1>2. f \in Bijection(B, A \ {1})
  <2>1. \A i \in B : i \in Nat \ {0} /\ i + 1 \in A \ {1}
    BY <1>1
  <2>2. \A j \in A \ {1} : j - 1 \in B /\ f[j - 1] = j
    BY <1>1
  <2>3. f \in [B -> A \ {1}]
    BY <2>1
  <2>4. \A i, j \in B : f[i] = f[j] => i = j
    BY <2>1
  <2>5. \A j \in A \ {1} : \E i \in B : f[i] = j
    BY <2>2
  <2> QED
    BY <2>3, <2>4, <2>5 DEF Bijection, Injection, Surjection, IsInjective
<1>3. IsFiniteSet(A) /\ Cardinality(A) \in Nat /\ IsFiniteSet(B)
  BY TimesType, HeadTailProperties DEF Times
<1>4. Cardinality(A \ {1}) = Cardinality(B)
  BY <1>2, <1>3, FS_Bijection DEF ExistsBijection
<1>5. Cardinality(A \ {1}) = IF 1 \in A THEN Cardinality(A) - 1 ELSE Cardinality(A)
  BY <1>3, FS_RemoveElement
<1>6. 1 \in A <=> Head(q) = p
  BY <1>1
<1>7. Times(q, p) = Cardinality(A) /\ Times(Tail(q), p) = Cardinality(B)
  BY DEF Times
<1> HIDE DEF A, B, f
<1> QED
  BY <1>3, <1>4, <1>5, <1>6, <1>7

-----------------------------------------------------------------------------
(* AnsweredOnce.                                                           *)

\* The reads that wait under an address are reads of that address: the one that
\* is taken for a completion is counted where AnsweredOnce looks for it.
ReadsAtHome == \A a \in Addr : outstandingReads[a] \in Seq(ReadsAt(a))

\* The places of packet p, and how many it should be in.
Places(p) ==
  Times(outstandingReads[Requests[p].addr], p) + Times(responseQueue, p) + answered[p]
Due(p) == IF p \in accepted /\ Requests[p].needsResponse THEN 1 ELSE 0

LEMMA AnsweredOncePlaces == AnsweredOnce <=> \A p \in Packet : Places(p) = Due(p)
BY DEF AnsweredOnce, Places, Due, Times

LEMMA PlacesType ==
  ASSUME TypeOK, NEW p \in Packet
  PROVE  /\ Requests[p].addr \in Addr
         /\ Times(outstandingReads[Requests[p].addr], p) \in Nat
         /\ Times(responseQueue, p) \in Nat /\ answered[p] \in Nat
<1>1. Requests[p].addr \in Addr
  BY DEF Addr
<1>2. outstandingReads[Requests[p].addr] \in Seq(Packet) /\ responseQueue \in Seq(Packet)
  BY <1>1 DEF TypeOK
<1> QED
  BY <1>1, <1>2, TimesType DEF TypeOK

\* What accessAndRespond(x) adds to the response queue.
LEMMA RespondedTimes ==
  ASSUME TypeOK, NEW x \in Packet, accessAndRespond(x), NEW p \in Packet
  PROVE  Times(responseQueue', p)
         = Times(responseQueue, p) + (IF x = p /\ Requests[x].needsResponse THEN 1 ELSE 0)
<1>1. responseQueue \in Seq(Packet) /\ Times(responseQueue, p) \in Nat
  BY PlacesType DEF TypeOK
<1>2. CASE Requests[x].needsResponse
  <2>1. responseQueue' = Append(responseQueue, x)
    BY <1>2 DEF accessAndRespond
  <2>2. Times(Append(responseQueue, x), p) = Times(responseQueue, p) + (IF x = p THEN 1 ELSE 0)
    BY <1>1, TimesAppend
  <2> QED
    BY <1>2, <2>1, <2>2
<1>3. CASE ~Requests[x].needsResponse
  BY <1>1, <1>3 DEF accessAndRespond
<1> QED
  BY <1>2, <1>3

\* A packet that was not accepted is in no place.
LEMMA AcceptPlaces ==
  ASSUME TypeOK, ReadsAtHome, \A p \in Packet : Places(p) = Due(p),
         NEW x \in Packet, Accept(x) \/ AcceptOther(x)
  PROVE  ReadsAtHome' /\ \A p \in Packet : Places(p)' = Due(p)'
<1>1. x \notin accepted /\ accepted' = accepted \cup {x} /\ answered' = answered
  BY DEF Accept, AcceptOther
<1>2. CASE Accept(x) /\ AcceptRead(x)
  <2>1. /\ Requests[x].isRead /\ Requests[x].needsResponse
        /\ outstandingReads' = [outstandingReads EXCEPT ![Requests[x].addr] = Append(@, x)]
        /\ responseQueue' = responseQueue
    BY <1>2, Gem5Assumption DEF AcceptRead, responding
  <2>2. Requests[x].addr \in Addr /\ x \in ReadsAt(Requests[x].addr)
    BY <2>1 DEF Addr, ReadsAt, Reads
  <2>3. \A a \in Addr : outstandingReads'[a] =
          IF a = Requests[x].addr THEN Append(outstandingReads[a], x) ELSE outstandingReads[a]
    BY <2>1 DEF TypeOK
  <2>4. ReadsAtHome'
    <3> SUFFICES ASSUME NEW a \in Addr PROVE outstandingReads'[a] \in Seq(ReadsAt(a))
      BY DEF ReadsAtHome
    <3>1. outstandingReads[a] \in Seq(ReadsAt(a))
      BY DEF ReadsAtHome
    <3>2. CASE a = Requests[x].addr
      <4>1. Append(outstandingReads[a], x) \in Seq(ReadsAt(a))
        BY <2>2, <3>1, <3>2, AppendProperties
      <4> QED
        BY <2>3, <3>2, <4>1
    <3> QED
      BY <2>3, <3>1, <3>2
  <2>5. ASSUME NEW p \in Packet PROVE Places(p)' = Due(p)'
    <3> DEFINE a == Requests[p].addr
    <3>1. /\ a \in Addr /\ outstandingReads[a] \in Seq(Packet)
          /\ Times(outstandingReads[a], p) \in Nat
          /\ Times(responseQueue, p) \in Nat /\ answered[p] \in Nat
      BY PlacesType DEF TypeOK
    <3>2. Times(outstandingReads'[a], p)
          = Times(outstandingReads[a], p) + (IF x = p THEN 1 ELSE 0)
      <4>1. Times(Append(outstandingReads[a], x), p)
            = Times(outstandingReads[a], p) + (IF x = p THEN 1 ELSE 0)
        BY <3>1, TimesAppend
      <4>2. a # Requests[x].addr => x # p
        OBVIOUS
      <4> QED
        BY <2>3, <3>1, <4>1, <4>2
    <3>3. Places(p) = Due(p)
      OBVIOUS
    <3>4. Places(p)' = Places(p) + (IF x = p THEN 1 ELSE 0) /\ Places(p) \in Nat
      BY <1>1, <2>1, <3>1, <3>2 DEF Places
    <3>5. Due(p)' = Due(p) + (IF x = p THEN 1 ELSE 0)
      BY <1>1, <2>1 DEF Due
    <3> QED
      BY <3>3, <3>4, <3>5
  <2> QED
    BY <2>4, <2>5
<1>3. CASE (Accept(x) /\ AcceptWrite(x)) \/ AcceptOther(x)
  <2>1. outstandingReads' = outstandingReads /\ accessAndRespond(x)
    BY <1>3 DEF AcceptWrite, AcceptOther, counters
  <2>2. ASSUME NEW p \in Packet PROVE Places(p)' = Due(p)'
    <3>1. Places(p) = Due(p)
      OBVIOUS
    <3>2. Times(responseQueue', p)
          = Times(responseQueue, p) + (IF x = p /\ Requests[x].needsResponse THEN 1 ELSE 0)
      BY <2>1, RespondedTimes
    <3>3. Due(p)' = Due(p) + (IF x = p /\ Requests[x].needsResponse THEN 1 ELSE 0)
      BY <1>1 DEF Due
    <3>4. Places(p)' = Places(p) + (IF x = p /\ Requests[x].needsResponse THEN 1 ELSE 0)
      BY <1>1, <2>1, <3>2, PlacesType DEF Places
    <3> QED
      BY <3>1, <3>3, <3>4
  <2> QED
    BY <2>1, <2>2 DEF ReadsAtHome
<1> QED
  BY <1>2, <1>3 DEF Accept

\* The packet readComplete takes moves from the reads to the response queue.
LEMMA ReadCompletePlaces ==
  ASSUME PortInv, ReadsAtHome, \A p \in Packet : Places(p) = Due(p),
         NEW x \in Packet, readComplete(x), UNCHANGED <<accepted, answered>>
  PROVE  ReadsAtHome' /\ \A p \in Packet : Places(p)' = Due(p)'
<1> DEFINE b == Reported[x]
           q == outstandingReads[b]
<1>1. TypeOK
  BY DEF PortInv
<1>2. CASE assertFails' = TRUE /\ UNCHANGED <<counters, responding>>
  BY <1>2 DEF ReadsAtHome, Places, Due, counters, responding
<1>3. CASE /\ b \in Addr /\ q # <<>>
           /\ outstandingReads' = [outstandingReads EXCEPT ![b] = Tail(@)]
           /\ accessAndRespond(Head(q))
  <2>1. q \in Seq(ReadsAt(b)) /\ q \in Seq(Packet)
    BY <1>1, <1>3 DEF ReadsAtHome, TypeOK
  <2>2. /\ Head(q) \in ReadsAt(b) /\ Tail(q) \in Seq(ReadsAt(b))
        /\ Head(q) \in Packet /\ Requests[Head(q)].addr = b /\ Requests[Head(q)].needsResponse
    BY <1>3, <2>1, HeadTailProperties, Gem5Assumption DEF ReadsAt, Reads
  <2>3. \A a \in Addr : outstandingReads'[a] = IF a = b THEN Tail(q) ELSE outstandingReads[a]
    BY <1>1, <1>3 DEF TypeOK
  <2>4. ReadsAtHome'
    BY <2>2, <2>3 DEF ReadsAtHome
  <2>5. ASSUME NEW p \in Packet PROVE Places(p)' = Due(p)'
    <3> DEFINE a == Requests[p].addr
    <3>1. /\ a \in Addr /\ Times(outstandingReads[a], p) \in Nat
          /\ Times(responseQueue, p) \in Nat /\ answered[p] \in Nat
      BY <1>1, PlacesType
    <3>2. Times(Tail(q), p) = Times(q, p) - (IF Head(q) = p THEN 1 ELSE 0)
      BY <1>3, <2>1, TimesTail
    <3>3. Times(outstandingReads'[a], p)
          = Times(outstandingReads[a], p) - (IF Head(q) = p THEN 1 ELSE 0)
      BY <2>2, <2>3, <3>1, <3>2
    <3>4. Times(responseQueue', p)
          = Times(responseQueue, p) + (IF Head(q) = p THEN 1 ELSE 0)
      BY <1>1, <1>3, <2>2, RespondedTimes
    <3> HIDE DEF q, b
    <3>5. Places(p)' = Places(p)
      BY <3>1, <3>3, <3>4 DEF Places
    <3> QED
      BY <3>5 DEF Due
  <2> QED
    BY <2>4, <2>5
<1> QED
  BY <1>2, <1>3 DEF readComplete, Finds

\* A response that gem5 takes moves from the queue to those answered.
LEMMA SendPlaces ==
  ASSUME TypeOK, ReadsAtHome, \A p \in Packet : Places(p) = Due(p), responseQueue # <<>>,
         NEW success \in BOOLEAN, sendResponse(success),
         UNCHANGED <<outstandingReads, accepted>>
  PROVE  ReadsAtHome' /\ \A p \in Packet : Places(p)' = Due(p)'
<1>1. ReadsAtHome'
  BY DEF ReadsAtHome
<1>2. CASE success
  <2>1. /\ responseQueue' = Tail(responseQueue)
        /\ answered' = [answered EXCEPT ![Head(responseQueue)] = @ + 1]
    BY <1>2 DEF sendResponse
  <2>2. ASSUME NEW p \in Packet PROVE Places(p)' = Due(p)'
    <3>1. /\ Times(outstandingReads[Requests[p].addr], p) \in Nat
          /\ Times(responseQueue, p) \in Nat /\ answered[p] \in Nat
      BY PlacesType
    <3>2. Times(responseQueue', p)
          = Times(responseQueue, p) - (IF Head(responseQueue) = p THEN 1 ELSE 0)
      BY <2>1, TimesTail DEF TypeOK
    <3>3. answered'[p] = answered[p] + (IF Head(responseQueue) = p THEN 1 ELSE 0)
      BY <2>1 DEF TypeOK
    <3>4. Places(p)' = Places(p)
      BY <3>1, <3>2, <3>3 DEF Places
    <3> QED
      BY <3>4 DEF Due
  <2> QED
    BY <1>1, <2>2
<1>3. CASE ~success
  BY <1>1, <1>3 DEF sendResponse, Places, Due
<1> QED
  BY <1>2, <1>3

LEMMA NextPlaces ==
  PortInv /\ ReadsAtHome /\ AnsweredOnce /\ [Next]_portVars => ReadsAtHome' /\ AnsweredOnce'
<1> SUFFICES ASSUME PortInv, ReadsAtHome, \A p \in Packet : Places(p) = Due(p), [Next]_portVars
             PROVE  ReadsAtHome' /\ \A p \in Packet : Places(p)' = Due(p)'
  <2>1. AnsweredOnce' <=> \A p \in Packet : Places(p)' = Due(p)'
    BY DEF AnsweredOnce, Places, Due, Times
  <2> QED
    BY <2>1, AnsweredOncePlaces
<1> DEFINE Kept == UNCHANGED <<outstandingReads, responseQueue, accepted, answered>>
<1>1. ASSUME Kept PROVE ReadsAtHome' /\ \A p \in Packet : Places(p)' = Due(p)'
  BY <1>1 DEF ReadsAtHome, Places, Due
<1>2. TypeOK
  BY DEF PortInv
<1>3. ASSUME NEW p \in Packet, Accept(p) \/ AcceptOther(p) \/ Refuse(p)
      PROVE  ReadsAtHome' /\ \A r \in Packet : Places(r)' = Due(r)'
  <2>1. CASE Refuse(p)
    BY <1>1, <2>1 DEF Refuse, counters, responding, gem5
  <2> QED
    BY <1>2, <1>3, <2>1, AcceptPlaces
<1>4. ASSUME NEW T \in SUBSET downBuffers, TickIdle(T) PROVE Kept
  BY <1>4 DEF TickIdle, counters, responding, gem5
<1>5. ASSUME NEW T \in SUBSET downBuffers, NEW p \in inCube, TickComplete(T, p)
      PROVE  ReadsAtHome' /\ \A r \in Packet : Places(r)' = Due(r)'
  <2>1. p \in Packet /\ UNCHANGED <<accepted, answered>>
    BY <1>2, <1>5 DEF TickComplete, TypeOK
  <2>2. CASE readComplete(p)
    BY <2>1, <2>2, ReadCompletePlaces
  <2>3. CASE writeComplete(p)
    BY <1>1, <2>1, <2>3 DEF writeComplete, counters, responding
  <2> QED
    BY <1>5, <2>2, <2>3 DEF TickComplete
<1>6. ASSUME NEW success \in BOOLEAN, ResponseEvent(success) \/ recvRespRetry(success)
      PROVE  ReadsAtHome' /\ \A p \in Packet : Places(p)' = Due(p)'
  <2>1. /\ responseQueue # <<>> /\ sendResponse(success)
        /\ UNCHANGED <<outstandingReads, accepted>>
    BY <1>6, SendsResponse DEF counters
  <2> QED
    BY <1>2, <2>1, SendPlaces
<1>7. CASE drain \/ UNCHANGED portVars
  BY <1>1, <1>7 DEF drain, portVars, counters, responding, gem5
<1> QED
  BY <1>1, <1>3, <1>4, <1>5, <1>6, <1>7 DEF Next, Tick

\* Every packet that gem5 has handed over and that wants a response is in exactly
\* one place, and answered at most once, although completions name an address and
\* no packet, come in any order, and responses may be refused.  A completion with
\* another address answers nothing.
THEOREM EachAnsweredOnce == Spec => []AnsweredOnce
<1>1. Init => ReadsAtHome /\ AnsweredOnce
  <2> SUFFICES ASSUME Init PROVE ReadsAtHome /\ \A p \in Packet : Places(p) = Due(p)
    BY AnsweredOncePlaces
  <2>1. ReadsAtHome
    BY EmptySeq DEF Init, ReadsAtHome
  <2>2. ASSUME NEW p \in Packet PROVE Places(p) = Due(p)
    BY TimesEmpty DEF Init, Places, Due, Addr
  <2> QED
    BY <2>1, <2>2
<1> QED
  BY <1>1, NextPlaces, SpecPort, PTL DEF Spec
=============================================================================
