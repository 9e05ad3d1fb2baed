----------------------------- MODULE LinkLayer -----------------------------
(***************************************************************************)
(* One serial link of CasHMC: the two LinkMasters (LinkMaster.cpp), the    *)
(* two Links (Link.cpp) and the two LinkSlaves (LinkSlave.cpp) between the *)
(* HMC controller (the Host end) and the cube (the Cube end).              *)
(*                                                                         *)
(* master[e] sends to slave[Peer(e)]; slave[e]'s localLinkMaster is        *)
(* master[e], so an end's slave handler also writes its own master.        *)
(*                                                                         *)
(* Every Update() of an object is one action, and Next runs them in any    *)
(* order: the simulator orders them by three clocks (CPU, link, tCK) whose *)
(* periods are configuration, and what holds for every order holds for     *)
(* every ratio of the clocks.  LinkClock restricts the order to the        *)
(* wrapper's.  bufPopDelay and inFlightCountdown only postpone an action   *)
(* to a later Update and are part of the order; the CRC countdowns are     *)
(* kept, because one Update may decrement them more than once.             *)
(* Link power management (QUIET, NULL_, SLEEP) is off here:                *)
(* LINK_POWER = NO_MANAGEMENT.                                             *)
(***************************************************************************)
EXTENDS Integers, Sequences, FiniteSets, SequencesExt

CONSTANTS
  Host, Cube,            \* the two ends of the link
  NULL,                  \* an empty slot or pointer
  MAX_LINK_BUF,          \* master output and slave input buffer, in FLITs
  MAX_RETRY_BUF,         \* retry buffer slots, one per FLIT
  NUM_OF_IRTRY,          \* IRTRY packets per StartRetry or LinkRetry sequence
  RETRY_ATTEMPT_LIMIT,   \* time-outs after which a StartRetry is abandoned
  RETRY_TIMEOUT,         \* Updates until the retry timer expires (MAX_RETRY_BUF * 4)
  CRC_CHECK,             \* whether packets carry and are checked for a CRC
  CRC_CAL_CYCLE,         \* CRC_CAL_CYCLE[n]: Updates to compute the CRC of n FLITs,
                         \* ceil(CRC_CAL_CYCLE * LNG) in the code
  SEQ_MAX,               \* largest sequence number (7 in the code)
  Traffic,               \* Traffic[e]: lengths of the packets end e submits
  MAX_ERRORS             \* bound: transmissions hit by noise

End == {Host, Cube}
Peer(e) == IF e = Host THEN Cube ELSE Host
Slot == 0 .. MAX_RETRY_BUF - 1

ASSUME EndsAssumption == Host # Cube
ASSUME SizeAssumption ==
  /\ MAX_LINK_BUF \in Nat \ {0}
  /\ MAX_RETRY_BUF \in Nat \ {0}
  /\ NUM_OF_IRTRY \in Nat \ {0}
  /\ RETRY_ATTEMPT_LIMIT \in Nat \ {0}
  /\ RETRY_TIMEOUT \in Nat
  /\ CRC_CHECK \in BOOLEAN
  /\ SEQ_MAX \in Nat \ {0}
  /\ MAX_ERRORS \in Nat
ASSUME CRCAssumption == CRC_CAL_CYCLE \in [1 .. MAX_LINK_BUF -> Nat]
ASSUME TrafficAssumption ==
  \A e \in End : Traffic[e] \in Seq(1 .. MAX_LINK_BUF)

VARIABLES
  master,      \* LinkMaster objects, by end
  slave,       \* LinkSlave objects, by end
  inFlight,    \* Link::inFlightPacket of the link that leaves end e, or NULL
  submitted,   \* number of packets end e has been given so far
  delivered,   \* ids forwarded by slave[e] to the crossbar or HMC controller
  errors       \* noisy transmissions so far

linkVars == <<master, slave, inFlight, submitted, delivered, errors>>

-----------------------------------------------------------------------------
(* Packets.  lng counts FLITs; a DATA packet stands for any REQUEST or     *)
(* RESPONSE.  bad records that noise has inverted the CRC.  On an IRTRY    *)
(* the FRP field carries a flag: 1 StartRetry, 2 ClearErrorAbort.  In a    *)
(* buffer a packet is followed by lng - 1 NULLs, its virtual tail.         *)

StartRetryFlag == 1
ClearErrorFlag == 2

Packet ==
  {p \in [kind : {"DATA", "TRET", "PRET", "IRTRY"}, id : Nat,
          lng : 1 .. MAX_LINK_BUF, rtc : Nat, seq : 0 .. SEQ_MAX,
          rrp : Slot, frp : Nat, chkRRP : BOOLEAN, bad : BOOLEAN] :
     p.kind # "IRTRY" => p.frp \in Slot}

ASSUME NullAssumption == NULL \notin Packet

NewPacket(kind, id, lng) ==
  [kind |-> kind, id |-> id, lng |-> lng, rtc |-> 0, seq |-> 0,
   rrp |-> 0, frp |-> 0, chkRRP |-> FALSE, bad |-> FALSE]

IsFlow(p) == p.kind # "DATA"

\* Packet p as it lies in a buffer: with its virtual tail.
Flits(p) == <<p>> \o [i \in 1 .. p.lng - 1 |-> NULL]

\* Mutant of DataFlits: flow packets are counted as well.
DataFlitsAll(q) == Len(q)

\* The number of FLITs in buffer q that belong to DATA packets.
DataFlits(q) ==
  Cardinality({i \in 1 .. Len(q) :
    \E j \in 1 .. i : q[j] # NULL /\ ~IsFlow(q[j]) /\ i < j + q[j].lng})

IRTRY(m, flag) ==
  [i \in 1 .. NUM_OF_IRTRY |->
     [NewPacket("IRTRY", 0, 1) EXCEPT !.rrp = m.lastestRRP, !.frp = flag]]

\* An ERROR message and exit(0), or a crash; only the first one counts.
Fail(m, why) == [m EXCEPT !.error = IF @ = "" THEN why ELSE @]

-----------------------------------------------------------------------------
(* The retry buffer: a ring of slots with a read and a write pointer.      *)

\* Mutant of Wrap: a pointer may stand one past the last slot.
WrapOffByOne(p) == IF p <= MAX_RETRY_BUF THEN p ELSE p - MAX_RETRY_BUF

Wrap(p) == IF p < MAX_RETRY_BUF THEN p ELSE p - MAX_RETRY_BUF

\* Slot i lies on the way from pointer a (included) round to b (excluded).
InSpan(i, a, b) == IF a <= b THEN a <= i /\ i < b ELSE a <= i \/ i < b

\* Mutant of RetryRoom: the write pointer may catch up with the read pointer.
RetryRoomOffByOne(m, lng) ==
  IF m.retBufWriteP >= m.retBufReadP
  THEN m.retBufWriteP + lng - m.retBufReadP <= MAX_RETRY_BUF
  ELSE m.retBufReadP - (m.retBufWriteP + lng) >= 0

\* LinkMaster::Update's near-full test of the retry buffer.
RetryRoom(m, lng) ==
  IF m.retBufWriteP >= m.retBufReadP
  THEN m.retBufWriteP + lng - m.retBufReadP < MAX_RETRY_BUF
  ELSE m.retBufReadP - (m.retBufWriteP + lng) > 0

SpanLength(a, b) == IF a <= b THEN b - a ELSE b - a + MAX_RETRY_BUF

\* Mutant of Saved: the last FLIT is not sent again.
SavedOffByOne(m) ==
  [i \in 1 .. SpanLength(m.retBufReadP, m.retBufWriteP) - 1 |->
     m.retryBuffers[Wrap(m.retBufReadP + i - 1)]]

\* The slots between the pointers in the order they were filled.
Saved(m) ==
  [i \in 1 .. SpanLength(m.retBufReadP, m.retBufWriteP) |->
     m.retryBuffers[Wrap(m.retBufReadP + i - 1)]]

Freed(ring, a, b) == [i \in Slot |-> IF InSpan(i, a, b) THEN NULL ELSE ring[i]]

\* Mutants of UpdateRetryPointer: nothing is freed; one slot too many is freed.
UpdateRetryPointerOnly(m, rrp) == [m EXCEPT !.retBufReadP = rrp]

UpdateRetryPointerTooFar(m, rrp) ==
  [m EXCEPT !.retryBuffers = Freed(@, m.retBufReadP, Wrap(rrp + 1)), !.retBufReadP = rrp]

UpdateRetryPointer(m, rrp) ==
  [m EXCEPT !.retryBuffers = Freed(@, m.retBufReadP, rrp), !.retBufReadP = rrp]

-----------------------------------------------------------------------------
(* LinkMaster: the operations other objects call.                          *)

\* Mutants of ReturnRetryPointer: no PRET is made; an empty master forgets the FRP.
ReturnRetryPointerNoPRET(m, p) == [m EXCEPT !.lastestRRP = p.frp]

ReturnRetryPointerLost(m, p) ==
  IF m.Buffers # <<>> THEN [m EXCEPT !.lastestRRP = p.frp] ELSE m

ReturnRetryPointer(m, p) ==
  IF m.Buffers # <<>>
  THEN [m EXCEPT !.lastestRRP = p.frp]    \* UpdateField embeds it in the head
  ELSE [m EXCEPT !.lastestRRP = p.frp,
                 !.linkRxTx = Append(@, [NewPacket("PRET", 0, 1) EXCEPT !.rrp = p.frp])]

\* Mutant of UpdateToken: the tokens are set, not added.
UpdateTokenSets(m, p) == IF p.rtc # 0 THEN [m EXCEPT !.tokenCount = p.rtc] ELSE m

UpdateToken(m, p) ==
  LET n == [m EXCEPT !.tokenCount = @ + p.rtc]
  IN  IF p.rtc # 0 /\ n.tokenCount > MAX_LINK_BUF THEN Fail(n, "token overflow") ELSE n

FirstPacket(q) == {i \in 1 .. Len(q) : q[i] # NULL /\ \A j \in 1 .. i - 1 : q[j] = NULL}

\* The tokens of a forwarded packet ride on the first packet of Buffers if it
\* can be sent with the tokens at hand; otherwise on a new TRET, which goes to
\* the front of Buffers or just behind a head whose CRC is being computed.
ReturnTocken(m, p) ==
  LET tret == [NewPacket("TRET", 0, 1) EXCEPT !.rtc = p.lng]
      first == FirstPacket(m.Buffers)
      headLng == Head(m.Buffers).lng
  IN  IF \E i \in first : m.Buffers[i].lng <= m.tokenCount
      THEN [m EXCEPT !.Buffers =
              [i \in 1 .. Len(m.Buffers) |->
                 IF i \in first THEN [m.Buffers[i] EXCEPT !.rtc = @ + p.lng]
                 ELSE m.Buffers[i]]]
      ELSE IF m.currentState = "LINK_RETRY"
      THEN [m EXCEPT !.backupBuffers = Append(@, tret)]
      ELSE IF ~m.startCRC
      THEN [m EXCEPT !.Buffers = <<tret>> \o @]
      ELSE IF 1 \in first /\ headLng <= Len(m.Buffers)
      THEN [m EXCEPT !.Buffers = SubSeq(@, 1, headLng) \o <<tret>>
                                 \o SubSeq(@, headLng + 1, Len(@))]
      ELSE Fail(m, "insertion past the end of Buffers")

\* LinkMaster::StartRetry: the local slave saw an error, or the timer expired.
StartRetry(m) ==
  IF m.currentState = "LINK_RETRY"
  THEN [m EXCEPT !.startRetryTimer = TRUE, !.retryTimer = 0, !.readyStartRetry = TRUE]
  ELSE [m EXCEPT !.startRetryTimer = TRUE, !.retryTimer = 0,
                 !.linkRxTx = IRTRY(m, StartRetryFlag) \o @,
                 !.currentState = "START_RETRY"]

\* LinkMaster::LinkRetry: the other end asks for the saved packets again.
LinkRetry(m) ==
  LET n == [m EXCEPT !.startCRC = FALSE,
                     !.linkRxTx = @ \o IRTRY(m, ClearErrorFlag),
                     !.masterSEQ = 0,
                     !.backupBuffers = @ \o m.Buffers,
                     !.Buffers = <<>>]
  IN  IF m.retryBuffers[m.retBufReadP] = NULL
      THEN Fail(n, "first retry packet is NULL")
      ELSE IF m.retBufReadP = m.retBufWriteP
      THEN Fail(n, "retry buffer has no packets")
      ELSE [n EXCEPT !.Buffers = Saved(m),
                     !.retryBuffers = Freed(@, m.retBufReadP, m.retBufWriteP),
                     !.tokenCount = @ + DataFlits(Saved(m)),
                     !.retBufWriteP = m.retBufReadP,
                     !.currentState = "LINK_RETRY"]

\* Mutants of FinishRetry: the packet that started the retry is kept; the state is kept.
FinishRetryKeepsPacket(m) ==
  [m EXCEPT !.currentState = "ACTIVE", !.retryAttempts = 1,
            !.startRetryTimer = FALSE, !.retryTimer = 0]

FinishRetryKeepsState(m) ==
  [m EXCEPT !.retryStartPacket = FALSE, !.retryAttempts = 1,
            !.startRetryTimer = FALSE, !.retryTimer = 0]

FinishRetry(m) ==
  [m EXCEPT !.currentState = "ACTIVE", !.retryStartPacket = FALSE,
            !.retryAttempts = 1, !.startRetryTimer = FALSE, !.retryTimer = 0]

-----------------------------------------------------------------------------
(* LinkMaster::Update.                                                     *)

\* LinkMaster::UpdateField: number the head of Buffers, save a copy in the
\* retry buffer and hand it to the link.
UpdateField(m) ==
  LET lng == Head(m.Buffers).lng
      p == [Head(m.Buffers) EXCEPT
              !.seq = IF m.masterSEQ < SEQ_MAX THEN m.masterSEQ ELSE 0,
              !.rrp = m.lastestRRP,
              !.frp = Wrap(m.retBufWriteP + lng),
              !.bad = FALSE]
      n == [m EXCEPT !.masterSEQ = IF @ < SEQ_MAX THEN @ + 1 ELSE @,
                     !.startCRC = FALSE,
                     !.tokenCount = IF IsFlow(p) THEN @ ELSE @ - lng]
      tail == {Wrap(m.retBufWriteP + i) : i \in 1 .. lng - 1}
  IN  IF m.retryBuffers[m.retBufWriteP] # NULL
      THEN Fail(n, "retry slot is not NULL")
      ELSE [n EXCEPT !.retryBuffers =
                       [i \in Slot |-> IF i = m.retBufWriteP THEN p
                                       ELSE IF i \in tail THEN NULL
                                       ELSE m.retryBuffers[i]],
                     !.retBufWriteP = p.frp,
                     !.linkRxTx = Append(@, p),
                     !.Buffers = SubSeq(@, lng + 1, Len(@))]

\* LinkMaster::CRCCountdown: the delay before UpdateField.
CRCCountdown(m) ==
  LET c == IF m.startCRC THEN m.countdownCRC ELSE CRC_CAL_CYCLE[Head(m.Buffers).lng]
  IN  IF CRC_CHECK /\ c > 0
      THEN [m EXCEPT !.startCRC = TRUE, !.countdownCRC = c - 1]
      ELSE [UpdateField(m) EXCEPT !.countdownCRC = 0]

SendHead(m) ==
  IF m.Buffers = <<>> THEN m
  ELSE IF Head(m.Buffers) = NULL THEN Fail(m, "Buffers[0] is NULL")
  ELSE IF /\ m.linkRxTx = <<>>
          /\ IsFlow(Head(m.Buffers)) \/ Head(m.Buffers).lng <= m.tokenCount
          /\ RetryRoom(m, Head(m.Buffers).lng)
  THEN CRCCountdown(m)
  ELSE m

\* Mutant of FinishLinkRetry: the backup packets are not restored.
FinishLinkRetryKeepsBackup(m) ==
  IF m.currentState = "LINK_RETRY" /\ m.Buffers = <<>> /\ m.linkRxTx = <<>>
  THEN [m EXCEPT !.currentState = "ACTIVE"] ELSE m

\* The LINK_RETRY state ends when everything queued has been handed over.
FinishLinkRetry(m) ==
  LET n == [m EXCEPT !.Buffers = m.backupBuffers, !.backupBuffers = <<>>]
  IN  IF ~(m.currentState = "LINK_RETRY" /\ m.Buffers = <<>> /\ m.linkRxTx = <<>>)
      THEN m
      ELSE IF ~m.readyStartRetry
      THEN [n EXCEPT !.currentState = "ACTIVE"]
      ELSE IF ~m.retryStartPacket
      THEN Fail(m, "retryStartPacket is NULL")
      ELSE [n EXCEPT !.readyStartRetry = FALSE,
                     !.linkRxTx = IRTRY(m, StartRetryFlag),
                     !.currentState = "START_RETRY"]

\* Mutant of RunRetryTimer: the timer expires when the last IRTRY is sent.
RunRetryTimerEarly(m) ==
  IF m.retryTimer <= NUM_OF_IRTRY
  THEN [m EXCEPT !.retryTimer = IF m.startRetryTimer THEN @ + 1 ELSE @]
  ELSE FinishRetry(m)

RunRetryTimer(m) ==
  LET n == [m EXCEPT !.retryTimer = IF m.startRetryTimer THEN @ + 1 ELSE @]
  IN  IF n.retryTimer <= RETRY_TIMEOUT THEN n
      ELSE IF n.retryAttempts = RETRY_ATTEMPT_LIMIT THEN FinishRetry(n)
      ELSE StartRetry([n EXCEPT !.retryAttempts = @ + 1])

-----------------------------------------------------------------------------
(* LinkSlave::Update.  An intermediate state of the handler is a pair of   *)
(* the slave s and its local link master m.                                *)

RemoveRx(s, k) ==
  [s EXCEPT !.linkRxTx = SubSeq(@, 1, k - 1) \o SubSeq(@, k + 1, Len(@))]

\* The packet's CRC is to be checked: not a PRET or IRTRY, which are consumed
\* at once, and not in error abort mode, where the packet is dropped.
NeedsCheck(s, k) ==
  s.linkRxTx[k].kind \in {"DATA", "TRET"} /\ s.currentState # "START_RETRY"

\* countdownCRC as the loop finds it at the k-th packet: one countdown serves
\* all packets that wait, and each packet the loop passes decrements it.
CountdownAt(s, k) ==
  (IF s.startCRC THEN s.countdownCRC ELSE CRC_CAL_CYCLE[s.linkRxTx[1].lng]) - (k - 1)

Waits(s, k) == CRC_CHECK /\ NeedsCheck(s, k) /\ CountdownAt(s, k) > 0

\* The loop passes over the packets that wait and breaks at the first other
\* one, k; it runs to the end when k is one past the last.
BreaksAt(s, k) ==
  /\ k <= Len(s.linkRxTx) => ~Waits(s, k)
  /\ \A j \in 1 .. k - 1 : Waits(s, j)

\* Flow control of the packets the loop passes over for the first time.
PassOver(m, s, k) ==
  LET new     == {j \in 1 .. k - 1 : ~s.linkRxTx[j].chkRRP}
      from(j) == IF j - 1 \in new THEN s.linkRxTx[j - 1].rrp ELSE m.retBufReadP
  IN  [m |-> [m EXCEPT
                !.retryBuffers =
                   [i \in Slot |-> IF \E j \in new : InSpan(i, from(j), s.linkRxTx[j].rrp)
                                   THEN NULL ELSE m.retryBuffers[i]],
                !.retBufReadP = IF k - 1 \in new THEN s.linkRxTx[k - 1].rrp ELSE @],
       s |-> [s EXCEPT
                !.linkRxTx = [j \in 1 .. Len(@) |->
                                IF j < k THEN [s.linkRxTx[j] EXCEPT !.chkRRP = TRUE]
                                ELSE s.linkRxTx[j]],
                !.startCRC = @ \/ k > 1,
                !.countdownCRC = IF k = 1 THEN @
                                 ELSE IF CountdownAt(s, k) > 0 THEN CountdownAt(s, k)
                                 ELSE 0]]

ReceiveIRTRY(m0, s, k) ==
  LET p == s.linkRxTx[k]
      m == UpdateRetryPointer(m0, p.rrp)
      rest == RemoveRx(s, k)
  IN  IF p.frp = StartRetryFlag /\ m.currentState # "LINK_RETRY"
      THEN [m |-> LinkRetry(m), s |-> rest]
      ELSE IF p.frp = ClearErrorFlag /\ m.currentState \in {"START_RETRY", "LINK_RETRY"}
      THEN [m |-> FinishRetry(m),
            s |-> [rest EXCEPT !.currentState = "ACTIVE", !.slaveSEQ = 0]]
      ELSE [m |-> m, s |-> rest]

\* LinkSlave::CheckNoError; it consumes a sequence number either way.
CheckNoError(s, p) ==
  /\ CRC_CHECK => ~p.bad
  /\ p.seq = IF s.slaveSEQ < SEQ_MAX THEN s.slaveSEQ ELSE 0

\* Mutant of CountSEQ: the slave wraps where the master stays at its maximum.
CountSEQWraps(s) == [s EXCEPT !.slaveSEQ = (@ + 1) % SEQ_MAX]

CountSEQ(s) == [s EXCEPT !.slaveSEQ = IF @ < SEQ_MAX THEN @ + 1 ELSE @]

\* SingleVectorObject::Receive; LinkSlave::CallbackReceive exits on a refusal.
Receive(m, s, p) ==
  IF Len(s.Buffers) + p.lng <= MAX_LINK_BUF
  THEN [m |-> m, s |-> [s EXCEPT !.Buffers = @ \o Flits(p)]]
  ELSE [m |-> Fail(m, "link slave buffer is FULL"), s |-> s]

\* The CRC and SEQ check.  startCRC stays set after a good packet: the loop
\* breaks before the line that clears it.
CheckPacket(m0, s0, k) ==
  LET p == s0.linkRxTx[k]
      m == IF p.chkRRP THEN m0 ELSE UpdateRetryPointer(m0, p.rrp)
      s == [CountSEQ(s0) EXCEPT !.startCRC = CRC_CHECK, !.countdownCRC = 0]
      ok == UpdateToken(ReturnRetryPointer(m, p), p)
  IN  IF ~CheckNoError(s0, p)
      THEN [m |-> StartRetry(IF m.retryStartPacket
                             THEN Fail(m, "retryStartPacket is NOT NULL")
                             ELSE [m EXCEPT !.retryStartPacket = TRUE]),
            s |-> [s EXCEPT !.linkRxTx = <<>>, !.currentState = "START_RETRY",
                            !.startCRC = FALSE]]
      ELSE IF p.kind = "TRET"
      THEN [m |-> ok, s |-> RemoveRx(s, k)]
      ELSE Receive(ok, RemoveRx(s, k), p)

\* What the loop does with the packet it breaks at.
Process(m, s, k) ==
  IF k > Len(s.linkRxTx) THEN [m |-> m, s |-> s]
  ELSE IF s.linkRxTx[k].kind = "IRTRY" THEN ReceiveIRTRY(m, s, k)
  ELSE IF s.currentState = "START_RETRY" THEN [m |-> m, s |-> RemoveRx(s, k)]
  ELSE IF s.linkRxTx[k].kind = "PRET"
  THEN [m |-> UpdateRetryPointer(m, s.linkRxTx[k].rrp), s |-> RemoveRx(s, k)]
  ELSE CheckPacket(m, s, k)

\* The receiving part of the handler, given the packet the loop breaks at.
Receiving(m, s, k) == LET passed == PassOver(m, s, k) IN Process(passed.m, passed.s, k)

\* Mutant of Forwarding: the forwarded packet stays in the buffer.
ForwardingKeeps(m, s) == [m |-> ReturnTocken(m, Head(s.Buffers)), s |-> s]

\* The sending part: forward the head of the slave's buffer, return its tokens.
Forwarding(m, s) ==
  LET p == Head(s.Buffers)
  IN  [m |-> ReturnTocken(m, p),
       s |-> [s EXCEPT !.Buffers = SubSeq(@, p.lng + 1, Len(@))]]

-----------------------------------------------------------------------------
InitMaster ==
  [Buffers |-> <<>>, backupBuffers |-> <<>>, linkRxTx |-> <<>>,
   retryBuffers |-> [i \in Slot |-> NULL], retBufReadP |-> 0, retBufWriteP |-> 0,
   tokenCount |-> MAX_LINK_BUF, lastestRRP |-> 0, masterSEQ |-> 0,
   startCRC |-> FALSE, countdownCRC |-> 0, currentState |-> "ACTIVE",
   retryStartPacket |-> FALSE, readyStartRetry |-> FALSE,
   startRetryTimer |-> FALSE, retryTimer |-> 0, retryAttempts |-> 1, error |-> ""]

InitSlave ==
  [Buffers |-> <<>>, linkRxTx |-> <<>>, slaveSEQ |-> 0, startCRC |-> FALSE,
   countdownCRC |-> 0, currentState |-> "ACTIVE"]

LinkInit ==
  /\ master = [e \in End |-> InitMaster]
  /\ slave = [e \in End |-> InitSlave]
  /\ inFlight = [e \in End |-> NULL]
  /\ submitted = [e \in End |-> 0]
  /\ delivered = [e \in End |-> <<>>]
  /\ errors = 0

\* After an ERROR nothing runs any more.
Running == \A e \in End : master[e].error = ""

\* The HMC controller or the crossbar puts a packet into the master's Buffers,
\* in ACTIVE and LINK_RETRY.  The HMC controller sends a request that depends on
\* one in Buffers after it, whatever the state.
Submit(e) ==
  LET n == submitted[e] + 1 IN
  /\ Running
  /\ n <= Len(Traffic[e])
  /\ \/ master[e].currentState \in {"ACTIVE", "LINK_RETRY"}
     \/ e = Host /\ master[e].Buffers # <<>>
  /\ Len(master[e].Buffers) + Traffic[e][n] <= MAX_LINK_BUF
  /\ master' = [master EXCEPT ![e].Buffers = @ \o Flits(NewPacket("DATA", n, Traffic[e][n]))]
  /\ submitted' = [submitted EXCEPT ![e] = n]
  /\ UNCHANGED <<slave, inFlight, delivered, errors>>

MasterUpdate(e) ==
  /\ Running
  /\ master' = [master EXCEPT ![e] = RunRetryTimer(FinishLinkRetry(SendHead(@)))]
  /\ UNCHANGED <<slave, inFlight, submitted, delivered, errors>>

\* Link::Update starts to transmit the master's next packet ...
LinkStart(e) ==
  /\ Running
  /\ inFlight[e] = NULL
  /\ master[e].linkRxTx # <<>>
  /\ inFlight' = [inFlight EXCEPT ![e] = Head(master[e].linkRxTx)]
  /\ master' = [master EXCEPT ![e].linkRxTx = Tail(@)]
  /\ UNCHANGED <<slave, submitted, delivered, errors>>

\* ... and LNG * 128 / LINK_WIDTH Updates later hands it to the slave.
Arrive(e, p) ==
  /\ Running
  /\ inFlight[e] # NULL
  /\ slave' = [slave EXCEPT ![Peer(e)].linkRxTx = Append(@, p)]
  /\ inFlight' = [inFlight EXCEPT ![e] = NULL]
  /\ UNCHANGED <<master, submitted, delivered>>

LinkDone(e) == Arrive(e, inFlight[e]) /\ UNCHANGED errors

\* Link::NoisePacket.  Nobody reads the CRC of a PRET or an IRTRY.
LinkNoise(e) ==
  /\ errors < MAX_ERRORS
  /\ inFlight[e] # NULL
  /\ inFlight[e].kind \in {"DATA", "TRET"}
  /\ Arrive(e, [inFlight[e] EXCEPT !.bad = TRUE])
  /\ errors' = errors + 1

\* LinkSlave::Update while its buffer stays empty or the crossbar (the HMC
\* controller) has no room for its head.
SlaveUpdate(e) ==
  /\ Running
  /\ \E k \in 1 .. Len(slave[e].linkRxTx) + 1 :
       LET r == Receiving(master[e], slave[e], k) IN
       /\ BreaksAt(slave[e], k)
       /\ master' = [master EXCEPT ![e] = r.m]
       /\ slave' = [slave EXCEPT ![e] = r.s]
  /\ UNCHANGED <<inFlight, submitted, delivered, errors>>

\* LinkSlave::Update that also forwards the head of its buffer.
SlaveForward(e) ==
  /\ Running
  /\ \E k \in 1 .. Len(slave[e].linkRxTx) + 1 :
       LET r == Receiving(master[e], slave[e], k)
           f == Forwarding(r.m, r.s)
       IN
       /\ BreaksAt(slave[e], k)
       /\ r.m.error = ""
       /\ r.s.Buffers # <<>>
       /\ master' = [master EXCEPT ![e] = f.m]
       /\ slave' = [slave EXCEPT ![e] = f.s]
       /\ delivered' = [delivered EXCEPT ![e] = Append(@, Head(r.s.Buffers).id)]
  /\ UNCHANGED <<inFlight, submitted, errors>>

LinkNext ==
  \E e \in End :
    \/ Submit(e)
    \/ MasterUpdate(e)
    \/ LinkStart(e)
    \/ LinkDone(e)
    \/ LinkNoise(e)
    \/ SlaveUpdate(e)
    \/ SlaveForward(e)

LinkSpec == LinkInit /\ [][LinkNext]_linkVars

\* Every object is updated again and again, and the crossbar and the HMC
\* controller go on taking packets and handing new ones over.
LinkFairness ==
  \A e \in End :
    /\ WF_linkVars(Submit(e))
    /\ WF_linkVars(MasterUpdate(e))
    /\ WF_linkVars(LinkStart(e) \/ LinkDone(e))
    /\ WF_linkVars(SlaveUpdate(e) \/ SlaveForward(e))

LinkFairSpec == LinkSpec /\ LinkFairness

-----------------------------------------------------------------------------
(* Properties.                                                             *)

LinkState == {"ACTIVE", "START_RETRY", "LINK_RETRY"}

\* The ERROR exits (and crashes) of the handlers; "" while there was none.
Error ==
  {"", "token overflow", "insertion past the end of Buffers",
   "first retry packet is NULL", "retry buffer has no packets",
   "retry slot is not NULL", "Buffers[0] is NULL", "retryStartPacket is NULL",
   "retryStartPacket is NOT NULL", "link slave buffer is FULL"}

MasterType ==
  [Buffers : Seq(Packet \cup {NULL}), backupBuffers : Seq(Packet \cup {NULL}),
   linkRxTx : Seq(Packet), retryBuffers : [Slot -> Packet \cup {NULL}],
   retBufReadP : Slot, retBufWriteP : Slot, tokenCount : Int, lastestRRP : Slot,
   masterSEQ : 0 .. SEQ_MAX, startCRC : BOOLEAN, countdownCRC : Nat,
   currentState : LinkState, retryStartPacket : BOOLEAN,
   readyStartRetry : BOOLEAN, startRetryTimer : BOOLEAN, retryTimer : Nat,
   retryAttempts : Nat, error : Error]

SlaveType ==
  [Buffers : Seq(Packet \cup {NULL}), linkRxTx : Seq(Packet),
   slaveSEQ : 0 .. SEQ_MAX, startCRC : BOOLEAN, countdownCRC : Nat,
   currentState : {"ACTIVE", "START_RETRY"}]

\* Type correctness: every field keeps the range of its C++ member, and every
\* pointer that travels in a packet is a slot of the retry buffer.
TypeOK ==
  /\ master \in [End -> MasterType]
  /\ slave \in [End -> SlaveType]
  /\ inFlight \in [End -> Packet \cup {NULL}]
  /\ submitted \in [End -> Nat]
  /\ delivered \in [End -> Seq(Nat)]
  /\ errors \in Nat

\* No handler reaches one of its ERROR exits, inserts past the end of a buffer
\* or follows a NULL pointer (LinkMaster.cpp 112, 228, 258, 296, 437, LinkSlave.cpp
\* 58, 210): tokens never exceed the slave's buffer, the slave's buffer never
\* overflows, the retry buffer is never overwritten.
NoErrorExit == Running

\* Buffer q is made of whole packets, each followed by its virtual tail.
Whole(q) ==
  /\ q # <<>> => q[1] # NULL
  /\ \A i \in 1 .. Len(q) : q[i] # NULL =>
       /\ i + q[i].lng - 1 <= Len(q)
       /\ \A j \in i + 1 .. i + q[i].lng - 1 : q[j] = NULL
       /\ i + q[i].lng <= Len(q) => q[i + q[i].lng] # NULL

\* Whatever is inserted, restored from the retry buffer or taken out, a buffer
\* holds whole packets: no TRET splits a packet and no FLIT is left behind.
WholePackets ==
  \A e \in End : /\ Whole(master[e].Buffers) /\ Whole(master[e].backupBuffers)
                 /\ Whole(slave[e].Buffers)

\* The ids of the DATA packets in q, in order.
DataIds(q) == LET d == SelectSeq(q, LAMBDA p : p # NULL /\ ~IsFlow(p))
              IN  [i \in DOMAIN d |-> d[i].id]

\* The packets end e has sent and its peer has not accepted: those saved from
\* the pointer the peer would acknowledge up to the write pointer.
Unaccepted(e) ==
  {i \in Slot : /\ InSpan(i, master[Peer(e)].lastestRRP, master[e].retBufWriteP)
                /\ master[e].retryBuffers[i] # NULL}

\* End e's packets that its peer has accepted, in the order of acceptance.
Accepted(e) == delivered[Peer(e)] \o DataIds(slave[Peer(e)].Buffers)

\* Every submitted packet exists exactly once: waiting in the master (Buffers or
\* backupBuffers), sent and still saved in the retry buffer, or accepted.
ExactlyOnce ==
  \A e \in End :
    LET q == DataIds(master[e].Buffers \o master[e].backupBuffers) \o Accepted(e)
        sent == {i \in Unaccepted(e) : ~IsFlow(master[e].retryBuffers[i])}
    IN  /\ ToSet(q) \cup {master[e].retryBuffers[i].id : i \in sent} = 1 .. submitted[e]
        /\ Len(q) + Cardinality(sent) = submitted[e]

\* Without noise no end enters error abort mode: the CRC and the sequence number
\* of every packet are right when they are checked.
RetryOnlyOnNoise ==
  errors = 0 => \A e \in End : slave[e].currentState = "ACTIVE"

\* A master leaves the retry it asked for only together with its own slave: as
\* long as the slave drops everything, the master knows that it must ask again.
RetryPending ==
  \A e \in End :
    slave[e].currentState = "START_RETRY" => master[e].retryStartPacket

\* A master leaves LINK_RETRY only with its backup packets back in Buffers: no
\* packet is left where nothing sends it.
BackupReturns ==
  \A e \in End :
    master[e].backupBuffers # <<>> => master[e].currentState = "LINK_RETRY"

SumRtc(q) == FoldLeft(LAMBDA sum, p : IF p = NULL THEN sum ELSE sum + p.rtc, 0, q)
SumField(e, S, f(_)) ==
  FoldSet(LAMBDA i, sum : sum + f(master[e].retryBuffers[i]), 0, S)

\* Tokens are neither lost nor invented, whatever is in flight, dropped or sent
\* again: those at the master, those its unaccepted packets and the packets in
\* the peer's slave buffer hold, and those on their way back make MAX_LINK_BUF.
TokenConservation ==
  \A e \in End :
    LET f == Peer(e)
    IN  master[e].tokenCount
        + SumField(e, Unaccepted(e), LAMBDA p : IF IsFlow(p) THEN 0 ELSE p.lng)
        + Len(slave[f].Buffers)
        + SumField(f, Unaccepted(f), LAMBDA p : p.rtc)
        + SumRtc(master[f].Buffers \o master[f].backupBuffers) = MAX_LINK_BUF

\* Only slots between the read and the write pointer hold a packet, so the
\* slot the next packet is saved in is free.
RetrySlots ==
  \A e \in End : \A i \in Slot :
    master[e].retryBuffers[i] # NULL =>
      InSpan(i, master[e].retBufReadP, master[e].retBufWriteP)

NoOverwrite == \A e \in End : master[e].error # "retry slot is not NULL"

\* The read pointer moves only over packets the peer has accepted, to the slot
\* the peer acknowledges: what is between it and the write pointer is a chain
\* of whole packets that starts at the read pointer.
RetryChain ==
  \A e \in End :
    LET m == master[e]
        saved == {i \in Slot : m.retryBuffers[i] # NULL}
    IN  {m.retBufReadP} \cup {m.retryBuffers[i].frp : i \in saved}
          = saved \cup {m.retBufWriteP}

\* A saved packet leaves the retry buffer only when the peer has accepted it or
\* when it is back in Buffers to be sent again.
FreedAccepted ==
  [][\A e \in End : \A i \in Slot :
       LET p == master[e].retryBuffers[i] IN
       (p # NULL /\ master'[e].retryBuffers[i] = NULL) =>
          \/ i \notin Unaccepted(e)
          \/ \E j \in DOMAIN master'[e].Buffers :
               master'[e].Buffers[j] # NULL /\ master'[e].Buffers[j].frp = p.frp]_linkVars

\* The link implements the abstract channel: exactly-once delivery, in order if
\* there is no noise, of at most the FLITs the buffers hold (ChannelSafe), and
\* every packet is in the end submitted and delivered (ChannelLive).
Channel ==
  INSTANCE LinkChannel WITH
    Ordered  <- MAX_ERRORS = 0,
    Capacity <- IF MAX_ERRORS = 0 THEN 2 * MAX_LINK_BUF ELSE 3 * MAX_LINK_BUF
ChannelSafe == Channel!Spec
ChannelLive == Channel!FairSpec

\* Every retry comes to an end, at both ends of the link.
RetryEnds ==
  \A e \in End : []<>(/\ master[e].currentState = "ACTIVE"
                      /\ slave[e].currentState = "ACTIVE")

\* Acknowledgement: the FRP of the last accepted packet reaches the peer's retry
\* read pointer again and again, so that the retry buffer is given back.
FRPReturns ==
  \A e \in End : []<>(master[Peer(e)].retBufReadP = master[e].lastestRRP)
=============================================================================
