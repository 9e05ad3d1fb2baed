----------------------------- MODULE LinkPower -----------------------------
(***************************************************************************)
(* Link power management: the HMC controller's three power managers, its   *)
(* choice of a link for a request, and the handshakes by which both ends   *)
(* of a link go to sleep (QUIET) and are retrained (NULL_).                *)
(*                                                                         *)
(* The controller is updated as a whole by HostUpdate; the masters and     *)
(* slaves at both ends of the links and the crossbar are updated in any    *)
(* order in between.  A link is free of noise (LinkLayer has the retries), *)
(* and delivers in order what its master puts in linkRxTx: at most two     *)
(* packets become ready between two Updates of a slave, so the step it     *)
(* takes past an erased NULL_ never reaches another packet.  Packets are   *)
(* one FLIT long, the retry buffer and the receivers' buffers have room    *)
(* for all of them, and every request has a response.                      *)
(*                                                                         *)
(* A cycle number to wait for (staySREF, modeTransition[l], ...) is in the *)
(* set timer as long as it lies ahead, and Elapse takes it out at any      *)
(* moment: what holds here holds for every setting of the delays.          *)
(***************************************************************************)
EXTENDS Integers, Sequences, FiniteSets, SequencesExt

CONSTANTS
  Host, Cube,        \* the two ends of every link
  NUM_LINKS,
  LINK_POWER,        \* "QUIESCE_SLEEP" or "LINK_MONITOR", the latter also for
                     \* MSHR and AUTONOMOUS, which differ in how sleepLink is computed
  AWAKE_REQ,         \* requests that wake a sleeping link up
  MAX_REQ_BUF,       \* requests the controller holds
  MAX_LINK_BUF,      \* packets a link master or slave holds
  RETRAIN_NULLS,     \* NULL_ packets that end a retraining (32 in the code)
  Blocks,            \* the block addresses of the requests, in order
  COUNTER_SIZE,      \* returnTransCnt is an unsigned: modulo 2^32 in the code
  MAX_EPOCHS         \* bound: epochs that change sleepLink

ASSUME PowerAssumption ==
  /\ Host # Cube
  /\ NUM_LINKS \in Nat \ {0} /\ MAX_LINK_BUF \in Nat \ {0}
  /\ LINK_POWER \in {"QUIESCE_SLEEP", "LINK_MONITOR"}
  /\ {AWAKE_REQ, MAX_REQ_BUF, RETRAIN_NULLS, COUNTER_SIZE} \subseteq Nat \ {0}
  /\ Blocks \in Seq(Nat) /\ MAX_EPOCHS \in Nat

End == {Host, Cube}
Peer(e) == IF e = Host THEN Cube ELSE Host
Link == 0 .. NUM_LINKS - 1

VARIABLES
  side,             \* side[e][l]: the master of link l at end e, the slave there
                    \* and linkRxTx, all that is on its way from e to the peer
  downBuffers,      \* blocks of the requests the controller holds
  upBuffers,        \* number of responses the controller holds
  returnTransCnt,   \* responses the controller believes it waits for
  sleepLink,        \* number of links that may sleep
  timer,            \* the cycle numbers that lie ahead
  submitted,        \* requests received from the system
  inCube,           \* blocks of the requests the crossbar has to answer
  answered,         \* responses returned to the system
  epochs            \* changes of sleepLink so far

hostVars == <<downBuffers, upBuffers, returnTransCnt, sleepLink, answered, epochs>>
vars == <<side, timer, submitted, inCube, hostVars>>

Packet == [kind : {"DATA", "TRET", "PRET", "QUIET", "NULL_"},
           block : Nat, rtc : Nat, rrp : Nat]
NewPacket(kind, block) == [kind |-> kind, block |-> block, rtc |-> 0, rrp |-> 0]

\* The states of a master whose link is asleep or on its way from or to sleep.
LowPower == {"CONFIRM", "TRANSITION_TO_SLEEP", "SLEEP", "TRANSITION_TO_DOWN",
             "DOWN", "TRANSITION_TO_RETRAIN"}
PowerState == LowPower \cup {"ACTIVE", "WAIT", "RETRAIN1", "RETRAIN2"}

Init ==
  /\ side = [e \in End |-> [l \in Link |->
       [state |-> "ACTIVE", slave |-> "ACTIVE", firstNull |-> TRUE,
        retrainTransit |-> FALSE, Buffers |-> <<>>, saved |-> 0,
        tokenCount |-> MAX_LINK_BUF, rrp |-> 0, linkRxTx |-> <<>>]]]
  /\ timer = ({"stayActive"} \cup
              IF LINK_POWER = "QUIESCE_SLEEP" THEN {"quiesceLink"} ELSE {}) \X Link
  /\ downBuffers = <<>> /\ upBuffers = 0
  /\ returnTransCnt = 0 /\ sleepLink = 0
  /\ submitted = 0 /\ inCube = <<>> /\ answered = 0 /\ epochs = 0

-----------------------------------------------------------------------------
(* One end m of a link.  saved counts the packets in the retry buffer and  *)
(* rrp those accepted from the peer that no packet sent has acknowledged.  *)

\* Mutant of Idle: what was sent is not looked at.
IdleBuffersOnly(m) == m.Buffers = <<>>

\* Nothing to send, everything sent was accepted, and the peer has passed it on.
Idle(m) == m.Buffers = <<>> /\ m.saved = 0 /\ m.tokenCount = MAX_LINK_BUF

Transmit(m, p) ==
  [m EXCEPT !.linkRxTx = Append(@, [p EXCEPT !.rrp = m.rrp]), !.rrp = 0]

QuitePacket(m) == Transmit(m, NewPacket("QUIET", 0))

SendNulls(m, n) ==
  [m EXCEPT !.linkRxTx = @ \o [i \in 1 .. n |-> NewPacket("NULL_", 0)]]

UpdateRetryPointer(m, p) == [m EXCEPT !.saved = @ - p.rrp]

\* The next packet in Buffers carries the pointer, or a PRET does at once.
ReturnRetryPointer(m) ==
  LET n == [m EXCEPT !.rrp = @ + 1] IN
  IF m.Buffers = <<>> THEN Transmit(n, NewPacket("PRET", 0)) ELSE n

UpdateToken(m, p) == [m EXCEPT !.tokenCount = @ + p.rtc]

ReturnTocken(m) ==
  IF m.Buffers # <<>> /\ m.tokenCount > 0
  THEN [m EXCEPT !.Buffers[1].rtc = @ + 1]
  ELSE [m EXCEPT !.Buffers = <<[NewPacket("TRET", 0) EXCEPT !.rtc = 1]>> \o @]

FinishRetrain(m) ==
  SendNulls([m EXCEPT !.slave = "ACTIVE", !.state = "ACTIVE"], RETRAIN_NULLS)

\* Mutant of NullReceived: firstNull is not set again for the second exchange.
NoSecondNull(e, m) ==
  CASE e = Cube /\ m.state = "SLEEP" ->
         [m EXCEPT !.state = "RETRAIN1", !.firstNull = TRUE, !.retrainTransit = TRUE]
    [] m.state = "RETRAIN1" ->
         [m EXCEPT !.state = "RETRAIN2", !.retrainTransit = (e = Cube)]
    [] m.state = "RETRAIN2" -> FinishRetrain(m)
    [] OTHER -> m

\* A NULL_ takes a retraining end one state further; the cube's end answers
\* only after tRESP1 and tRESP2.
NullReceived(e, m) ==
  CASE e = Cube /\ m.state = "SLEEP" ->
         [m EXCEPT !.state = "RETRAIN1", !.firstNull = TRUE, !.retrainTransit = TRUE]
    [] m.state = "RETRAIN1" ->
         [m EXCEPT !.state = "RETRAIN2", !.firstNull = TRUE, !.retrainTransit = (e = Cube)]
    [] m.state = "RETRAIN2" -> FinishRetrain(m)
    [] OTHER -> m

\* LinkSlave::Update's handling of a packet that has arrived.
Received(e, m, p) ==
  LET n == UpdateRetryPointer(m, p) IN
  CASE p.kind = "NULL_" -> NullReceived(e, m)
    [] p.kind = "PRET" -> n
    [] p.kind = "QUIET" -> IF n.state = "WAIT" THEN [n EXCEPT !.state = "CONFIRM"]
                           ELSE [n EXCEPT !.slave = "WAIT"]
    [] OTHER -> UpdateToken(ReturnRetryPointer(n), p)

\* Mutant of SleepIfIdle: the other end is not told.
SleepSilently(m) ==
  IF m.slave = "WAIT" /\ Idle(m)
  THEN [m EXCEPT !.slave = "SLEEP", !.state = "SLEEP"] ELSE m

\* The end that was asked to sleep does so, and says so, once it is idle.
SleepIfIdle(m) ==
  IF m.slave = "WAIT" /\ Idle(m)
  THEN QuitePacket([m EXCEPT !.slave = "SLEEP", !.state = "SLEEP"]) ELSE m

-----------------------------------------------------------------------------
(* The controller's Update.  Its steps map a record of the fields it       *)
(* changes, x, to such a record or to the set of possible ones; x.lm are   *)
(* its link masters.                                                       *)

Running(x, name, l) == <<name, l>> \in x.timer
Passed(x, name, l) == ~Running(x, name, l)
Set(x, l, state, timers) ==
  [x EXCEPT !.lm[l].state = state, !.timer = @ \cup timers]

Retrain(x, l) ==
  IF x.lm[l].state = "TRANSITION_TO_RETRAIN" /\ Passed(x, "modeTransition", l)
  THEN [x EXCEPT
         !.lm = [k \in Link |->
           IF k = l THEN [@[l] EXCEPT !.state = "RETRAIN1", !.firstNull = TRUE]
           ELSE IF @[k].state = "DOWN" THEN [@[k] EXCEPT !.state = "SLEEP"] ELSE @[k]],
         !.timer = @ \cup {<<"stayActive", l>>}]
  ELSE x

\* QUIESCE_SLEEP wakes the first link that is down or asleep up, one at a time.
WakeForRequests(x) ==
  LET asleep == {l \in Link : x.lm[l].state \in {"DOWN", "SLEEP"}}
      link == CHOOSE l \in asleep : \A k \in asleep : l <= k
      waking == \E l \in Link : x.lm[l].state \in
                  {"TRANSITION_TO_RETRAIN", "RETRAIN1", "RETRAIN2"}
      needed == IF x.lm[link].state = "DOWN"
                THEN x.downBuffers # <<>> /\ Passed(x, "staySREF", 0)
                ELSE Len(x.downBuffers) >= AWAKE_REQ
  IN IF asleep # {} /\ ~waking /\ needed
     THEN Set(x, link, "TRANSITION_TO_RETRAIN", {<<"modeTransition", link>>})
     ELSE x

\* The others wake all but sleepLink links up, staggered.
WakeInService(x, l) ==
  IF l < NUM_LINKS - x.sleepLink /\ x.lm[l].state = "SLEEP" /\ Passed(x, "staggerActive", 0)
  THEN Set(x, l, "TRANSITION_TO_RETRAIN", {<<"staggerActive", 0>>, <<"modeTransition", l>>})
  ELSE x

\* The managers' loops over the links: what they have made of x after n links.
WakeLinks(x) ==
  LET after[n \in 0 .. NUM_LINKS] ==
        IF n = 0 THEN x ELSE WakeInService(after[n - 1], n - 1)
  IN after[NUM_LINKS]

RetrainLinks(x) ==
  LET after[n \in 0 .. NUM_LINKS] == IF n = 0 THEN x ELSE Retrain(after[n - 1], n - 1)
  IN after[NUM_LINKS]

LinkPowerExitManager(x) ==
  RetrainLinks(IF LINK_POWER = "QUIESCE_SLEEP" THEN WakeForRequests(x) ELSE WakeLinks(x))

\* The links FindAvailableLink may come up with, in either LINK_PRIORITY.
Available(x) ==
  {l \in Link : x.lm[l].state = "ACTIVE" /\ Len(x.lm[l].Buffers) < MAX_LINK_BUF}

SendRequest(x, l) ==
  [x EXCEPT !.lm[l].Buffers = Append(@, NewPacket("DATA", Head(x.downBuffers))),
            !.downBuffers = Tail(@)]

\* The first request goes to the last link with a packet of the same block in
\* Buffers, whatever state that link is in; else to an available one, counted.
Downstream(x) ==
  LET same == {l \in Link : \E i \in 1 .. Len(x.lm[l].Buffers) :
                 x.lm[l].Buffers[i].block = Head(x.downBuffers)}
      link == CHOOSE l \in same : \A k \in same : k <= l
  IN IF x.downBuffers = <<>> THEN {x}
     ELSE IF same # {}
     THEN {IF Len(x.lm[link].Buffers) < MAX_LINK_BUF THEN SendRequest(x, link) ELSE x}
     ELSE IF Available(x) = {} THEN {x}
     ELSE {[SendRequest(x, l) EXCEPT !.returnTransCnt = (@ + 1) % COUNTER_SIZE] :
             l \in Available(x)}

Upstream(x) ==
  IF x.upBuffers = 0 THEN x
  ELSE [x EXCEPT !.upBuffers = @ - 1, !.answered = @ + 1,
                 !.returnTransCnt = (@ + COUNTER_SIZE - 1) % COUNTER_SIZE]

\* At the end of an epoch its traffic decides how many links may sleep.
LinkPowerStateManager(x) ==
  {x} \cup
  IF LINK_POWER = "QUIESCE_SLEEP" \/ x.epochs = MAX_EPOCHS THEN {}
  ELSE {[x EXCEPT !.sleepLink = n, !.epochs = @ + 1] : n \in Link \ {x.sleepLink}}

\* The cycle until which the DRAM stays in self refresh is read in down mode only.
StartSleep(x, l) ==
  [x EXCEPT !.lm[l] = QuitePacket([@ EXCEPT !.state = "WAIT"]),
            !.timer = @ \cup IF LINK_POWER = "QUIESCE_SLEEP" THEN {<<"staySREF", 0>>} ELSE {}]

StartTransition(x, l) ==
  Set(x, l, "TRANSITION_TO_SLEEP", {<<"staggerSleep", 0>>, <<"modeTransition", l>>})

\* QUIESCE_SLEEP, one link; lastActive was computed before the first link.
Quiesce(x, l, lastActive) ==
  LET m == x.lm[l] IN
  CASE m.state = "ACTIVE" /\ ~Idle(m) ->
         [x EXCEPT !.timer = @ \cup {<<"quiesceLink", l>>}]
    [] /\ m.state = "ACTIVE" /\ Idle(m)
       /\ Passed(x, "quiesceLink", l) /\ Passed(x, "stayActive", l)
       /\ ~lastActive \/ x.returnTransCnt = 0 -> StartSleep(x, l)
    [] m.state = "CONFIRM" /\ Passed(x, "staggerSleep", 0) ->
         IF \A k \in Link \ {l} : x.lm[k].state \in {"SLEEP", "TRANSITION_TO_SLEEP"}
         THEN Set(x, l, "TRANSITION_TO_DOWN", {<<"modeTransition", l>>})
         ELSE StartTransition(x, l)
    [] m.state = "TRANSITION_TO_SLEEP" /\ Passed(x, "modeTransition", l) ->
         Set(x, l, "SLEEP", {})
    [] m.state = "TRANSITION_TO_DOWN" /\ Passed(x, "modeTransition", l) ->
         [x EXCEPT !.lm = [k \in Link |-> [@[k] EXCEPT !.state = "DOWN"]]]
    [] OTHER -> x

\* Mutant of Monitor: one link more than sleepLink may sleep.
SleepsOneMore(x, l) ==
  LET m == x.lm[l] IN
  CASE x.sleepLink = 0 \/ l < NUM_LINKS - 1 - x.sleepLink -> x
    [] m.state = "ACTIVE" /\ Idle(m) /\ Passed(x, "stayActive", l) -> StartSleep(x, l)
    [] m.state = "CONFIRM" /\ Passed(x, "staggerSleep", 0) -> StartTransition(x, l)
    [] m.state = "TRANSITION_TO_SLEEP" /\ Passed(x, "modeTransition", l) ->
         Set(x, l, "SLEEP", {})
    [] OTHER -> x

\* The other managers, one of the sleepLink links with the highest numbers.
Monitor(x, l) ==
  LET m == x.lm[l] IN
  CASE l < NUM_LINKS - x.sleepLink -> x
    [] m.state = "ACTIVE" /\ Idle(m) /\ Passed(x, "stayActive", l) -> StartSleep(x, l)
    [] m.state = "CONFIRM" /\ Passed(x, "staggerSleep", 0) -> StartTransition(x, l)
    [] m.state = "TRANSITION_TO_SLEEP" /\ Passed(x, "modeTransition", l) ->
         Set(x, l, "SLEEP", {})
    [] OTHER -> x

\* QUIESCE_SLEEP goes through the links upwards, the others downwards.
QuiesceLinks(x) ==
  LET lastActive == Cardinality({l \in Link : x.lm[l].state = "ACTIVE"}) = 1
      after[n \in 0 .. NUM_LINKS] ==
        IF n = 0 THEN x ELSE Quiesce(after[n - 1], n - 1, lastActive)
  IN after[NUM_LINKS]

MonitorLinks(x) ==
  LET after[n \in 0 .. NUM_LINKS] ==
        IF n = 0 THEN x ELSE Monitor(after[n - 1], NUM_LINKS - n)
  IN after[NUM_LINKS]

LinkPowerEntryManager(x) ==
  IF LINK_POWER = "QUIESCE_SLEEP" THEN QuiesceLinks(x) ELSE MonitorLinks(x)

HostUpdate ==
  LET old == [lm |-> side[Host], downBuffers |-> downBuffers, upBuffers |-> upBuffers,
              returnTransCnt |-> returnTransCnt, sleepLink |-> sleepLink,
              timer |-> timer, answered |-> answered, epochs |-> epochs]
  IN \E sent \in Downstream(LinkPowerExitManager(old)) :
     \E counted \in LinkPowerStateManager(Upstream(sent)) :
       LET new == LinkPowerEntryManager(counted) IN
       /\ side' = [side EXCEPT ![Host] = new.lm]
       /\ timer' = new.timer
       /\ downBuffers' = new.downBuffers
       /\ upBuffers' = new.upBuffers
       /\ returnTransCnt' = new.returnTransCnt
       /\ sleepLink' = new.sleepLink
       /\ answered' = new.answered
       /\ epochs' = new.epochs
       /\ UNCHANGED <<submitted, inCube>>

-----------------------------------------------------------------------------
(* The other objects.                                                      *)

Submit ==
  /\ submitted < Len(Blocks) /\ Len(downBuffers) < MAX_REQ_BUF
  /\ submitted' = submitted + 1
  /\ downBuffers' = Append(downBuffers, Blocks[submitted + 1])
  /\ UNCHANGED <<side, timer, inCube, upBuffers, returnTransCnt, sleepLink, answered, epochs>>

\* A master sends a packet; retraining, it sends the one NULL_ of its state.
Sendable(m) == m.Buffers # <<>> /\ (m.Buffers[1].kind = "DATA" => m.tokenCount > 0)
NullDue(m) == m.state \in {"RETRAIN1", "RETRAIN2"} /\ m.firstNull /\ ~m.retrainTransit

MasterUpdate(e, l) ==
  LET m == side[e][l]
      isData == IF m.Buffers[1].kind = "DATA" THEN 1 ELSE 0
      sent == IF Sendable(m)
              THEN Transmit([m EXCEPT !.Buffers = Tail(@), !.saved = @ + 1,
                                      !.tokenCount = @ - isData], m.Buffers[1])
              ELSE m
  IN /\ Sendable(m) \/ NullDue(m)
     /\ side' = [side EXCEPT ![e][l] =
          IF NullDue(m) THEN SendNulls([sent EXCEPT !.firstNull = FALSE], 1) ELSE sent]
     /\ UNCHANGED <<timer, submitted, inCube, hostVars>>

\* A slave takes the next packet, lets the link sleep if it may, and forwards
\* a request or response to its destination.  An end becomes idle by a packet it
\* receives and by nothing else, so the test for sleep is needed only here.
SlaveUpdate(e, l) ==
  LET queue == side[Peer(e)][l].linkRxTx
      p == Head(queue)
      isData == p.kind = "DATA"
      m == SleepIfIdle(Received(e, side[e][l], p))
  IN /\ queue # <<>>
     /\ side' = [side EXCEPT ![Peer(e)][l].linkRxTx = Tail(@),
                             ![e][l] = IF isData THEN ReturnTocken(m) ELSE m]
     /\ inCube' = IF isData /\ e = Cube THEN Append(inCube, p.block) ELSE inCube
     /\ upBuffers' = IF isData /\ e = Host THEN upBuffers + 1 ELSE upBuffers
     /\ UNCHANGED <<timer, submitted, downBuffers, returnTransCnt, sleepLink, answered, epochs>>

\* The crossbar sends a response on any active link.
CubeAnswers(l) ==
  /\ side[Cube][l].state = "ACTIVE" /\ Len(side[Cube][l].Buffers) < MAX_LINK_BUF
  /\ \E i \in 1 .. Len(inCube) :
       /\ inCube' = RemoveAt(inCube, i)
       /\ side' = [side EXCEPT ![Cube][l].Buffers = Append(@, NewPacket("DATA", inCube[i]))]
  /\ UNCHANGED <<timer, submitted, hostVars>>

\* The cycle a manager or a master waits for comes.
Elapse(t) == t \in timer /\ timer' = timer \ {t} /\ UNCHANGED <<side, submitted, inCube, hostVars>>
RetrainElapse(l) ==
  /\ side[Cube][l].retrainTransit
  /\ side' = [side EXCEPT ![Cube][l].retrainTransit = FALSE]
  /\ UNCHANGED <<timer, submitted, inCube, hostVars>>

Next ==
  \/ \E t \in timer : Elapse(t)
  \/ \E e \in End, l \in Link : MasterUpdate(e, l) \/ SlaveUpdate(e, l)
  \/ \E l \in Link : CubeAnswers(l) \/ RetrainElapse(l)
  \/ HostUpdate \/ Submit

Spec == Init /\ [][Next]_vars

\* The simulator's clocks never stop.
FairSpec == Spec /\ WF_vars(Next)

-----------------------------------------------------------------------------
(* Properties.                                                             *)

TypeOK ==
  /\ \A e \in End, l \in Link :
       /\ side[e][l].state \in PowerState
       /\ side[e][l].slave \in {"ACTIVE", "WAIT", "SLEEP"}
       /\ side[e][l].saved \in Nat
       /\ side[e][l].tokenCount \in 0 .. MAX_LINK_BUF
       /\ ToSet(side[e][l].Buffers) \cup ToSet(side[e][l].linkRxTx) \subseteq Packet
  /\ Len(downBuffers) <= MAX_REQ_BUF
  /\ returnTransCnt \in 0 .. COUNTER_SIZE - 1
  /\ sleepLink \in Link

\* A link whose host end has seen the QUIET handshake through is asleep at the
\* cube as well and carries nothing in either direction: no packet waits, is on
\* its way, or has yet to be acknowledged or passed on.
SleepsTogether ==
  \A l \in Link : side[Host][l].state \in LowPower =>
    /\ side[Cube][l].state = "SLEEP"
    /\ \A e \in End : Idle(side[e][l]) /\ side[e][l].linkRxTx = <<>>

\* No packet with a token or a request reaches an end that sleeps or retrains:
\* the host sends only when the cube has been locked on, and the other way round.
ReachesAwake ==
  \A e \in End, l \in Link :
    side[e][l].linkRxTx # <<>> /\ Head(side[e][l].linkRxTx).kind \in {"DATA", "TRET"} =>
      side[Peer(e)][l].state \in {"ACTIVE", "WAIT"}

\* At every moment: the types, and the two ends of each link agree that it
\* sleeps and that what is sent will be received.
PowerInv == TypeOK /\ SleepsTogether /\ ReachesAwake

\* Only a link that is asleep is put in down mode.
DownFromSleep ==
  [][\A l \in Link : side[Host][l].state # "DOWN" /\ side'[Host][l].state = "DOWN" =>
       side[Host][l].state \in {"TRANSITION_TO_DOWN", "TRANSITION_TO_SLEEP", "SLEEP"}]_vars

\* Every request is answered, whichever links go to sleep on the way.
AllAnswered == \A n \in 1 .. Len(Blocks) : submitted >= n ~> answered >= n

\* A link the host has asked to sleep is asleep at the cube in the end, and the
\* host learns of it, however many responses the crossbar has sent on it before.
SleepAgreed == \A l \in Link :
  side[Host][l].state = "WAIT" ~> side[Host][l].state = "CONFIRM"

\* A sleeping link that is to be in service again is woken up and retrained.
Awakened == \A l \in Link :
  LET InService == l < NUM_LINKS - sleepLink IN
  side[Host][l].state = "SLEEP" /\ InService ~> side[Host][l].state = "ACTIVE" \/ ~InService
=============================================================================
