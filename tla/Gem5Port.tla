------------------------------ MODULE Gem5Port ------------------------------
(***************************************************************************)
(* The gem5 memory object around the simulator (dramsim2.cc) with its      *)
(* wrapper (dramsim2_wrapper.cc): the request, retry and response protocol *)
(* of its port, and the accounting of what is outstanding.                 *)
(*                                                                         *)
(* The simulator behind the wrapper is reduced to what the port sees of    *)
(* it: a request buffer of MAX_REQ_BUF transactions that CanAcceptTran     *)
(* looks at, and a cube that completes transactions in any order, at most  *)
(* one in an Update, by a callback with the address that the vault has     *)
(* rebuilt and the controller's cycle.                                     *)
(*                                                                         *)
(* gem5 is the other side: requests, accepted or refused; responses taken  *)
(* or refused; retries; drain.  An event that is scheduled happens at some *)
(* later step.  Packets that a cache answers are sunk without a trace, and *)
(* atomic and functional accesses change nothing that is modelled here.    *)
(***************************************************************************)
EXTENDS AddressMap, Sequences, FiniteSets

CONSTANTS
  Requests,        \* Requests[p]: the packet p that gem5 may send
  QUEUE_SIZE,      \* queueSize of the wrapper, which is MAX_REQ_BUF
  PARTS,           \* parts of a gem5 tick that times are counted in
  PERIOD,          \* clockPeriod() * SimClock::Int::ns, in parts
  START            \* from startup() to the first tick event, in parts

Packet == DOMAIN Requests
Addr == {Requests[p].addr : p \in Packet}

\* Every read is answered.  A packet may be a read, a write, both (SwapReq) or
\* neither, and its address any number.
ASSUME Gem5Assumption ==
  /\ QUEUE_SIZE \in Nat \ {0}
  /\ IsFiniteSet(Packet)
  /\ \A p \in Packet :
       /\ Requests[p] \in [isRead : BOOLEAN, isWrite : BOOLEAN, addr : Nat,
                           needsResponse : BOOLEAN]
       /\ Requests[p].isRead => Requests[p].needsResponse
  /\ PARTS \in Nat \ {0} /\ PERIOD \in Nat /\ PERIOD >= PARTS
  /\ START \in Nat

\* What the port needs of its users and of the configuration.
\* Each address is the first one of a block, and in the memory.
Aligned ==
  \A p \in Packet : Requests[p].addr < CAPACITY /\ Requests[p].addr % ADDRESS_MAPPING = 0
\* No packet is both a read and a write.
PlainPackets == \A p \in Packet : ~(Requests[p].isRead /\ Requests[p].isWrite)
\* The clock's period is a number of ticks, and startup() runs at a clock edge.
WholeTicks == PERIOD % PARTS = 0 /\ START = 0

VARIABLES
  retryReq, retryResp,
  sendResponseEvent,       \* it is scheduled
  outstandingReads,        \* per address, the packets under way, oldest first
  outstandingWrites,
  nbrOutstandingReads, nbrOutstandingWrites,
  responseQueue,
  downBuffers,             \* packets whose transaction waits in the controller
  inCube,                  \* packets whose transaction is in the cube
  draining,                \* drain() has said so and waits for the signal
  accepted,                \* packets for which recvTimingReq returned true
  accessed,                \* packets for which the memory has been accessed
  answered,                \* answered[p]: responses to p that gem5 has taken
  drift,                   \* at the next tick: curTick() - startTick, less the
                           \* periods of the controller's cycles; in parts
  assertFails              \* an assert of the code has failed

counters == <<outstandingReads, outstandingWrites,
              nbrOutstandingReads, nbrOutstandingWrites>>
responding == <<responseQueue, sendResponseEvent, accessed>>
memory == <<downBuffers, inCube>>
gem5 == <<draining, accepted, answered>>
portVars == <<retryReq, retryResp, counters, responding, memory, gem5, drift, assertFails>>

nbrOutstanding == nbrOutstandingReads + nbrOutstandingWrites + Len(responseQueue)

\* HMCController::CanAcceptTran.
CanAcceptTran == Cardinality(downBuffers) + 1 <= QUEUE_SIZE

\* The address a callback reports for each packet.
Reported == [p \in Packet |-> ResponseAddress(Requests[p].addr)]

\* cycle = divCeil(curTick() - startTick, period): the cycle is the number of
\* ticks before this one, and divCeil(t, d) is (t + d - 1) / d, cut to a Tick.
CycleAgrees == LET late == drift + PERIOD - PARTS IN 0 <= late /\ late < PERIOD

Init ==
  /\ retryReq = FALSE /\ retryResp = FALSE /\ sendResponseEvent = FALSE
  /\ outstandingReads = [a \in Addr |-> <<>>]
  /\ outstandingWrites = [a \in Addr |-> <<>>]
  /\ nbrOutstandingReads = 0 /\ nbrOutstandingWrites = 0
  /\ responseQueue = <<>>
  /\ downBuffers = {} /\ inCube = {}
  /\ draining = FALSE
  /\ accepted = {} /\ accessed = {}
  /\ answered = [p \in Packet |-> 0]
  /\ drift = START
  /\ assertFails = FALSE

\* The memory is accessed; a response is queued and, unless gem5 owes a retry,
\* its event scheduled.
accessAndRespond(p) ==
  /\ accessed' = accessed \cup {p}
  /\ IF Requests[p].needsResponse
     THEN /\ responseQueue' = Append(responseQueue, p)
          /\ sendResponseEvent' = (sendResponseEvent \/ ~retryResp)
     ELSE UNCHANGED <<responseQueue, sendResponseEvent>>

-----------------------------------------------------------------------------
(* Requests.                                                               *)

\* Mutant of CanAccept: writes count only by their responses.
WritesNotCounted == nbrOutstandingReads + Len(responseQueue) < QUEUE_SIZE

CanAccept == nbrOutstanding < QUEUE_SIZE

Running == ~assertFails

\* recvTimingReq of a read, which may be a write as well: it is answered when it
\* is complete.
AcceptRead(p) ==
  /\ Requests[p].isRead
  /\ outstandingReads' = [outstandingReads EXCEPT ![Requests[p].addr] = Append(@, p)]
  /\ nbrOutstandingReads' = nbrOutstandingReads + 1
  /\ UNCHANGED <<outstandingWrites, nbrOutstandingWrites, responding>>

\* recvTimingReq of a write: it is performed and answered at once.
AcceptWrite(p) ==
  /\ ~Requests[p].isRead /\ Requests[p].isWrite
  /\ outstandingWrites' = [outstandingWrites EXCEPT ![Requests[p].addr] = Append(@, p)]
  /\ nbrOutstandingWrites' = nbrOutstandingWrites + 1
  /\ accessAndRespond(p)
  /\ UNCHANGED <<outstandingReads, nbrOutstandingReads>>

\* recvTimingReq returns true for a read or a write, which goes to the simulator.
Accept(p) ==
  /\ Running /\ p \notin accepted /\ ~retryReq /\ CanAccept
  /\ AcceptRead(p) \/ AcceptWrite(p)
  /\ accepted' = accepted \cup {p}
  /\ IF CanAcceptTran THEN downBuffers' = downBuffers \cup {p} /\ UNCHANGED assertFails
                      ELSE assertFails' = TRUE /\ UNCHANGED downBuffers
  /\ UNCHANGED <<retryReq, retryResp, inCube, draining, answered, drift>>

\* recvTimingReq of any other packet: it is answered here, if at all.
AcceptOther(p) ==
  /\ Running /\ p \notin accepted /\ ~retryReq
  /\ ~Requests[p].isRead /\ ~Requests[p].isWrite
  /\ accessAndRespond(p)
  /\ accepted' = accepted \cup {p}
  /\ UNCHANGED <<retryReq, retryResp, counters, memory, draining, answered, drift,
                 assertFails>>

\* recvTimingReq returns false, and owes a retry.  (A refusal while retryReq is
\* set changes nothing.)
Refuse(p) ==
  /\ Running /\ p \notin accepted /\ ~retryReq
  /\ Requests[p].isRead \/ Requests[p].isWrite
  /\ ~CanAccept
  /\ retryReq' = TRUE
  /\ UNCHANGED <<retryResp, counters, responding, memory, gem5, drift, assertFails>>

-----------------------------------------------------------------------------
(* The tick: an update of the simulator, then the retry that is owed.      *)

\* find(addr) of outstandingReads or outstandingWrites: a queue is erased when it
\* becomes empty.
Finds(outstanding, a) == a \in Addr /\ outstanding[a] # <<>>

\* Mutant of readComplete: the newest read of the address is answered.
AnswersNewest(p) ==
  LET q == outstandingReads[Reported[p]] IN
  /\ ~Requests[p].isWrite
  /\ outstandingReads' = [outstandingReads EXCEPT ![Reported[p]] = Tail(q)]
  /\ nbrOutstandingReads' = nbrOutstandingReads - 1
  /\ accessAndRespond(q[Len(q)])
  /\ UNCHANGED <<outstandingWrites, nbrOutstandingWrites, assertFails, draining>>

\* The completion of packet p's transaction is reported as readComplete when it
\* was not enqueued as a write: the oldest read of the address is taken for it.
readComplete(p) ==
  LET a == Reported[p] IN
  /\ ~Requests[p].isWrite
  /\ IF ~CycleAgrees \/ ~Finds(outstandingReads, a) \/ nbrOutstandingReads = 0
     THEN assertFails' = TRUE /\ UNCHANGED <<counters, responding>>
     ELSE /\ outstandingReads' = [outstandingReads EXCEPT ![a] = Tail(@)]
          /\ nbrOutstandingReads' = nbrOutstandingReads - 1
          /\ accessAndRespond(Head(outstandingReads[a]))
          /\ UNCHANGED <<outstandingWrites, nbrOutstandingWrites, assertFails>>
  /\ UNCHANGED draining

\* Mutant of writeComplete: the drain is only signalled with a response.
NoSignal(p) ==
  /\ Requests[p].isWrite
  /\ outstandingWrites' = [outstandingWrites EXCEPT ![Reported[p]] = Tail(@)]
  /\ nbrOutstandingWrites' = nbrOutstandingWrites - 1
  /\ UNCHANGED <<outstandingReads, nbrOutstandingReads, responding, assertFails, draining>>

\* The same for a transaction that was enqueued as a write.
writeComplete(p) ==
  LET a == Reported[p] IN
  /\ Requests[p].isWrite
  /\ IF ~CycleAgrees \/ ~Finds(outstandingWrites, a) \/ nbrOutstandingWrites = 0
     THEN assertFails' = TRUE /\ UNCHANGED <<counters, draining>>
     ELSE /\ outstandingWrites' = [outstandingWrites EXCEPT ![a] = Tail(@)]
          /\ nbrOutstandingWrites' = nbrOutstandingWrites - 1
          /\ draining' = (draining /\ nbrOutstanding # 1)
          /\ UNCHANGED <<outstandingReads, nbrOutstandingReads, assertFails>>
  /\ UNCHANGED responding

\* tick() sends the retry when there is room.
RetryOwed == retryReq' = (retryReq /\ nbrOutstanding' >= QUEUE_SIZE)

\* tick() schedules itself a period later, cut to whole ticks; -PERIOD bounds the
\* drift, with which no cycle agrees any more.
NextTick ==
  drift' = IF drift - (PERIOD % PARTS) > -PERIOD THEN drift - (PERIOD % PARTS) ELSE -PERIOD

\* Mutant of TickIdle: the retry is looked at only after a completion.
RetryAfterCompletion(T) ==
  /\ Running
  /\ T \subseteq downBuffers /\ Cardinality(T) <= 1
  /\ downBuffers' = downBuffers \ T /\ inCube' = inCube \cup T
  /\ UNCHANGED <<retryReq, retryResp, counters, responding, gem5, assertFails>>
  /\ NextTick

\* A tick in which the controller sends the transactions of T, at most one, to
\* the cube, and no transaction is complete.
TickIdle(T) ==
  /\ Running
  /\ T \subseteq downBuffers /\ Cardinality(T) <= 1
  /\ downBuffers' = downBuffers \ T /\ inCube' = inCube \cup T
  /\ UNCHANGED <<retryResp, counters, responding, gem5, assertFails>>
  /\ RetryOwed /\ NextTick

\* A tick in which, besides, the transaction of packet p is complete.
TickComplete(T, p) ==
  /\ Running
  /\ T \subseteq downBuffers /\ Cardinality(T) <= 1
  /\ p \in inCube
  /\ downBuffers' = downBuffers \ T /\ inCube' = (inCube \ {p}) \cup T
  /\ readComplete(p) \/ writeComplete(p)
  /\ UNCHANGED <<retryResp, accepted, answered>>
  /\ RetryOwed /\ NextTick

-----------------------------------------------------------------------------
(* Responses and drain.                                                    *)

\* Mutant of sendResponse: the next response is not scheduled.
SendsOne(success) ==
  IF success
  THEN /\ responseQueue' = Tail(responseQueue)
       /\ answered' = [answered EXCEPT ![Head(responseQueue)] = @ + 1]
       /\ sendResponseEvent' = FALSE
       /\ draining' = (draining /\ nbrOutstanding # 1)
       /\ retryResp' = FALSE
  ELSE /\ retryResp' = TRUE /\ sendResponseEvent' = FALSE
       /\ UNCHANGED <<responseQueue, draining, answered>>

\* sendResponse when gem5 takes the first response, or refuses it.
sendResponse(success) ==
  IF success
  THEN /\ responseQueue' = Tail(responseQueue)
       /\ answered' = [answered EXCEPT ![Head(responseQueue)] = @ + 1]
       /\ sendResponseEvent' = (Len(responseQueue) > 1)
       /\ draining' = (draining /\ nbrOutstanding # 1)
       /\ retryResp' = FALSE
  ELSE /\ retryResp' = TRUE /\ sendResponseEvent' = FALSE
       /\ UNCHANGED <<responseQueue, draining, answered>>

\* The scheduled event happens.
ResponseEvent(success) ==
  /\ Running /\ sendResponseEvent
  /\ IF retryResp \/ responseQueue = <<>>
     THEN /\ assertFails' = TRUE
          /\ UNCHANGED <<responding, retryResp, draining, answered>>
     ELSE sendResponse(success) /\ UNCHANGED <<accessed, assertFails>>
  /\ UNCHANGED <<retryReq, counters, memory, accepted, drift>>

\* gem5 calls recvRespRetry, once for each refusal.  A refusal in turn asserts
\* that no event is scheduled.
recvRespRetry(success) ==
  /\ Running /\ retryResp
  /\ IF responseQueue = <<>> \/ (~success /\ sendResponseEvent)
     THEN /\ assertFails' = TRUE
          /\ UNCHANGED <<responding, retryResp, draining, answered>>
     ELSE sendResponse(success) /\ UNCHANGED <<accessed, assertFails>>
  /\ UNCHANGED <<retryReq, counters, memory, accepted, drift>>

\* gem5 calls drain() while something is outstanding.
drain ==
  /\ Running /\ ~draining /\ nbrOutstanding # 0
  /\ draining' = TRUE
  /\ UNCHANGED <<retryReq, retryResp, counters, responding, memory, accepted,
                 answered, drift, assertFails>>

Tick ==
  \E T \in SUBSET downBuffers : TickIdle(T) \/ \E p \in inCube : TickComplete(T, p)

Next ==
  \/ \E p \in Packet : Accept(p) \/ AcceptOther(p) \/ Refuse(p)
  \/ Tick
  \/ \E success \in BOOLEAN : ResponseEvent(success) \/ recvRespRetry(success)
  \/ drain

Spec == Init /\ [][Next]_portVars

\* The clock ticks, the controller and the cube deal with every transaction,
\* scheduled events happen, gem5 retries after a refusal and does not refuse
\* a response for ever.
FairSpec ==
  /\ Spec
  /\ WF_portVars(Tick)
  /\ \A p \in Packet :
       /\ WF_portVars(\E T \in SUBSET downBuffers : p \in T /\ TickIdle(T))
       /\ WF_portVars(TickComplete({}, p))
  /\ WF_portVars(\E success \in BOOLEAN : ResponseEvent(success))
  /\ WF_portVars(\E success \in BOOLEAN : recvRespRetry(success))
  /\ SF_portVars(ResponseEvent(TRUE) \/ recvRespRetry(TRUE))

-----------------------------------------------------------------------------
(* Properties.                                                             *)

\* The types of the variables; the counters stay within the queue's size.
TypeOK ==
  /\ {retryReq, retryResp, sendResponseEvent, draining, assertFails} \subseteq BOOLEAN
  /\ outstandingReads \in [Addr -> Seq(Packet)]
  /\ outstandingWrites \in [Addr -> Seq(Packet)]
  /\ nbrOutstandingReads \in Nat /\ nbrOutstandingWrites \in Nat
  /\ nbrOutstandingReads + nbrOutstandingWrites <= QUEUE_SIZE
  /\ responseQueue \in Seq(Packet)
  /\ downBuffers \subseteq accepted /\ inCube \subseteq accepted
  /\ accepted \subseteq Packet /\ accessed \subseteq Packet
  /\ answered \in [Packet -> Nat]
  /\ drift \in -PERIOD .. START

\* No assert of the port fails: a request that passes the port's own count finds
\* room in the controller ("we should never have a situation when we think there
\* is space, and there isn't", dramsim2.cc:222-224), a completion comes in the cycle
\* that gem5's time gives (289, 317) and finds an outstanding packet of its address
\* (296, 324), and a response is sent, or asked for again, only when there is one
\* and no retry is pending.  It needs Aligned, PlainPackets and WholeTicks.
NoAssertFails == Running

\* Whenever a response waits, the event that sends it is scheduled or a retry
\* from gem5 is awaited, never both and never without a response: nothing else
\* would send it (dramsim2.cc:119, 127, 279).
ResponseScheduled ==
  /\ responseQueue # <<>> <=> sendResponseEvent \/ retryResp
  /\ ~(sendResponseEvent /\ retryResp)

\* While gem5 waits for the end of a drain something is outstanding: the last
\* response or write to finish signals it, whichever comes last
\* (dramsim2.cc:123, 336).
DrainSignalled == draining => nbrOutstanding # 0

\* Each packet that has been accepted and wants a response is in exactly one
\* place, once: waiting for its completion, in the response queue, or answered.
\* The completions come by address and out of order, and take the oldest packet
\* of the address whichever transaction they are for (dramsim2.cc:300).
AnsweredOnce ==
  \A p \in Packet :
    LET Times(q) == Cardinality({i \in DOMAIN q : q[i] = p})
    IN Times(outstandingReads[Requests[p].addr]) + Times(responseQueue) + answered[p]
       = IF p \in accepted /\ Requests[p].needsResponse THEN 1 ELSE 0

\* Every packet that wants a response gets it, with full buffers, refused
\* responses and any order of completions.  It needs what NoAssertFails needs: a
\* read whose completion has another address is never answered.
EveryAnswer ==
  \A p \in Packet :
    p \in accepted /\ Requests[p].needsResponse ~> answered[p] = 1

\* The retry that gem5 has been promised is sent (dramsim2.cc:148): without it
\* gem5 would never try again.
RetrySent == retryReq ~> ~retryReq
=============================================================================
