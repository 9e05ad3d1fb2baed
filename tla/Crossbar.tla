------------------------------ MODULE Crossbar ------------------------------
(***************************************************************************)
(* The crossbar switch of the cube (CrossbarSwitch.cpp, on top of          *)
(* DualVectorObject.h), between the link slaves and masters at the cube's  *)
(* end and the vault controllers.  A request longer than the maximum block *)
(* size is divided into segments, one for each block, which go to          *)
(* different vaults; their responses are combined by TAG.                  *)
(*                                                                         *)
(* CrossbarUpdate is the whole of CrossbarSwitch::Update.  The neighbours  *)
(* are reduced to the calls they exchange with it: a slave that offers a   *)
(* request, a vault controller that takes its packets out in an order of   *)
(* its own, accesses the banks and returns responses, and a link master    *)
(* that sends what it was given.                                           *)
(*                                                                         *)
(* Sizes are in FLITs of 16 bytes and addresses in blocks.  bufPopDelay    *)
(* postpones an Update and is part of the interleaving.  A link that is    *)
(* not ACTIVE is passed over exactly as one whose buffer is full.  There   *)
(* are fewer requests than TAGs (2048), so a request's number is its TAG.  *)
(***************************************************************************)
EXTENDS Integers, Sequences, FiniteSets, SequencesExt, FiniteSetsExt

CONSTANTS
  NULL,                \* a virtual tail of a packet in a buffer
  Requests,            \* Requests[t]: the request with TAG t
  BLOCK,               \* ADDRESS_MAPPING, the maximum block size
  NUM_VAULTS,
  NUM_LINKS,
  MAX_CROSS_BUF,       \* sizes of the buffers, in FLITs
  MAX_VLT_BUF,
  MAX_LINK_BUF

Tag == DOMAIN Requests
Vault == 0 .. NUM_VAULTS - 1
Link == 0 .. NUM_LINKS - 1

ASSUME CrossbarAssumption ==
  /\ {BLOCK, NUM_VAULTS, NUM_LINKS, MAX_CROSS_BUF, MAX_VLT_BUF, MAX_LINK_BUF}
       \subseteq Nat \ {0}
  /\ Requests \in Seq([cmd : {"RD", "WR"}, adrs : Nat, size : Nat \ {0}])

\* A packet's members that the crossbar and its neighbours read; trace tells
\* whether the pointer to the transaction's trace is set.
PacketType ==
  [tag : Tag, cmd : {"RD", "WR"}, adrs : Nat, size : Nat \ {0}, lng : Nat \ {0},
   segment : BOOLEAN, trace : BOOLEAN]

ASSUME NullAssumption == NULL \notin PacketType

VARIABLES
  crossbar,     \* the CrossbarSwitch object
  vault,        \* VaultController objects: their buffers and the banks' work
  link,         \* link[l]: Buffers of the upstream LinkMaster l
  accepted,     \* TAGs of the requests received from the link slaves
  accessed,     \* pairs of a TAG and a block that a vault has accessed for it
  answered      \* answered[t]: responses with TAG t that have left on a link

crossbarVars == <<crossbar, vault, link, accepted, accessed, answered>>

-----------------------------------------------------------------------------
(* Packets and buffers.                                                    *)

RequestPacket(t) ==
  LET r == Requests[t] IN
  [tag |-> t, cmd |-> r.cmd, adrs |-> r.adrs, size |-> r.size,
   lng |-> IF r.cmd = "WR" THEN 1 + r.size ELSE 1,
   segment |-> FALSE, trace |-> TRUE]

\* The vault's answer to packet p.
RespondPacket(p) ==
  [p EXCEPT !.size = 1, !.lng = IF p.cmd = "RD" THEN 1 + p.size ELSE 1]

\* Packet p as it lies in a buffer: with its virtual tail.
Flits(p) == <<p>> \o [i \in 1 .. p.lng - 1 |-> NULL]

Packets(q) == {q[i] : i \in {j \in 1 .. Len(q) : q[j] # NULL}}

\* Buffer q without the packet at i.
Erase(q, i) == SubSeq(q, 1, i - 1) \o SubSeq(q, i + q[i].lng, Len(q))

\* Mutant of Fits: the last FLIT of a buffer is never used.
FitsBelow(q, p, max) == Len(q) + p.lng < max

\* ReceiveDown, ReceiveUp and Receive take a packet that fits.
Fits(q, p, max) == Len(q) + p.lng <= max

\* A loop's state after n iterations of Step.  It is kept in a singleton, so that
\* TLC evaluates each iteration once.
Iterate(Step(_), st, n) ==
  LET run[k \in 0 .. n] == IF k = 0 THEN {st} ELSE {Step(s) : s \in run[k - 1]}
  IN CHOOSE s \in run[n] : TRUE

-----------------------------------------------------------------------------
(* Downstream: one iteration of the loop over downBuffers, at position i.  *)

SegmentCount(size) == (size + BLOCK - 1) \div BLOCK

\* Mutant of Segments: every segment goes to the first block's vault.
SegmentsSameVault(p) ==
  [j \in 1 .. SegmentCount(p.size) |->
     [p EXCEPT !.size = BLOCK, !.lng = IF p.lng > 1 THEN 1 + BLOCK ELSE 1,
               !.segment = TRUE, !.trace = p.trace /\ j = 1]]

\* The segment packets of packet p: one for each block, the first one traced.
Segments(p) ==
  [j \in 1 .. SegmentCount(p.size) |->
     [p EXCEPT !.size = BLOCK, !.lng = IF p.lng > 1 THEN 1 + BLOCK ELSE 1,
               !.adrs = p.adrs + j - 1, !.segment = TRUE,
               !.trace = p.trace /\ j = 1]]

VaultMap(p) == p.adrs % NUM_VAULTS

\* Mutant of Divide: one tag for all segments of a request.
DivideOneTag(st) ==
  LET p == st.down[st.i]
      segs == FlattenSeq([j \in 1 .. SegmentCount(p.size) |-> Flits(Segments(p)[j])])
  IN [st EXCEPT !.down = SubSeq(@, 1, st.i - 1) \o segs
                           \o SubSeq(@, st.i + p.lng, Len(@)),
                !.tags = Append(@, p.tag),
                !.i = @ + Len(segs) + 1]

\* The packet at i is replaced by its segments, whether or not they fit.  The
\* loop goes on behind them and passes over the head that follows.
Divide(st) ==
  LET p == st.down[st.i]
      segs == FlattenSeq([j \in 1 .. SegmentCount(p.size) |-> Flits(Segments(p)[j])])
  IN [st EXCEPT !.down = SubSeq(@, 1, st.i - 1) \o segs
                           \o SubSeq(@, st.i + p.lng, Len(@)),
                !.tags = @ \o [j \in 1 .. SegmentCount(p.size) |-> p.tag],
                !.i = @ + Len(segs) + 1]

DownStep(st) ==
  IF st.i > Len(st.down) THEN st
  ELSE LET p == st.down[st.i] IN
    CASE p = NULL -> [st EXCEPT !.i = @ + 1]
      [] p # NULL /\ p.size > BLOCK -> Divide(st)
      [] p # NULL /\ p.size <= BLOCK ->
           LET v == VaultMap(p) IN
           IF Fits(st.vaults[v], p, MAX_VLT_BUF)
           THEN [st EXCEPT !.down = Erase(@, st.i), !.vaults[v] = @ \o Flits(p)]
           ELSE [st EXCEPT !.i = @ + 1]

\* Each iteration leaves a FLIT behind or takes one out.
DownLoop(st) == Iterate(DownStep, st, Len(st.down))

-----------------------------------------------------------------------------
(* Upstream: one iteration of the loop over upBuffers, at position i.      *)

\* The tag at j is the last pending one of its request: none follows it.
IsLast(tags, j) == \A k \in j + 1 .. Len(tags) : tags[k] # tags[j]

\* Mutant of Combine: the pending packet keeps its own address.
CombineOwnAddress(q, p) ==
  [q EXCEPT !.lng = IF p.lng > 1 THEN @ + BLOCK ELSE @, !.trace = @ \/ p.trace]

\* Pending packet q with segment p: the traced segment is the first one.
Combine(q, p) ==
  [q EXCEPT !.lng = IF p.lng > 1 THEN @ + BLOCK ELSE @,
            !.trace = @ \/ p.trace,
            !.adrs = IF p.trace THEN p.adrs ELSE @]

\* A segment joins the pending packet n of its request.  The complete packet
\* is put in front of the buffer, whether or not it fits, and stays for the
\* next Update unless a later insertion pushes it back.
JoinPending(st, p, n, last) ==
  LET q == Combine(st.pending[n], p)
      rest == Erase(st.up, st.i)
  IN IF last
     THEN [st EXCEPT !.up = Flits([q EXCEPT !.segment = FALSE]) \o rest,
                     !.pending = RemoveAt(@, n), !.i = @ + 1]
     ELSE [st EXCEPT !.up = rest, !.pending[n] = q]

UpSegment(st) ==
  LET p == st.up[st.i]
      found == {j \in 1 .. Len(st.tags) : st.tags[j] = p.tag}
      joins == {n \in 1 .. Len(st.pending) : st.pending[n].tag = p.tag}
  IN IF found = {}
     THEN [st EXCEPT !.error = "segment packet without a pending tag",
                     !.i = Len(st.up) + 1]
     ELSE LET j == Min(found)
              rest == [st EXCEPT !.tags = RemoveAt(@, j)]
          IN IF joins # {}
             THEN JoinPending(rest, p, Min(joins), IsLast(st.tags, j))
             ELSE [rest EXCEPT !.pending = Append(@, p), !.up = Erase(@, st.i)]

\* FindAvailableLink: the k-th link after l, in turn.
RoundRobin(l, k) == (l + k) % NUM_LINKS

\* A complete response goes to the first link in turn that takes it.
UpResponse(st) ==
  LET p == st.up[st.i]
      takers == {k \in 1 .. NUM_LINKS :
                   Fits(st.links[RoundRobin(st.service, k)], p, MAX_LINK_BUF)}
  IN IF takers = {}
     THEN [st EXCEPT !.service = RoundRobin(@, NUM_LINKS), !.i = @ + 1]
     ELSE LET l == RoundRobin(st.service, Min(takers))
          IN [st EXCEPT !.service = l, !.up = Erase(@, st.i),
                        !.links[l] = @ \o Flits(p)]

UpStep(st) ==
  IF st.i > Len(st.up) THEN st
  ELSE LET p == st.up[st.i] IN
    CASE p = NULL -> [st EXCEPT !.i = @ + 1]
      [] p # NULL /\ p.segment -> UpSegment(st)
      [] p # NULL /\ ~p.segment -> UpResponse(st)

\* The FLITs that the loop can meet: those in the buffer and the pending ones.
UpFlits(st) ==
  LET flits[n \in 0 .. Len(st.pending)] ==
        IF n = 0 THEN Len(st.up) ELSE flits[n - 1] + st.pending[n].lng
  IN flits[Len(st.pending)]

UpLoop(st) == Iterate(UpStep, st, 2 * UpFlits(st))

-----------------------------------------------------------------------------
Init ==
  /\ crossbar = [downBuffers |-> <<>>, upBuffers |-> <<>>, pendingSegTag |-> <<>>,
                 pendingSegPacket |-> <<>>, inServiceLink |-> -1, error |-> ""]
  /\ vault = [v \in Vault |-> [downBuffers |-> <<>>, banks |-> {}, upBuffers |-> <<>>]]
  /\ link = [l \in Link |-> <<>>]
  /\ accepted = {}
  /\ accessed = {}
  /\ answered = [t \in Tag |-> 0]

Running == crossbar.error = ""

\* A link slave's request is received (LinkSlave::Update).
ReceiveDown(t) ==
  LET p == RequestPacket(t) IN
  /\ Running
  /\ t \notin accepted
  /\ Fits(crossbar.downBuffers, p, MAX_CROSS_BUF)
  /\ crossbar' = [crossbar EXCEPT !.downBuffers = @ \o Flits(p)]
  /\ accepted' = accepted \cup {t}
  /\ UNCHANGED <<vault, link, accessed, answered>>

\* CrossbarSwitch::Update.  The two loops are quantified over a singleton, so that
\* TLC evaluates each of them once.
CrossbarUpdate ==
  \E down \in {DownLoop([i |-> 1, down |-> crossbar.downBuffers,
                         tags |-> crossbar.pendingSegTag,
                         vaults |-> [v \in Vault |-> vault[v].downBuffers]])} :
  \E up \in {UpLoop([i |-> 1, up |-> crossbar.upBuffers, tags |-> down.tags,
                     pending |-> crossbar.pendingSegPacket, links |-> link,
                     service |-> crossbar.inServiceLink, error |-> ""])} :
     /\ Running
     /\ crossbar' = [downBuffers |-> down.down, upBuffers |-> up.up,
                     pendingSegTag |-> up.tags, pendingSegPacket |-> up.pending,
                     inServiceLink |-> up.service, error |-> up.error]
     /\ vault' = [v \in Vault |-> [vault[v] EXCEPT !.downBuffers = down.vaults[v]]]
     /\ link' = up.links
     /\ UNCHANGED <<accepted, accessed, answered>>

\* The vault controller turns the packet at i into commands for the banks.
ConvPacketIntoCMDs(v, i) ==
  LET q == vault[v].downBuffers IN
  /\ Running
  /\ i \in 1 .. Len(q) /\ q[i] # NULL
  /\ vault' = [vault EXCEPT ![v].downBuffers = Erase(q, i), ![v].banks = @ \cup {q[i]}]
  /\ UNCHANGED <<crossbar, link, accepted, accessed, answered>>

\* The access for packet p is done and its response made.  The vault controller
\* has kept room for it.
MakeRespondPacket(v, p) ==
  /\ Running
  /\ p \in vault[v].banks
  /\ Fits(vault[v].upBuffers, RespondPacket(p), MAX_VLT_BUF)
  /\ vault' = [vault EXCEPT ![v].banks = @ \ {p},
                            ![v].upBuffers = @ \o Flits(RespondPacket(p))]
  /\ accessed' = accessed \cup {<<p.tag, p.adrs>>}
  /\ UNCHANGED <<crossbar, link, accepted, answered>>

\* The vault controller's first response is received by the crossbar.
ReceiveUp(v) ==
  LET q == vault[v].upBuffers IN
  /\ Running
  /\ q # <<>>
  /\ Fits(crossbar.upBuffers, q[1], MAX_CROSS_BUF)
  /\ crossbar' = [crossbar EXCEPT !.upBuffers = @ \o Flits(q[1])]
  /\ vault' = [vault EXCEPT ![v].upBuffers = Erase(q, 1)]
  /\ UNCHANGED <<link, accepted, accessed, answered>>

\* The link master's first response leaves the cube.
SendResponse(l) ==
  /\ Running
  /\ link[l] # <<>>
  /\ link' = [link EXCEPT ![l] = Erase(@, 1)]
  /\ answered' = [answered EXCEPT ![link[l][1].tag] = @ + 1]
  /\ UNCHANGED <<crossbar, vault, accepted, accessed>>

VaultStep(v) ==
  \/ \E i \in 1 .. Len(vault[v].downBuffers) : ConvPacketIntoCMDs(v, i)
  \/ \E p \in vault[v].banks : MakeRespondPacket(v, p)

Next ==
  \/ \E t \in Tag : ReceiveDown(t)
  \/ CrossbarUpdate
  \/ \E v \in Vault : VaultStep(v) \/ ReceiveUp(v)
  \/ \E l \in Link : SendResponse(l)

CrossbarSpec == Init /\ [][Next]_crossbarVars

\* The crossbar, the vaults and the links are updated again and again, and every
\* access comes to an end.
CrossbarFairSpec ==
  /\ CrossbarSpec
  /\ WF_crossbarVars(CrossbarUpdate)
  /\ WF_crossbarVars(\E v \in Vault : VaultStep(v))
  /\ WF_crossbarVars(\E v \in Vault : ReceiveUp(v))
  /\ WF_crossbarVars(\E l \in Link : SendResponse(l))

-----------------------------------------------------------------------------
(* Properties.                                                             *)

Blocks(t) ==
  LET r == Requests[t]
  IN r.adrs .. r.adrs + SegmentCount(r.size) - 1

CrossbarPackets == Packets(crossbar.downBuffers) \cup Packets(crossbar.upBuffers)
VaultPackets(v) ==
  Packets(vault[v].downBuffers) \cup vault[v].banks \cup Packets(vault[v].upBuffers)

\* Buffer q consists of whole packets, each followed by its virtual tail.
Whole(q) ==
  \A i \in 1 .. Len(q) :
    IF q[i] = NULL THEN i > 1
    ELSE /\ i + q[i].lng - 1 <= Len(q)
         /\ \A j \in i + 1 .. i + q[i].lng : j <= Len(q) =>
              (q[j] = NULL <=> j < i + q[i].lng)

\* Every buffer holds whole packets, so that the heads read at upBuffers[0]
\* and the lengths erased from a loop's position are those of a packet, and
\* the vault and link buffers keep to their sizes.
BuffersWhole ==
  /\ Whole(crossbar.downBuffers) /\ Whole(crossbar.upBuffers)
  /\ \A v \in Vault : \A q \in {vault[v].downBuffers, vault[v].upBuffers} :
       Whole(q) /\ Len(q) <= MAX_VLT_BUF
  /\ \A l \in Link : Whole(link[l]) /\ Len(link[l]) <= MAX_LINK_BUF

\* The exit "pendingSegTag doesn't have segment packet tag"
\* (CrossbarSwitch.cpp:133) is not reached, whatever the order in which
\* responses of several requests come back from the vaults.
NoErrorExit == crossbar.error = ""

\* Each tag in pendingSegTag stands for one segment packet that is still in the
\* crossbar or a vault: none is lost on the way, sent twice, or counted for
\* another request (CrossbarSwitch.cpp:87, 114-131).
SegmentsAccounted ==
  \A t \in Tag :
    LET OnTheWay(S) == Cardinality({p \in S : p.tag = t /\ p.segment})
    IN Cardinality({j \in 1 .. Len(crossbar.pendingSegTag) :
                      crossbar.pendingSegTag[j] = t})
       = OnTheWay(CrossbarPackets
                    \cup UNION {VaultPackets(v) : v \in Vault})

\* A pending packet is what the segments that have come back add up to: one
\* packet for a request, with the trace once the first block is among them
\* (CrossbarSwitch.cpp:137-172).
PartialResponse ==
  LET pending == crossbar.pendingSegPacket IN
  \A n \in 1 .. Len(pending) :
    LET q == pending[n]
        back == SegmentCount(Requests[q.tag].size)
                - Cardinality({j \in 1 .. Len(crossbar.pendingSegTag) :
                                 crossbar.pendingSegTag[j] = q.tag})
    IN /\ \A m \in 1 .. Len(pending) : pending[m].tag = q.tag => m = n
       /\ q.lng = IF q.cmd = "RD" THEN 1 + back * BLOCK ELSE 1
       /\ q.trace => q.adrs = Requests[q.tag].adrs
       /\ back < SegmentCount(Requests[q.tag].size)

\* A response that leaves the crossbar carries the address and the trace of its
\* request and the data of all its blocks: the HMC controller reports it with
\* that address and reads the trace (HMCController.cpp:206-219).
ResponseIntact ==
  \A l \in Link : \A p \in Packets(link[l]) :
    LET r == Requests[p.tag] IN
    /\ p.adrs = r.adrs /\ p.trace /\ ~p.segment
    /\ p.lng = IF r.cmd = "RD" THEN 1 + r.size ELSE 1
    /\ \A b \in Blocks(p.tag) : <<p.tag, b>> \in accessed

\* At every moment: the crossbar's buffers are well formed, its exit is not
\* reached, and the pending tags and packets agree with the segments under way.
CrossbarInv == BuffersWhole /\ NoErrorExit /\ SegmentsAccounted /\ PartialResponse

Memory == INSTANCE CubeMemory WITH Request <- Tag, Blocks <- Blocks

\* Each accepted request is answered at most once, after an access of every
\* block by a vault, and no block is accessed twice: the crossbar and its
\* neighbours implement CubeMemory.
AnswersOnce == Memory!Spec

\* Every request that is accepted is answered in the end: the segments that a
\* full vault refuses, the pending packets and the responses that no link takes
\* all move on (CrossbarSwitch.cpp:61-203).
AnswersAll == \A t \in Tag : t \in accepted ~> answered[t] > 0
=============================================================================
