# A TLA+ verification of CasHMC

CasHMC simulates a Hybrid Memory Cube cycle by cycle: a host-side HMC
controller, serial links in both directions, and a cube with a crossbar switch,
vault controllers and DRAM banks. This directory holds TLA+ modules translated
from its C++ sources, TLC configurations that check them on small instances and
TLAPS proofs about them for every instance.

## 1. The system

| Component | Source | State | Operations | What makes it correct |
|---|---|---|---|---|
| Link master | `LinkMaster.cpp` | `Buffers`, `backupBuffers`, `linkRxTx`, ring `retryBuffers` with `retBufReadP`/`retBufWriteP`, `tokenCount`, `lastestRRP`, `masterSEQ`, CRC countdown, retry state and timer | `Receive`, `Update`, and, called by the local slave, `UpdateRetryPointer`, `ReturnRetryPointer`, `UpdateToken`, `ReturnTocken`, `StartRetry`, `LinkRetry`, `FinishRetry` | a saved packet is kept until it is accepted; tokens match the peer's free space; every retry ends |
| Link slave | `LinkSlave.cpp` | `linkRxTx`, `Buffers`, `slaveSEQ`, CRC countdown, error abort mode | `Update` (flow control, checks, forwarding) | accepts each packet once, never overflows |
| Serial link | `Link.cpp` | packet in flight, countdown | `Update`, `NoisePacket` | one packet at a time, in order |
| HMC controller | `HMCController.cpp` | request and response buffers, `inServiceLink`, `returnTransCnt`, link power states | `ReceiveTran`, `Update`, three power managers | dependent requests stay in order; each response completes one transaction; no request to a sleeping link |
| Crossbar switch | `CrossbarSwitch.cpp` | two buffers, `pendingSegTag`, `pendingSegPacket` | `Update` | segments of a request are combined into exactly one response |
| Vault controller | `VaultController.cpp` | two buffers, `pendingDataSize`, buses, `atomicCMD`, `pendingReadData` | `Update`, `ReturnCommand` | a response always finds room; buses never collide; atomics are atomic |
| Command queue | `CommandQueue.cpp` | queues per bank or vault, bank states, `tFAW`, `atomicLock`, refresh | `Enqueue`, `CmdPop` | only legal commands leave it, and every command does |
| DRAM | `DRAM.cpp`, `BankState.cpp` | bank state machine, pending reads | `receiveCMD`, `Update` | no command hits a bank in a wrong state |
| Wrapper, cube | `CasHMCWrapper.cpp`, `HMC.cpp` | clock tuners | `Update` | the order of updates in a CPU cycle |
| gem5 port | `integration/gem5/mem/dramsim2.cc` | outstanding maps, response queue, retry flags | timing request, retry, tick, completions | every request is answered, every owed retry is sent |
| Others | packets, transactions, callbacks, configuration, statistics, `RunSim.cpp`, `TraceGen.cpp` | | | data types, parsing, reports and drivers |

**How they interact.** There are no threads. One CPU cycle of
`CasHMCWrapper::Update` (`CasHMCWrapper.cpp:299`) updates the HMC controller,
the downstream masters, the downstream links, the cube (`HMC.cpp:75`:
downstream slaves, crossbar, vaults, DRAM, upstream masters), the upstream
links and the upstream slaves. The link and the cube have clocks of their own
and are updated several times, or not at all, in a CPU cycle. A packet moves by
a call of the receiver's `Receive`, which refuses it when it does not fit. A
slave handler calls its *local* master (the one that sends the other way), so
four objects at the two ends of a link share one protocol state.

**What is hard.** Noise inverts a CRC; the slave then drops everything until
the other end has sent its saved packets again. Both ends can do this at the
same time, pointers and tokens travel in the very packets that are dropped, a
timer may expire while an answer is under way, and CRC computation delays
packets by their length. None of this is covered by a test: the repository has
none. `PROJECT.json` lists every hazard at its line.

## 2. Plan and modules

| Part | Modules | Abstract specification | State |
|---|---|---|---|
| Link protocol | `LinkLayer`, `LinkClock`, `LinkLayer_proofs`, `LinkWhole_proofs` | `LinkChannel` | section 3 |
| Crossbar | `Crossbar`, `Crossbar_proofs` | `CubeMemory` | section 4 |
| Vault: controller, command queue, DRAM | `VaultController` on `CommandQueue` on `DRAM`, `VaultController_proofs`, `VaultBooks_proofs` | | section 5 |
| gem5 port, address mapping | `Gem5Port` on `AddressMap`, `Gem5Port_proofs` | | section 6 |
| Power management and the controller's front end | `LinkPower`, `LinkPower_proofs` | | section 7 |
| Sums and loops in proofs | `SumsAndLoops` | | sections 4, 5, 7 |

`MC*` modules hold the instances for TLC. The parts meet at calls: a `DATA`
packet of `LinkLayer` and of `LinkPower` is what `Crossbar` receives in
`ReceiveDown`; a vault of `Crossbar` takes and answers packets in any order,
which covers what `VaultController` does with them; `CanAcceptTran` and the
callbacks of the HMC controller, with the address that `AddressMap` makes of a
request's, are the environment of `Gem5Port`.

`SumsAndLoops` has what needs an induction on numbers, derived from the least
element of a set of naturals: the sum of a weight over a sequence (tokens, pointers)
and that what each round of a loop keeps holds after the last.

Left for later: a proof of `RetryOnlyOnNoise` without noise; the clock tuners; `LinkPower` with noise.

## 3. The link protocol

### Modules

* `LinkLayer` - one link: `master[e]`, `slave[e]` and `inFlight[e]` for the two
  ends `Host` and `Cube`. `master[e]` sends to `slave[Peer(e)]`; the slave's
  `localLinkMaster` is `master[e]`. Each record has a field for each C++ member
  the protocol reads, under the member's name. Every method is an operator of
  the same name from record to record, and every `Update()` is one action:

  | Action | Code |
  |---|---|
  | `Submit(e)` | `Receive` called by the HMC controller (`HMCController.cpp:142-194`) or the crossbar (`CrossbarSwitch.cpp:176-197`) |
  | `MasterUpdate(e)` | `LinkMaster::Update`: `SendHead`, `FinishLinkRetry`, `RunRetryTimer` in the code's order |
  | `LinkStart`, `LinkDone`, `LinkNoise` | `Link::Update` when it starts and when it ends a transmission, without and with noise |
  | `SlaveUpdate(e)`, `SlaveForward(e)` | `LinkSlave::Update` when the crossbar (HMC controller) refuses or takes the head |

  The slave's loop over `linkRxTx` passes over the packets that wait for their
  CRC and breaks at the first other one; the action picks the position `k` of
  that packet, `BreaksAt` says it is the right one, `PassOver` does what the
  loop does on its way and `Process` what it does there.
* `LinkClock` - `LinkLayer` under the wrapper's order of updates, with the time
  a transmission takes (`inFlightCountdown`). The HMC clock equals the CPU
  clock; `FLIT_CYCLES` is the ratio to the link's clock.
* `LinkChannel` - what the rest of the simulator may rely on: exactly-once
  delivery through a channel of bounded capacity. `LinkLayer` implements it
  (`Channel == INSTANCE LinkChannel WITH ...`); `submitted` and `delivered` are
  the same variables in both.
* `MCLinkLayer`, `MCLinkClock` - traffic and CRC delays for TLC.
* `LinkLayer_proofs`, `LinkWhole_proofs` - theorems.

### Abstractions

* A DATA packet stands for any request or response; it keeps its length, its
  number and the protocol fields. A CRC is reduced to `bad`: noise inverts it
  (`~CRC`), which never matches.
* `bufPopDelay` makes a packet visible one `Update` after it was stored. In
  `LinkLayer` a later `Update` is a later action, so every delay is covered. In
  `LinkClock` the delay of a hop is absorbed: a packet may move on in the same
  cycle.
* `errorRetryLat` and all statistics are left out. `LINK_POWER` is
  `NO_MANAGEMENT`; QUIET, NULL_ and the sleep states are in `LinkPower` (section 7).
* An `ERROR ...; exit(0)` sets `error`, and nothing runs after it.
* Noise hits at most `MAX_ERRORS` transmissions.

### Runs

`SEQ_MAX` (7 in the code) is 3, or 2, so that the numbers run out within the
traffic; `MAX_RETRY_BUF` is 3 or 6 slots so that the ring wraps and fills;
`MAX_LINK_BUF` is a little more than the longest packet, so that tokens run out;
`NUM_OF_IRTRY` and `RETRY_ATTEMPT_LIMIT` are the defaults, 2, except in
`link_any_order_noise` (one IRTRY, a timer of one Update: under free
interleaving this lets it expire at any point).

| Run | Question | States |
|---|---|---|
| `link_any_order` | Every interleaving, no noise: exactly-once in-order delivery (`ChannelSafe`), no slot of the ring written twice (`NoOverwrite`), no retry without noise; under weak fairness of every Update everything is delivered (`ChannelLive`) and every pointer comes back (`FRPReturns`) | 32 093 |
| `link_any_order_noise` | Every interleaving, one noisy transmission, time-outs at any moment: types, ring and buffers stay well formed (`RetrySlots`, `WholePackets`) | 213 649 |
| `link_clock_noise` | The wrapper's order, the default CRC delay, two noisy transmissions in any direction: no ERROR exit, each packet accepted once (`ExactlyOnce`), tokens conserved, the retry ring a chain of whole unaccepted packets (`RetryChain`, `FreedAccepted`), an error always followed up (`RetryPending`) | 424 325 |
| `link_clock_live` | The wrapper's order, one noisy transmission: the retry ends, the backup packets return | 56 106 |

Under free interleaving noise does lead to the faults below, with time-outs
that the wrapper's schedule excludes on a fast link; therefore the invariants
about accepted packets are checked with noise only in `LinkClock`.

**Fairness.** `LinkFairness` (weak fairness of every Update) is what the clocks
give: each object is updated again and again. The crossbar and the HMC
controller are assumed to take a packet that is offered for ever. In
`LinkClock`, `WF(Next)` says that the clock never stops; `SF(SourceSubmits)` and
`SF(SlaveForwards)`, that a source which has a packet and room for it in
infinitely many cycles hands it over, and a consumer which is offered one in
infinitely many cycles takes it: their own turn comes only once in a cycle, so
weak fairness would be void.

**Order.** The abstract channel is `Ordered` only when there is no noise. After
a retry, packets submitted in LINK_RETRY overtake those in `backupBuffers`.
No comment promises order, so this is a limit of the abstract specification and
not a finding.

### Finding, and where the properties end

`stale_rrp` refutes `FreedAccepted`: IRTRY packets jump the queue with the newest
RRP; the packet behind them carries an older one, and `UpdateRetryPointer` runs
round the whole ring, deleting packets that are still needed. It needs one noisy
transmission and the same two packets in both directions.

The properties of the passing runs hold on instances like the default
configuration. With other constants TLC refutes them too:

| Change to a run | Property | What happens |
|---|---|---|
| `link_clock_live` with traffic `<<3, 1, 1>>` downstream only, no noise, a CRC delay of a cycle for each FLIT (`CRC_CAL_CYCLE >= 1`), `MAX_LINK_BUF = 5` | `RetryOnlyOnNoise` | one CRC countdown is shared by all waiting packets (`LinkSlave.cpp:180`); a short packet is checked before the long one it follows and its SEQ is wrong |
| `link_any_order` with traffic `<<2, 1>>` in both directions | `FRPReturns` | both retry buffers are full; the pointers that would free them wait in heads that cannot be sent (`LinkMaster.cpp:89`): deadlock |
| `link_clock_noise` with one noisy transmission, no CRC delay and `FLIT_CYCLES = 6` | `RetryPending` | the last time-out makes the master ACTIVE while its slave drops everything for ever (`LinkMaster.cpp:360`) |
| the same | `TokenConservation` | an answer arrives after its time-out; packets are sent and accepted twice and tokens counted twice (`LinkMaster.cpp:365`) |
| `link_clock_live` with two noisy transmissions | `BackupReturns` | both ends retry at once; `FinishRetry` leaves LINK_RETRY with packets still in `backupBuffers` (`LinkMaster.cpp:270`) |

### Proofs

`LinkLayer_proofs` proves, from the named assumptions on the constants alone
(positive sizes, packet lengths that fit a buffer, `NULL` not a packet), for
every interleaving, any number of noisy transmissions and any time-out:

* `TypeCorrect`: `LinkSpec => []TypeOK`. With it every pointer, stored or on the
  way, is a slot of the ring: no access outside `retryBuffers`.
* `RetryRingInOrder`: `LinkSpec => []RetrySlots`. Only slots between the read and
  the write pointer hold packets. This stays true in all the cases above:
  stale pointers lose packets, they do not break the ring.
* `NeverOverwritten`: `LinkSpec => []NoOverwrite`. The exit at
  `LinkMaster.cpp:437` is unreachable.

None of these is inductive alone. `IInv` is `TypeOK` with `MasterOK(master[e])` and
`SlaveOK(slave[e])` for both ends. `MasterOK` says that the master is well typed,
that its ring is in order (`RetrySlots`) and that it has not failed with "retry
slot is not NULL"; `SlaveOK`, that the slave is well typed and its buffer holds
whole packets (`Whole`). The parts need each other: a slot is free for the next
packet (`NoOverwrite`) only because of `RetrySlots`; `RetrySlots` is kept by
`UpdateRetryPointer` only if the pointer it is given is a slot, a fact about
packets anywhere, that is, `TypeOK`; and the head that a slave forwards, and
whose length it returns as tokens, is a packet because its buffer is whole. For each method there is a lemma that it
keeps `MasterOK`; `NextIInv` combines them, one step per action. `RoomExtendsSpan`
is the arithmetic core: with the room test passed, moving the write pointer by
a packet's length keeps all saved slots in the span.

`LinkWhole_proofs` adds, again for every interleaving, noise and time-out:

* `BuffersWhole`: `LinkSpec => []WholePackets`. `Buffers`, `backupBuffers` and the slave's
  buffer hold whole packets, each head with its virtual tails behind it.
* `SplitExitsDead`: no step finds a virtual tail where it expects a packet. The exits
  at `LinkMaster.cpp` 258 and 296 are unreachable, and the TRET that `ReturnTocken`
  inserts behind the head (155) lands inside `Buffers`.

`WholeInv` is the invariant they need beyond `IInv`. A master refills `Buffers` from
the retry ring, so the ring has to hold whole packets as well, from any slot a peer's
pointer, fresh or stale, may move the read pointer to: `RingWhole` says that every
saved packet ends at or before the write pointer, has only NULL in its tail and is
followed by the next one, and does not speak of the read pointer at all. A TRET goes
behind the head only while `startCRC` is set, so the invariant ties that flag to a
packet at the head. `RoomAddsLength` and `NextKept` are the ring arithmetic,
`WholeConcat` and its kin what insertion and erasure do to whole buffers.

Only model-checked, and why: `NoErrorExit`, `ExactlyOnce`, `TokenConservation`,
`RetryChain`, `RetryPending` and `BackupReturns` hold with noise only under the
wrapper's schedule and on instances that exclude the cases above: they are no
theorems of `LinkSpec`, and for `LinkClock` would need the timing of a whole
retry as an invariant. `RetryOnlyOnNoise` and the refinement of `LinkChannel`
without noise depend on the CRC delays in the same way. Liveness is outside the
prover's reach.

## 4. The crossbar switch

### Modules

* `Crossbar` - the switch with the calls of its neighbours. `crossbar` has the
  members of `CrossbarSwitch` and its buffers; `CrossbarUpdate` is the whole of
  `CrossbarSwitch::Update`. Its two loops change the buffer they run over, so
  they are kept as loops: `DownStep` and `UpStep` are one iteration, with the
  index among their state, and `Iterate` repeats them.

  | Action | Code |
  |---|---|
  | `ReceiveDown(t)` | `DualVectorObject::ReceiveDown` called by a link slave (`LinkSlave.cpp:248`) |
  | `CrossbarUpdate` | `Update`: `Divide`, hand-over to the vault that `VaultMap` names, `UpSegment`, `UpResponse` |
  | `ConvPacketIntoCMDs(v, i)` | the vault controller takes a packet out of `downBuffers`, from any position |
  | `MakeRespondPacket(v, p)` | an access is done; its response is put into the vault's `upBuffers` |
  | `ReceiveUp(v)` | the vault's head response is received by the crossbar |
  | `SendResponse(l)` | a link master sends the head of its `Buffers` |

* `CubeMemory` - what the cube promises: each accepted request is answered once,
  after an access of every block. `Crossbar` implements it; `accepted`,
  `accessed` and `answered` are the same variables in both.
* `MCCrossbar` - requests for TLC.

### Abstractions

The vault controller takes and answers packets in any order, which covers every
schedule of commands and banks; that a response finds room in its buffer is the
vault controller's own promise, and is assumed here. Reads and writes only: an
atomic is never divided and passes like a request of one block. A request's
number is its TAG, for the instances have fewer requests than the 2048 TAGs. A
link that is not ACTIVE is passed over like one whose buffer is full. Only
`ROUND_ROBIN` is modelled. Segments and combined responses are inserted without a
test of the size, here as in the code: the crossbar's buffers may exceed
`MAX_CROSS_BUF`, and then refuse for longer. Sizes are multiples of a block or at most a block: a
request of 48 bytes in blocks of 32 is answered with 64 bytes of data.

### Runs

Blocks are 32 bytes, the default; there are two vaults, so that requests of
three blocks come back to the first one, and two links. The buffers hold little
more than one packet, so that every refusal occurs.

`crossbar` has a read of three blocks, a write of two and a short read (61 334
states). In every order: no exit, no segment lost or counted twice, the pending
packet is the sum of what is back (`CrossbarInv`, a conjunction of four named
invariants); each response is intact and goes out once, after all accesses
(`ResponseIntact`, `AnswersOnce`, the refinement of `CubeMemory`); and with weak
fairness of the crossbar, the vaults and the links every accepted request is
answered (`AnswersAll`).

**Fairness.** `HMC::Update` updates the crossbar, all vaults and all link masters
in every cycle; that an access ends is the promise of the vault controller and
the DRAM. The traffic is finite: with endless short packets a long one could
wait for room for ever.

### Proofs

`Crossbar_proofs` proves, for any requests, block size, numbers of vaults and links and
sizes of buffers, from `CrossbarAssumption` and `NullAssumption` (`NULL` is no packet):

* `Consistent`: `CrossbarSpec => []CrossbarInv`, all four parts;
* `ResponsesIntact`: `CrossbarSpec => []ResponseIntact`, if every request longer than a
  block is a whole number of blocks. That is the limit the code has: it rounds the
  number of segments up (`CrossbarSwitch.cpp:69`), and the response has the data of
  whole blocks;
* `ImplementsMemory`: `CrossbarSpec => AnswersOnce`, the refinement of `CubeMemory`,
  step by step: `ReceiveDown` maps to `Accept`, `MakeRespondPacket` to `Access`,
  `SendResponse` to `Answer`, everything else to a stutter.

None is inductive. That a segment finds its tag needs every tag to be counted; that a
response is sent once needs all its segments and the pending packet to be accounted
for, wherever they are. `IInv` is `Buffers` and `Good`:

* `Buffers`: each buffer is `Tidy`, that is, holds whole packets and none of them twice,
  and vaults and links keep to their sizes.
* `Good` sees the buffers as sets of packets in *places* (`Contents`). `Placed`: no packet
  is in two places, and each is of a kind its place admits. `StageOf`: a request is
  in one of five stages: not accepted; a request packet; divided; a complete response;
  answered. In the divided stage exactly the blocks in `left` have a segment or
  its response somewhere, there are as many pending tags as such blocks, the accessed
  blocks are those whose segment is gone, and the pending packet is `Partial`: what the
  other blocks add up to.

The proof has three layers. Lemmas on buffers (`TidyParts`, `TidyErase`, `TidyPut`,
`TidyFlatten`) say what the code's insertions and erasures do to tidy buffers, and
`Contents...` lemmas what that means for the places. One `Good...` lemma for each kind
of move (`GoodAccept`, `GoodDivide`, `GoodAccess`, `GoodFirst`, `GoodMore`, `GoodLast`,
`GoodSend`, `GoodMove`) works on sets alone. For `CrossbarUpdate`, `DownStays` and
`UpStays` show that an iteration of each loop keeps the invariant, and `DownLoopStays`
and `UpLoopStays` carry it over the whole loop. TLC has checked `IInv` on all 61 334
states of `crossbar`.

Only model-checked: `AnswersAll`, for liveness is outside the prover's reach.

## 5. A vault

### Modules

`VaultController` holds the state of one vault, `vault`, in one record with a
field for each member of `VaultController`, `CommandQueue`, `DRAM` and
`BankState`. The methods are operators from record to record: the command queue's
in `CommandQueue`, the banks' in `DRAM`.

| Action, operator | Code |
|---|---|
| `ReceiveDown(tag)` | the crossbar puts a packet into `downBuffers` |
| `Cycle(taken, due)` | `VaultController::Update`, then `DRAM::Update`: the steps below in the code's order. `taken`: the crossbar takes the response offered; `due`: the refresh timer expires |
| `UpdateCountdown`, `CommandOut`, `DataOut`, `WriteDataOut` | command and data bus, write data |
| `ConvAll`, `ConvAt`, `ConvPacketIntoCMDs`, `Commands`, `AvailableSpace`, `Enqueue` | the loop over `downBuffers` and its conversion of a packet into commands |
| `CmdPop`: `RefreshScan`, `Arbitrate`, `CloseRow` | the scheduler: a refresh that waits, round robin over the banks, precharge of a row nobody waits for |
| `IssuePopped`, `Reserves` | reserved response space, the command bus |
| `AtomicOperation`, `ReturnCommand`, `MakeRespondPacket` | atomics and responses |
| `EnablePowerdown`, `PowerDown`, `PowerUp` | low power |
| `ReceiveCMD`, `StateChange`, `Elapse`, `DRAMUpdateState` | the banks' state machine and times, the read pipeline |

Times are counted down where the code compares with a cycle number: "`nextActivate
<= currentClockCycle`" is `nextActivate = 0`. So the state space is finite with no
bound on time. Histories: `converted` (order of conversion), `served`, `answers`,
and `since`, the age of each bank's last events, which measures the timing
independently of the banks' own next-times.

### Abstractions

A request comes with its bank, row and number of accesses; how they come from
an address is in `AddressMap` (section 6). Packets keep their length, the contents of memory are
left out. The refresh timer may expire in any cycle, at most `MAX_REFRESH` times,
which covers every phase of `tREFI`. `bufPopDelay` of a queue that was empty is kept
(`fresh`).

### Runs

The delays are the smallest that keep the relations of `ConfigDRAM.ini` between
them; `MAX_ROW_ACCESSES` is 2 so that rows are closed for it, the queue holds
five or six commands and the response buffer five or six FLITs, so that both fill.

| Run | Question | States |
|---|---|---|
| `vault_open_page` | Write, atomic, read and posted write of one row, a read of another row, one refresh: `VaultInv` (no exit by a bus collision or a full response buffer; reserved space equals what is owed; the place for a write-back), `AtomicRowOpen`, `SameRowOrder`, `CommandTiming`; every request is served and answered (`AllServed`), and the refresh is issued (`RefreshIssued`) | 102 k |
| `vault_close_page` | Requests of two accesses, an atomic without a response between others: the same, with automatic precharge | 139 k |
| `refresh_cut_short` (violation) | the timing of `ConfigDRAM.ini`: `RefreshWhole` | |

`CommandTiming` gives every command the least distances to the earlier commands
of its bank and of the others that the timing parameters stand for. It has two
limits, both of what the code keeps: the scheduler tests a time when it issues a
command, `tCMD` before the bank gets it, and an automatic precharge comes
`READ_AUTOPRE_DELAY` after its access, which does not look at `tRAS`.

**Fairness.** `HMC::Update` calls every vault in every cycle of the cube's clock
(`WF(Step)`), and the crossbar takes a response that is offered for ever
(`WF(CrossbarTakes)`). Nothing is assumed about refresh or requests.

**Finding.** `refresh_cut_short`: with `USE_LOW_POWER` the banks are powered down when
the queue is empty and no refresh waits, and this is so as soon as the REFRESH has
been popped. `DRAM::powerDown` refuses unless all banks are IDLE (`DRAM.cpp:163-169`),
so a refresh that runs is safe from it; but the REFRESH takes `tCMD` on the command
bus, during which the banks are IDLE and are powered down. It arrives, and they are
REFRESHING, while the vault's `powerDown` stays true. The next request makes
`EnablePowerdown` call `powerUp` (`DRAM.cpp:185-191`), which replaces the state, the
countdown and `nextActivate` by those of a wake-up: an ACTIVATE arrives after `tXP`,
before `tRFC` is over.

**Where the properties end.** An EQ8 or EQ16 under the close page policy leaves its
row open for ever and the vault stands still (`VaultController.cpp:427`): the
instance has no such atomic. So does a request of as many accesses as
`MAX_ROW_ACCESSES`, which `ConfigDRAM.ini:24` excludes. `SameRowOrder` starts at
conversion: the loop over `downBuffers` passes over the packet behind one it
erases, so requests may be converted out of order. With a `tFAW` of two cycles
the limit of four activations is not reached on two banks; no run sets
`QUE_PER_BANK = FALSE`. With `MAX_BLOCK = 256` (`ADDRESS_MAPPING`) a burst lasts eight
cycles, longer than `tCCD + 2`: a write that follows a read at the distance the banks
demand finds the read still on the data bus, and the simulator exits with "Data Bus
Collision" (`VaultController.cpp:82`). The instances have a burst within `tCCD + 2`.

### Proofs

`VaultController_proofs` proves, for any number of banks, rows and requests, any sizes
of queues and buffers, any bound on refreshes and with or without low power:

* `VaultBase`: `Spec => []Base`, the inductive invariant;
* `VaultCommandTiming`: `Spec => CommandTiming`;
* `VaultAtomicRowOpen`: `Spec => []AtomicRowOpen`.

The hypothesis, `OpenPage`, is the open page policy, a queue for each bank and what
`ConfigDRAM.ini` has of the times (with `tCK` 0.8 ns: `tCMD` 1, `tRRD` 4 up to `tRC`
40, `tRC` up to `tRAS + tRP + tCKE + tXP` = 46, `tCKE` 5 below `tRFC` 74). The last two
matter only with low power: `powerUp` sets the state and `nextActivate` of every bank
whatever is left of a precharge, of `tRC` or of a refresh (the finding above).

`CommandTiming` compares the banks' own next-times with `since`, which the code does not
have, and it is not inductive by itself. `Base` relates the two: `Timed` says of every
bank and every next-time that has n cycles left that the event it was set by is at least
its delay less n old; `Asleep` says what a powered-down bank has forgotten (its state)
and what it has not; the queue holds commands whose requests are known; and the lock
of an atomic goes with an open row. The command that is on the bus arrives in the
next cycle, so `Base` also says that it *may* arrive (`Arrives`), with all distances
one cycle larger than at its arrival.

A `Cycle` is one step of the specification, and twelve methods of the code. Its proof goes by
stages, each a record between two calls: arrival (`ArrivalKeeps`, a case for each
command), the loop `ConvAll`, the scheduler (`RefreshScan`, `Arbitrate`, `CloseRow`: each
pops only what may arrive), the command bus, the atomic's write-back, power-down, the
banks' `StateChange` and `Elapse`, the read pipeline. A `...Frame` lemma says for each
stage which fields it touches, a `...Keeps` lemma what of the invariant it keeps.

`VaultBooks_proofs` proves `VaultInvHolds`: `Spec => []VaultInv`, with one more hypothesis,
`ShortBursts`: `BL <= tCCD + 2`. `ConfigDRAM.ini` has `BL` 1 and `tCCD` 4; blocks of up to
128 bytes (`BL` 4) are within it, blocks of 256 bytes are not, and without it the collision
above ends the simulation. Its inductive invariant, `Books`, is `Base` with four parts:

* `Traffic`: the bursts of the read and of the write pipeline. Each access that waits was
  issued at its turn (`Line`: what is left of its delay and the age of its bank's last access
  add up to no more than the delay), any two of one kind are a burst apart, and no read ends
  while a write is on the data bus (`Apart`, from the turnaround distances). Hence no
  "Data Bus Collision";
* `Account`: `pendingDataSize` is the sum of what is owed for the accesses on the buses and
  in the buffers, and fits beside what waits in `upBuffers`. Hence a response always finds room;
* `Counted`: for each request, `pendingReadData` has as many entries as reads of it are
  queued or under way. Hence a read that returns finds its entry;
* `Locks`: while an atomic is between its read and its write-back (`Flow` is 1) it holds its
  bank's lock and none of its commands waits, and the queue keeps a place (`Place`). An
  atomic's commands are its access and at most an ACTIVATE right in front of it (`Single`).
  That a request is in one place only (`Known`) is needed for this: a second atomic of the
  same tag would find the lock its own.

None is inductive without the others: the room for a response is tested when the access is
issued and used when its data ends, and that this end happens once, and with the data bus
free, is what `Traffic` and `Counted` say. Loads are sums (`Total`) of a weight over the
commands under way, so one set of lemmas (`...Load`) serves what is owed and what is counted.
`RequestsAssumption` says what the code's packet types give: only writes and atomics are
posted (`Packet.h:44`), and an atomic is one access.

It also proves `VaultSameRowOrder`: `Spec => []SameRowOrder`, under the same hypotheses. `served`
and the order of conversion are histories the code does not keep, and the scheduler passes over
commands that may not be issued yet, so `Order` says what the queue must keep for them:

* `Sorted`: the accesses that wait for one row wait in the order of conversion, and the holder
  of a bank's lock was converted before every other access to its row that waits (`Ahead`). So
  the write-back may be put in front of the queue without passing over anything;
* `AllKept`: a request that was converted is served, or its last access waits, or it
  is an atomic that holds its lock;
* `InTurn`: what is served is closed under "converted sooner, same row".

An access leaves the queue by the dependency check (`CommandQueue.cpp:353`) or, under its lock,
from the front: either way as the first of its row (`LeavesFirst`), and if it is an atomic's read that takes
the lock, ahead of every other access to the row (`LockAhead`).
With `Sorted` and `AllKept` every request of the row converted sooner has been served by then.
That the holder of a lock is the atomic whose write-back is due, and that a request is in one
place only, is `Locks`; hence `Books` is part of this invariant (`VaultOrderKept`).
TLC has checked `Order` on the 101 684 states of `vault_open_page`.

Only model-checked: the close page policy; `AllServed` and `RefreshIssued` (liveness).

## 6. The gem5 port

`Gem5Port` models `dramsim2.cc` and what its wrapper calls. Its variables have the
names of the members of `DRAMSim2`; `downBuffers` and `inCube` are the simulator
behind it, which completes transactions in any order and reports each with an
address and a cycle only. A failed `assert` sets `assertFails`, and nothing runs
after it. A packet may read, write, do both or neither, at any address.

* The address: `AddressMap` has `AddressMapping` of the vault controller, its inverse
  and what is before them, the cut to the capacity and the crossbar's choice of a
  vault. `Reported[p]` is the address that a request's response comes back with.
* The cycle: the asserts at `dramsim2.cc:289` and `317` compare it with gem5's time. The
  number of cycles cancels out, so `drift` keeps only the difference: the time of
  the next tick less the periods of the controller's cycles. It starts as the time
  from `startup()` to the first tick event (`START`), and each tick loses what the cut
  to whole ticks takes off a period. Times are in parts of a tick (`PARTS`), since
  the period is a `double`.

| Action | Code |
|---|---|
| `Accept(p)`, `AcceptOther(p)`, `Refuse(p)` | `recvTimingReq` |
| `TickIdle(T)`, `TickComplete(T, p)` | `tick`: the simulator's Update with at most one completion (`readComplete`, `writeComplete`), then the retry |
| `ResponseEvent(success)`, `recvRespRetry(success)` | `sendResponse`, by its event or after a refusal |
| `drain` | `drain` |

`gem5_port` (30 934 states) has six packets, two reads and a write of one block, a
read and a write without a response of another and a packet that is neither, two
vaults with two banks of two rows and two blocks in a row, and a queue of two:
`NoAssertFails`, `ResponseScheduled` (a response waits exactly when its event or a
retry will send it), `DrainSignalled` (the end of a drain is
noticed whichever event comes last), `AnsweredOnce`, and with fairness
`EveryAnswer` and `RetrySent`.

**Where the properties end.** With other constants in `gem5_port.cfg` TLC refutes
`NoAssertFails`:

| Change to the run | What happens |
|---|---|
| `Requests <- UnalignedPackets` and `ADDRESS_MAPPING = 4`: requests that start in the middle of a block | the response's address is built from bank, column and row, none of which holds the offset within a block (`VaultController.cpp:498-513`). The packet is looked up under another address than it was stored with, although `dramsim2.hh:177` calls it the "Address of the request", and the assert at `dramsim2.cc:296` or `324` fails. A read is then never answered, so `EveryAnswer` fails with it |
| `Requests <- SwapPackets`: a packet that is both a read and a write | it is counted as a read (`dramsim2.cc:197`), but enqueued by `isWrite()` (`231`). It is completed as a write, and none is found (`324`) |
| `PARTS = 2`, `PERIOD = 5`: a period of 2.5 ticks; or `START = 1`: `startup()` between two clock edges | `schedule` cuts the time of the next tick (`151`), the asserts divide by the whole period: `drift` grows until the cycles differ (`289`, `317`); with `START = 1` they differ from the start |

**What the port needs** are the three hypotheses of `Gem5Port`:

* `Aligned`: every request starts at the first address of a block, within the
  capacity. Cache lines do when `ADDRESS_MAPPING` is no longer than a line and the
  memory no larger than the capacity; `MAX_BLOCK_32B`, the default, and 64 byte
  lines are fine.
* `PlainPackets`: no packet is both a read and a write.
* `WholeTicks`: the period is a whole number of ticks, and `startup()` runs at a clock
  edge. With ticks of a picosecond, `tCK` of 0.8 ns is 800 ticks; a period of 937.5 ticks
  would lose half a tick in each cycle, until the asserts on the cycle fail.

The passing run meets all three.

**Fairness.** The tick event reschedules itself; the cube completes each
transaction; a scheduled event happens; gem5 calls `recvRespRetry` after a
refusal, and does not refuse for ever (`SF`: it may refuse often). Nothing is
assumed about requests: gem5 need not send again after a retry.

**Left out.** A request that gem5 makes inside `sendRetryReq` or `sendTimingResp` is
an action of its own here; `recvAtomic` and `recvFunctional` change no state of the
port; packets that a cache answers are dropped by both.

### Proofs

`Gem5Port_proofs` proves for any packets, whatever their kind and address, any queue
size, address map, period and start, from the assumptions on the constants alone:

* `AddressReturned`: for every address `a`, with `m == a % CAPACITY`, the response's
  address is `m - (m % ADDRESS_MAPPING)`: all of it comes back but the offset;
* `TypeCorrect`: `Spec => []TypeOK`, with the bound on what is outstanding;
* `AcceptedFits`: a request that the port accepts fits into the controller's buffer.
  The port counts what it has accepted, the controller what waits in its buffer,
  and the comment at line 222 says that the two agree;
* `ResponsesScheduled`: `Spec => []ResponseScheduled`;
* `DrainsSignalled`: `Spec => []DrainSignalled`;
* `EachAnsweredOnce`: `Spec => []AnsweredOnce`. A packet that wants a response is
  in one place at a time, and answered once;

and under `Aligned`, `PlainPackets` and `WholeTicks`

* `AssertsHold`: `Spec => []NoAssertFails`. It is not true without any of them (the table
  above).

Two inductive invariants are needed:

    PortInv == TypeOK /\ ReadsWait /\ Room /\ ResponseScheduled /\ DrainSignalled

holds without a hypothesis. `Room` says that the port counts as many transactions
as the controller and the cube have, under whatever kind and address, which makes
`CanAccept` imply `CanAcceptTran`. `ReadsWait` says that only reads wait for a completed
read, so that each of them has a response, which drain and the response event
rely on. `Matched`, for `AssertsHold`, says that no assert has failed, that there is no
drift, that each counter is the number of transactions of its kind under way, and
that for each address as many packets wait as transactions of that address are under
way. So a completion finds a packet of its address, although it may not be its
own; that it reports this address is `AddressReturned` with `Aligned`. The proofs have
a step for each action and under it one for each conjunct it can disturb.

`EachAnsweredOnce` counts: `Places(p)`, the copies of `p` among the waiting reads of its
address, in the response queue and among the answers, is `Due(p)`. It adds
`ReadsAtHome`, that under each address only reads of that address wait, since a
completion takes the oldest read of the address it reports, whichever that is, and
one with another address takes none. Only liveness is left to TLC: `EveryAnswer` needs
what `NoAssertFails` needs.

## 7. Power management and the controller's front end

`LinkPower` models all links at once: the three power managers of the HMC
controller with the rest of its `Update` (`HostUpdate`), and the handshakes in the
masters and slaves at both ends. `side[e][l]` is a record with the master and the
slave of link `l` at end `e`, and `linkRxTx`, what is on its way from there.

| Action, operator | Code |
|---|---|
| `HostUpdate` | `HMCController::Update`: `LinkPowerExitManager`, `Downstream`, `Upstream`, `LinkPowerStateManager`, `LinkPowerEntryManager` in this order |
| `Downstream` | the dependency check, `FindAvailableLink` (any available link), `returnTransCnt` |
| `Quiesce`, `WakeForRequests` | QUIESCE_SLEEP: sleep of idle links, down mode when all sleep |
| `Monitor`, `WakeInService` | MSHR, LINK_MONITOR, AUTONOMOUS: `sleepLink` links sleep |
| `QuiesceLinks`, `MonitorLinks`, `WakeLinks`, `RetrainLinks` | the loops over the links of the entry and exit managers |
| `MasterUpdate(e, l)` | `LinkMaster::Update`: a packet, or the NULL_ of a retraining state |
| `SlaveUpdate(e, l)` | `LinkSlave::Update`: `NullReceived`, QUIET, `SleepIfIdle`, forwarding |
| `CubeAnswers(l)` | the crossbar sends a response on an active link |
| `Elapse(t)`, `RetrainElapse(l)` | a cycle number that is waited for comes |

Every delay is a timer that may end at any moment, so the properties hold for any
values of `tQUIESCE`, `tSD`, `tTXD` and the others. The state manager's traffic
counts are a free choice of `sleepLink`, at most `MAX_EPOCHS` times.

`link_power` (74 476 states) has two links of which one may sleep, one request to
block 1, and four changes of `sleepLink`, two sleeps and two wakes of a link.
`PowerInv`: a link whose host end has finished the handshake sleeps at the
cube as well and carries nothing; no request or token reaches an end that sleeps
or retrains. `AllAnswered`, `SleepAgreed` and `Awakened`: the request is answered,
a link that is asked to sleep does, one that is to be in service again wakes up.
With two changes and two requests (2.28 million states) the invariants hold as well.

**Fairness.** `WF(Next)`: the clocks do not stop. Every object is updated again
and again, but here nothing more is needed: every action makes progress.

**Finding.** `down_while_waking` (QUIESCE_SLEEP): at the end of
TRANSITION_TO_DOWN, 150 us after it began, the state of *every* link becomes DOWN.
A request that came in between has started to wake another link (50 us), whose
state is overwritten while it is retraining or already ACTIVE.

**Where the properties end**, each found by TLC with other constants:

* QUIESCE_SLEEP: `lastActive` is computed once before the loop over the links, so two
  idle ACTIVE links go to WAIT together although responses are awaited
  (`HMCController.cpp:338`); fewer than `AWAKE_REQ` requests wait for ever when
  all links sleep.
* A request to block 0: a TRET in `Buffers` has the address 0 (`LinkMaster.cpp:145`), so
  the request "depends" on it and follows it (`HMCController.cpp:133`), even to a link in
  WAIT. The cycle's order does not prevent it: the upstream slaves, which make the
  TRET, are updated after the controller (`CasHMCWrapper.cpp:325`, `:378`), so the TRET is
  there when the controller looks. `PowerInv` is violated.
* Requests along the dependency path are not counted in `returnTransCnt` (182-188),
  their responses are (210): the unsigned counter wraps.
* A link in CONFIRM or TRANSITION_TO_SLEEP when `sleepLink` shrinks is served by
  neither manager until it grows again (675).

### Proofs

`LinkPower_proofs` proves `EndsAgree`: `Spec => []PowerInv`, for any number of links,
sizes of buffers and pools of tokens, any requests, delays and choices of `sleepLink`.
It has two hypotheses beside `PowerAssumption`, and TLC refutes `PowerInv` without
either: the links are monitored (QUIESCE_SLEEP overwrites the state of a waking link,
see `down_while_waking`), and no request is for block 0 (above).

An end goes to sleep when it looks idle from within: nothing to send, nothing saved,
all tokens at home. That this says anything about the *other* end is a matter of
conservation, and that is the first half of the proof. `Paired`:
a packet saved at one end is on its way, or counted in the peer's `rrp`, or its
acknowledgement is on its way; a token is at home, or spent on a packet on its way, or
carried back by a packet that waits or is on its way. Both are equations of `Total` sums over
`linkRxTx` and `Buffers`, so an idle end knows that its peer holds nothing of it.

The second half is the handshake. `IInv` puts every link in one of the phases `Up`, `Asked`,
`Heard`, `Agreed`, `Asleep`, `Retraining` and `LockOn`, each a state of the two ends with
what may be on the way between them. `PowerInv` alone is not inductive: in `Asked` and
`Heard` requests are excluded because the controller sends none to a link in WAIT, in
`Agreed` because the pairing is balanced, and in `LockOn` because the NULL_ that
locks the cube's slave on is ahead of everything behind it. `MasterStep`, `SlaveStep`,
`AnswerStep`, `ElapseStep` and `HostStep` have a step for each phase; the loops
`WakeLinks`, `RetrainLinks` and `MonitorLinks` are recursive functions over the links,
and the loop lemmas of `SumsAndLoops` carry the invariant through them. TLC has
checked `IInv` on 2 614 376 states, those of `link_power` with two requests and three
changes. Only model-checked: `AllAnswered`, `SleepAgreed`, `Awakened` (liveness).

## 8. Proved, checked, not modelled

**Proved** for every value of the constants:

* link (section 3): types, the ring of retry slots, no slot overwritten, whole packets
  in every buffer;
* crossbar (section 4): consistency of buffers, pending tags and pending packets,
  intact responses, the refinement of `CubeMemory`;
* gem5 port (section 6): the address that comes back, room for what is accepted, the
  response schedule, the drain, one answer for each packet; all asserts, for requests
  at a block's first address, no packet that reads and writes, and whole ticks;
* vault (section 5), under the open page policy: the distances between commands, the row
  of an atomic that stays open until it is written back, no ERROR exit, the account of the
  response buffer, the bound on the command queues, and the order of service within a row;
* power management (section 7): agreement of the two ends, for monitored links.

**Only model-checked:** the vault under the close page policy; the properties of the link that
hold only under the wrapper's schedule, and its refinement of `LinkChannel`;
QUIESCE_SLEEP; all liveness, which the prover cannot express.

**Not modelled:** parsing of the `.ini` files and the command line; the trace
driver; statistics, plots and log output; the arithmetic of CRC-32; the
contents of packets and of memory; the clock tuners (the
accumulated floating point ratio of the clocks is a constant, `FLIT_CYCLES`);
posted requests in the HMC controller; noise together with power
management. `LinkLayer` has one link: links share no protocol state but through
the controller, which `LinkPower` has.
