-------------------------- MODULE VaultController --------------------------
(***************************************************************************)
(* One vault: its controller (VaultController.cpp), its command queue and   *)
(* its DRAM.  One Cycle is VaultController::Update followed by DRAM::Update, *)
(* the order of HMC::Update.  Time is counted down: a record's xxLeft and   *)
(* the banks' times lose 1 in every Cycle.                                  *)
(***************************************************************************)
EXTENDS CommandQueue

CONSTANTS tCMD, USE_LOW_POWER,
          MAX_REFRESH               \* bound: how often the refresh timer expires

ASSUME TimingAssumption ==
    /\ NUM_BANKS \in Nat \ {0}
    /\ {BL, CWL, CL, tRCD, tRAS, tRP, tRC, tRFC, tFAW, tCKE, tXP, tCMD} \subseteq Nat \ {0}
    /\ {AL, tRRD, tCCD, tRTP, tWTR, tWR} \subseteq Nat

ASSUME SizeAssumption ==
    /\ {MAX_ROW_ACCESSES, MAX_CMD_QUE, MAX_VLT_BUF, MAX_REFRESH} \subseteq Nat
    /\ {QUE_PER_BANK, OPEN_PAGE, USE_LOW_POWER} \subseteq BOOLEAN

\* An atomic reads one block of 32 bytes, only writes and atomics are posted, and
\* no response is longer than the data of its request and a FLIT.
ASSUME RequestsAssumption ==
    /\ DOMAIN Requests \subseteq Nat \ {NoTag}
    /\ \A t \in DOMAIN Requests :
           LET r == Requests[t] IN
           /\ r.op \in {"RD", "WR", "ATM"} /\ r.bank \in Banks /\ r.row \in Nat
           /\ r.cmds \in Nat \ {0} /\ (r.op = "ATM" => r.cmds = 1) /\ (r.op = "RD" => ~r.posted)
           /\ r.lng \in Nat /\ r.data \in Nat /\ r.returns \in 1 .. r.data + 1
           /\ {r.posted, r.writeBack} \subseteq BOOLEAN

VARIABLES vault,    \* the members of VaultController, CommandQueue and DRAM, and
                    \* converted: history, the requests in the order of conversion
          served,   \* history: the requests whose last access has been issued
          answers,  \* history: the responses the crossbar has taken
          since,    \* history: the cycles since each bank's last events, up to HORIZON
          currentClockCycle   \* modulo 2

vars == <<vault, served, answers, since, currentClockCycle>>
Tags == DOMAIN Requests
Events == {"ACTIVATE", "READ", "WRITE", "PRECHARGE", "REFRESH"}
HORIZON == tCMD + Max({tRC, tRAS, tRFC, tRCD, tRRD, tRP, tCCD, BL, READ_TO_PRE_DELAY,
                WRITE_TO_PRE_DELAY, READ_TO_WRITE_DELAY, WRITE_TO_READ_DELAY_B})

Init ==
    /\ vault = [down |-> <<>>, up |-> <<>>, powerDown |-> FALSE, error |-> FALSE,
                cmdBus |-> NoCMD, cmdLeft |-> 0, dataBus |-> NoCMD, dataLeft |-> 0,
                writeData |-> <<>>, atomicCMD |-> NoCMD, atomicOperLeft |-> 0,
                pendingDataSize |-> 0, pendingRead |-> <<>>, refreshes |-> 0,
                queue |-> [q \in Queues |-> <<>>], lock |-> [b \in Banks |-> NoTag],
                issuedBank |-> 0, refreshWaiting |-> FALSE, tFAW |-> <<>>,
                rowAccess |-> [b \in Banks |-> 0], fresh |-> {}, popped |-> NoCMD,
                bank |-> [b \in Banks |-> NewBank],
                reads |-> <<>>, readData |-> NoCMD, readLeft |-> 0, converted |-> <<>>]
    /\ served = {}
    /\ answers = {}
    /\ since = [e \in Events |-> [b \in Banks |-> HORIZON]]
    /\ currentClockCycle = 0
-----------------------------------------------------------------------------
\* exit(0): the run ends here.
Exit(s) == [s EXCEPT !.error = TRUE]

ResponseLength(c) ==
    LET r == Requests[c.tag] IN
    CASE r.op = "ATM" -> r.returns [] r.op = "WR" -> 1 [] r.op = "RD" -> r.data + 1

MakeRespondPacket(s, c) ==
    LET n == ResponseLength(c)
        t == [s EXCEPT !.pendingDataSize = @ - n, !.up = Append(@, [tag |-> c.tag, lng |-> n])]
    IN IF Size(s.up) + n <= MAX_VLT_BUF THEN t ELSE Exit(t)

\* UpdateCountdown.  due: the refresh timer expires.
CommandOut(s) ==
    IF s.cmdBus = NoCMD THEN s
    ELSE IF s.cmdLeft > 1 THEN [s EXCEPT !.cmdLeft = @ - 1]
    ELSE [s EXCEPT !.bank = ReceiveCMD(@, s.cmdBus), !.cmdBus = NoCMD, !.cmdLeft = 0,
                   !.reads = IF s.cmdBus.type \in Reads
                             THEN Append(@, [cmd |-> s.cmdBus, left |-> RL]) ELSE @]

DataOut(s) ==
    IF s.dataBus = NoCMD THEN s
    ELSE IF s.dataLeft > 1 THEN [s EXCEPT !.dataLeft = @ - 1]
    ELSE LET t == [s EXCEPT !.dataBus = NoCMD, !.dataLeft = 0]
             c == s.dataBus
         IN IF c.last /\ ~Atomic(c) /\ ~Requests[c.tag].posted THEN MakeRespondPacket(t, c) ELSE t

CountDown(pending) == [i \in DOMAIN pending |-> [pending[i] EXCEPT !.left = @ - 1]]

WriteDataOut(s) ==
    LET due == s.writeData # <<>> /\ s.writeData[1].left = 0
    IN IF due
       THEN LET t == [s EXCEPT !.dataBus = s.writeData[1].cmd, !.dataLeft = BL,
                               !.writeData = CountDown(Tail(@))]
            IN IF s.dataBus # NoCMD THEN Exit(t) ELSE t
       ELSE [s EXCEPT !.writeData = CountDown(@)]

UpdateCountdown(s, due) ==
    LET t == WriteDataOut(DataOut(CommandOut(s)))
    IN IF due THEN [t EXCEPT !.refreshWaiting = TRUE, !.refreshes = @ + 1] ELSE t
-----------------------------------------------------------------------------
\* Mutant of Commands: the read of an atomic closes the row too.
AtomicsCloseToo(tag) ==
    LET r == Requests[tag]
    IN <<Command("ACTIVATE", tag, r.bank, r.row, TRUE)>>
       \o [i \in 1 .. r.cmds |->
             Command((IF r.op = "WR" THEN "WRITE" ELSE "READ") \o (IF i = r.cmds THEN "_P" ELSE ""),
                     tag, r.bank, r.row, i = r.cmds)]
\* The commands of a request: an ACTIVATE and one access for every 32 bytes,
\* the last of which closes the row under the close page policy - except for
\* an atomic, whose access is always a READ.
Commands(tag) ==
    LET r == Requests[tag]
        access == IF r.op = "WR" THEN "WRITE" ELSE "READ"
        final == IF OPEN_PAGE \/ r.op = "ATM" THEN access ELSE access \o "_P"
    IN <<Command("ACTIVATE", tag, r.bank, r.row, TRUE)>>
       \o [i \in 1 .. r.cmds |-> Command(IF i = r.cmds THEN final ELSE access,
                                         tag, r.bank, r.row, i = r.cmds)]

\* Mutant of ConvPacketIntoCMDs: one READ is expected for each request.
ExpectsOneRead(s, i) ==
    LET tag == s.down[i]
    IN [Enqueue(s, Requests[tag].bank, Commands(tag)) EXCEPT
           !.down = RemoveAt(@, i), !.converted = Append(@, tag),
           !.pendingRead = IF Requests[tag].op = "WR" THEN @ ELSE Append(@, tag)]
ConvPacketIntoCMDs(s, i) ==
    LET tag == s.down[i]
        r == Requests[tag]
        t == Enqueue(s, r.bank, Commands(tag))
    IN [t EXCEPT !.down = RemoveAt(@, i), !.converted = Append(@, tag),
                 !.pendingRead = IF r.op = "WR" THEN @ ELSE @ \o [j \in 1 .. r.cmds |-> tag]]

\* The loop over downBuffers, at its index i.
ConvAt(s, i) ==
    LET r == Requests[s.down[i]] IN
    IF i <= Len(s.down) /\ AvailableSpace(s, r.bank, r.cmds + 1)
    THEN ConvPacketIntoCMDs(s, i) ELSE s

\* A converted packet is erased and the index goes on, so the packet behind it
\* is passed over in this Update.  The state is kept in a singleton, so that TLC
\* evaluates each iteration once.
ConvAll(s) ==
    LET run[i \in 0 .. Len(s.down)] ==
            IF i = 0 THEN {s} ELSE {ConvAt(t, i) : t \in run[i - 1]}
    IN CHOOSE t \in run[Len(s.down)] : TRUE
-----------------------------------------------------------------------------
\* Mutant of Reserves: posted writes reserve room as well.
ReservesForPosted(c) ==
    c.tag # NoTag /\ c.last /\ (c.type \in Reads \/ (c.type \in Writes /\ ~Atomic(c)))
\* The last access of a request reserves the room its response will take.
\* An atomic's is its READ.
Reserves(c) ==
    /\ c.tag # NoTag /\ c.last /\ ~Requests[c.tag].posted
    /\ c.type \in Reads \/ (c.type \in Writes /\ ~Atomic(c))

\* The command that was popped goes to the command bus, write data follow
\* after WL.
IssuePopped(s) ==
    LET c == s.popped
        t == [s EXCEPT !.writeData = IF c.type \in Writes
                                     THEN Append(@, [cmd |-> c, left |-> WL]) ELSE @,
                       !.pendingDataSize = IF Reserves(c) THEN @ + ResponseLength(c) ELSE @,
                       !.cmdBus = c, !.cmdLeft = tCMD, !.popped = NoCMD]
    IN IF c = NoCMD THEN s ELSE IF s.cmdBus # NoCMD THEN Exit(t) ELSE t

\* The result of an atomic is written back in front of everything else.
AtomicOperation(s) ==
    LET c == s.atomicCMD
        done == [s EXCEPT !.atomicCMD = NoCMD]
        back == Command(IF OPEN_PAGE THEN "WRITE" ELSE "WRITE_P", c.tag, c.bank, c.row, TRUE)
        t == IF Locking(c) THEN [done EXCEPT !.queue[Q(c.bank)] = <<back>> \o @] ELSE done
    IN IF c = NoCMD THEN s
       ELSE IF s.atomicOperLeft > 0 THEN [s EXCEPT !.atomicOperLeft = @ - 1]
       ELSE IF Requests[c.tag].posted THEN t ELSE MakeRespondPacket(t, c)

\* Mutant of AtRest: a refresh that waits is not looked at.
SleepsThroughRefresh(s) == IsEmpty(s)
AtRest(s) == IsEmpty(s) /\ ~s.refreshWaiting

EnablePowerdown(s) ==
    IF ~USE_LOW_POWER THEN s
    ELSE IF AtRest(s)
         THEN IF AllIdle(s.bank) THEN [s EXCEPT !.bank = PowerDown(@), !.powerDown = TRUE] ELSE s
    ELSE IF s.powerDown /\ s.bank[0].nextPowerUp = 0
         THEN [s EXCEPT !.bank = PowerUp(@), !.powerDown = FALSE]
    ELSE s

ReturnCommand(s, c) ==
    LET found == {i \in DOMAIN s.pendingRead : s.pendingRead[i] = c.tag}
        t == [s EXCEPT !.pendingRead = RemoveAt(@, Min(found))]
    IN IF s.dataBus # NoCMD \/ found = {} THEN Exit(s)
       ELSE IF ~c.last THEN t
       ELSE IF Atomic(c) THEN [t EXCEPT !.atomicCMD = c, !.atomicOperLeft = 1]
       ELSE MakeRespondPacket(t, c)

\* DRAM::UpdateState
DRAMUpdateState(s) ==
    LET ends == s.readData # NoCMD /\ s.readLeft = 1
        t == IF ends THEN [ReturnCommand(s, s.readData) EXCEPT !.readData = NoCMD, !.readLeft = 0]
             ELSE [s EXCEPT !.readLeft = Later(@ - 1, 0)]
    IN IF t.reads # <<>> /\ t.reads[1].left = 0
       THEN [t EXCEPT !.readData = t.reads[1].cmd, !.readLeft = BL, !.reads = CountDown(Tail(@))]
       ELSE [t EXCEPT !.reads = CountDown(@)]

\* DRAM::Update, and the Step of all three clocks.
DRAMUpdate(s) ==
    DRAMUpdateState([s EXCEPT !.bank = [b \in Banks |-> Elapse(StateChange(@[b]))], !.fresh = {}])
-----------------------------------------------------------------------------
Arrived == Range(vault.down) \cup Range(vault.converted)

\* The crossbar puts a packet into downBuffers.
ReceiveDown(tag) ==
    /\ ~vault.error
    /\ tag \notin Arrived /\ Requests[tag].after \subseteq Arrived
    /\ Size([i \in DOMAIN vault.down |-> Requests[vault.down[i]]]) + Requests[tag].lng <= MAX_VLT_BUF
    /\ vault' = [vault EXCEPT !.down = Append(@, tag)]
    /\ UNCHANGED <<served, answers, since, currentClockCycle>>

\* The command DRAM receives in the next Cycle.
Arriving == IF vault.cmdLeft = 1 THEN vault.cmdBus ELSE NoCMD

\* What a Cycle does to the histories: the age of each event, where the
\* automatic precharge counts as one, and the requests whose last access -
\* the write-back of an atomic that has one - goes out.
Age ==
    LET c == Arriving
        kind == CASE c.type = "READ_P" -> "READ" [] c.type = "WRITE_P" -> "WRITE" [] OTHER -> c.type
        happens(e, b) == e = kind /\ (b = c.bank \/ e = "REFRESH")
        closes(b) == vault.bank[b].state = "ROW_ACTIVE" /\ vault'.bank[b].state = "PRECHARGING"
    IN since' = [e \in Events |-> [b \in Banks |->
           IF happens(e, b) THEN 1
           ELSE IF e = "PRECHARGE" /\ closes(b) THEN 0
           ELSE Min({since[e][b] + 1, HORIZON})]]

Serve ==
    LET c == vault'.cmdBus
        final == c.last /\ (c.type \in Writes \/ (c.type \in Reads /\ ~Locking(c)))
    IN served' = IF final THEN served \cup {c.tag} ELSE served

\* The Step of the clocks.
Step == currentClockCycle' = 1 - currentClockCycle

\* taken: the crossbar takes the response it is offered; due: the refresh timer
\* expires.
Cycle(taken, due) ==
    LET s1 == ConvAll(UpdateCountdown(vault, due))
        sent == taken /\ s1.up # <<>>
        s2 == CmdPop(IF sent THEN [s1 EXCEPT !.up = Tail(@)] ELSE s1)
    IN /\ ~vault.error
       /\ due => vault.refreshes < MAX_REFRESH
       /\ vault' = DRAMUpdate(EnablePowerdown(AtomicOperation(IssuePopped(s2))))
       /\ answers' = IF sent THEN answers \cup {s1.up[1].tag} ELSE answers
       /\ Serve
       /\ Age
       /\ Step

Next ==
    \/ \E tag \in Tags : ReceiveDown(tag)
    \/ \E taken, due \in BOOLEAN : Cycle(taken, due)

Spec == Init /\ [][Next]_vars

\* HMC::Update calls the vault in every cycle of the cube's clock; the crossbar
\* takes a response that is offered for ever.  Only a Cycle takes these steps.
CrossbarTakes == vault.up # <<>> /\ answers' = answers \cup {vault.up[1].tag}
Fairness == WF_currentClockCycle(Step) /\ WF_answers(CrossbarTakes)

FairSpec == Spec /\ Fairness
-----------------------------------------------------------------------------
(* Every part of the state has its type. *)
TypeOK ==
    LET commands == [type : Reads \cup Writes \cup {"NONE", "ACTIVATE", "PRECHARGE", "REFRESH"},
                     tag : Tags \cup {NoTag}, bank : Banks, row : Nat, last : BOOLEAN]
    IN /\ vault.down \in Seq(Tags) /\ vault.converted \in Seq(Tags)
       /\ {vault.cmdBus, vault.dataBus, vault.atomicCMD, vault.readData} \subseteq commands
       /\ \A q \in Queues : Range(vault.queue[q]) \subseteq commands
       /\ vault.lock \in [Banks -> Tags \cup {NoTag}]
       /\ vault.issuedBank \in Banks /\ vault.pendingDataSize \in 0 .. MAX_VLT_BUF
       /\ vault.popped = NoCMD /\ vault.fresh = {}
       /\ Len(vault.tFAW) <= 4
       /\ served \subseteq Tags /\ answers \subseteq Tags
       /\ since \in [Events -> [Banks -> 0 .. HORIZON]]

(* No ERROR exit: the command bus and the data bus, which reads and writes   *)
(* share, never collide, every response finds room in upBuffers, and every   *)
(* read that returns is one that was asked for (VaultController.cpp:72-114,   *)
(* 238, 320).                                                                *)
NoErrorExit == ~vault.error

(* pendingDataSize is at any time the length of the responses that are still *)
(* to be made for accesses already issued (VaultController.cpp:217-235 adds,  *)
(* MakeRespondPacket subtracts), and these fit beside those that wait.        *)
\* The length of the response that access c is the last one for.
Owed(c) ==
    IF /\ c.tag # NoTag /\ c.last /\ ~Requests[c.tag].posted
       /\ c.type \in Reads \/ (c.type \in Writes /\ ~Atomic(c))
    THEN ResponseLength(c) ELSE 0
OwedFor(pending) == Size([i \in DOMAIN pending |-> [lng |-> Owed(pending[i].cmd)]])
ResponseRoom ==
    /\ vault.pendingDataSize =
           (IF vault.cmdBus.type \in Writes THEN 0 ELSE Owed(vault.cmdBus))
               + Owed(vault.dataBus) + Owed(vault.readData) + Owed(vault.atomicCMD)
               + OwedFor(vault.writeData) + OwedFor(vault.reads)
    /\ vault.pendingDataSize + Size(vault.up) <= MAX_VLT_BUF

(* A command queue never exceeds its size, and while an atomic has still to   *)
(* write back there is a place for its write at the head (AvailableSpace,     *)
(* VaultController.cpp:261-272).                                             *)
QueueBound ==
    \A b \in Banks :
        LET q == vault.queue[Q(b)]
            waits == vault.lock[b] # NoTag /\ ~\E i \in DOMAIN q : q[i].tag = vault.lock[b]
        IN Len(q) + (IF waits THEN 1 ELSE 0) <= MAX_CMD_QUE

(* At every moment: the types, no exit, and the accounts of the response      *)
(* buffer and the command queues, which nothing but each other keeps in step. *)
VaultInv == TypeOK /\ NoErrorExit /\ ResponseRoom /\ QueueBound

(* From the read of an atomic to its write-back the row stays open, so what   *)
(* is written back replaces what was read: no precharge, refresh or           *)
(* power-down of the bank comes between (CommandQueue.cpp:127, 258, 404).     *)
AtomicRowOpen ==
    \A b \in Banks :
        LET t == vault.lock[b]
            waits(c) == c.tag = t /\ c.type \in Reads \cup {"ACTIVATE"}
            begun == ~waits(vault.cmdBus) /\ ~\E c \in Range(vault.queue[Q(b)]) : waits(c)
        IN t # NoTag /\ begun
             => vault.bank[b].state = "ROW_ACTIVE" /\ vault.bank[b].row = Requests[t].row

(* Requests to one row of one bank are served in the order in which they were *)
(* converted, whatever the scheduler lets pass, and nothing comes between the *)
(* read and the write-back of an atomic.                                      *)
SameRowOrder ==
    LET c == vault.converted IN
    \A j \in DOMAIN c : c[j] \in served =>
        \A i \in 1 .. j - 1 :
            Requests[c[i]].bank = Requests[c[j]].bank /\ Requests[c[i]].row = Requests[c[j]].row
                => c[i] \in served

(* Every command that reaches DRAM respects the time since the events it      *)
(* depends on, measured independently of nextActivate and its siblings, and   *)
(* finds its row open or its bank closed.  The scheduler keeps the times up   *)
(* to the moment it issues a command, tCMD before it arrives.  The time after *)
(* a REFRESH is left to RefreshWhole.                                        *)
CommandTiming ==
    LET c == Arriving
        own(e, n) == since[e][c.bank] >= n + tCMD
        every(e, n) == \A b \in Banks : since[e][b] >= n + tCMD
        state(b) == vault.bank[b].state
    IN CASE c.type = "ACTIVATE" ->
              /\ state(c.bank) \notin {"ROW_ACTIVE", "PRECHARGING", "POWERDOWN", "AWAKING"}
              /\ own("ACTIVATE", tRC) /\ own("PRECHARGE", tRP)
              /\ every("ACTIVATE", tRRD)
         [] c.type \in Reads \cup Writes ->
              /\ state(c.bank) = "ROW_ACTIVE" /\ vault.bank[c.bank].row = c.row
              /\ own("ACTIVATE", tRCD - AL)
              /\ IF c.type \in Reads
                 THEN every("READ", Later(tCCD, BL)) /\ every("WRITE", WRITE_TO_READ_DELAY_B)
                 ELSE every("WRITE", Later(tCCD, BL)) /\ every("READ", READ_TO_WRITE_DELAY)
         [] c.type = "PRECHARGE" ->
              /\ state(c.bank) = "ROW_ACTIVE" /\ own("ACTIVATE", tRAS)
              /\ own("READ", READ_TO_PRE_DELAY) /\ own("WRITE", WRITE_TO_PRE_DELAY)
         [] c.type = "REFRESH" ->
              \A b \in Banks : state(b) # "ROW_ACTIVE" /\ since["PRECHARGE"][b] >= tRP + tCMD
         [] OTHER -> TRUE

(* A bank that is being refreshed is left alone for tRFC, the "AUTO REFRESH    *)
(* command period" (ConfigDRAM.ini:48, DRAM.cpp:144).                        *)
RefreshWhole ==
    Arriving.type = "ACTIVATE" => since["REFRESH"][Arriving.bank] >= tRFC

(* Every request is served, and answered unless it is posted.  There are      *)
(* finitely many, so a time comes from which on none that arrived is waiting.  *)
AllServed ==
    <>[](\A t \in Arrived : t \in served /\ (Requests[t].posted \/ t \in answers))

(* A refresh that is due is issued, however many requests there are and        *)
(* whether or not the banks are powered down.                                 *)
RefreshIssued == vault.refreshWaiting ~> ~vault.refreshWaiting
=============================================================================
