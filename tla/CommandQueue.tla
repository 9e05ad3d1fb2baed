---------------------------- MODULE CommandQueue ----------------------------
(***************************************************************************)
(* The command queue of a vault (CommandQueue.cpp).  Its operators take     *)
(* and return the record s of VaultController.tla, of which they use        *)
(*   queue, lock, issuedBank, refreshWaiting, tFAW, rowAccess   (its own),  *)
(*   bank (DRAM), pendingDataSize, up (the controller's),                   *)
(*   fresh: the queues whose bufPopDelayPerBank is not 0 in this Update,    *)
(*   popped: poppedCMD, or NoCMD.                                           *)
(* A command is [type, tag, bank, row, last]; what else the C++ object      *)
(* carries is an attribute of its request, Requests[tag].                   *)
(***************************************************************************)
EXTENDS DRAM, FiniteSets, Sequences, SequencesExt, FiniteSetsExt

CONSTANTS Requests,           \* tag -> [op, bank, row, cmds, lng, data, posted, writeBack, returns,
                              \*         after: the requests that arrive before it]
          QUE_PER_BANK, OPEN_PAGE, MAX_ROW_ACCESSES, MAX_CMD_QUE, MAX_VLT_BUF, tFAW

NoTag == 0
Command(type, tag, b, row, last) ==
    [type |-> type, tag |-> tag, bank |-> b, row |-> row, last |-> last]
NoCMD == Command("NONE", NoTag, 0, 0, TRUE)
Reads == {"READ", "READ_P"}
Writes == {"WRITE", "WRITE_P"}
Atomic(c) == c.tag # NoTag /\ Requests[c.tag].op = "ATM"
\* An atomic that writes its result back: all but EQ8 and EQ16.
Locking(c) == Atomic(c) /\ Requests[c.tag].writeBack
Q(b) == IF QUE_PER_BANK THEN b ELSE 0
Queues == {Q(b) : b \in Banks}
\* The length of packets that wait in a buffer.
Size(q) ==
    LET upTo[n \in 0 .. Len(q)] == IF n = 0 THEN 0 ELSE upTo[n - 1] + q[n].lng
    IN upTo[Len(q)]
-----------------------------------------------------------------------------
AvailableSpace(s, b, cmdN) ==
    Len(s.queue[Q(b)]) + cmdN + (IF s.lock[b] # NoTag THEN 1 ELSE 0) <= MAX_CMD_QUE

Enqueue(s, b, cmds) ==
    [s EXCEPT !.queue[Q(b)] = @ \o cmds,
              !.fresh = IF s.queue[Q(b)] = <<>> THEN @ \cup {Q(b)} ELSE @]

RoomForResponse(s, c) ==
    s.pendingDataSize + Requests[c.tag].data + 1 <= MAX_VLT_BUF - Size(s.up)

IsIssuable(s, c) ==
    LET k == s.bank[c.bank]
        open == k.state = "ROW_ACTIVE" /\ k.row = c.row
    IN CASE c.type = "ACTIVATE" ->
              k.state \in {"IDLE", "REFRESHING"} /\ k.nextActivate = 0 /\ Len(s.tFAW) < 4
         [] c.type \in Writes ->
              /\ open /\ k.nextWrite = 0
              /\ Atomic(c) \/ s.rowAccess[c.bank] < MAX_ROW_ACCESSES
              /\ Atomic(c) \/ Requests[c.tag].posted \/ RoomForResponse(s, c)
         [] c.type \in Reads ->
              /\ open /\ k.nextRead = 0
              /\ s.rowAccess[c.bank] < MAX_ROW_ACCESSES
              /\ RoomForResponse(s, c)

IsEmpty(s) == \A q \in Queues : s.queue[q] = <<>>
-----------------------------------------------------------------------------
\* The scan over banks in index order; -1 when there is no such bank.
FirstBank(B) == IF B = {} THEN -1 ELSE Min(B)

\* Take command i of bank b's queue.  An atomic takes the lock of its bank,
\* its write-back gives it back.
Take(s, b, i) ==
    LET c == s.queue[Q(b)][i] IN
    [s EXCEPT !.popped = c,
              !.queue[Q(b)] = RemoveAt(@, i),
              !.lock[IF OPEN_PAGE \/ s.lock[b] # NoTag THEN b ELSE c.bank] =
                  CASE s.lock[b] # NoTag /\ c.type \in Writes -> NoTag
                    [] s.lock[b] = NoTag /\ Locking(c) -> c.tag
                    [] OTHER -> @]

\* Under the open page policy an access to the open row makes the ACTIVATE in
\* front of it superfluous.
TakeAccess(s, b, i) ==
    LET t == Take(s, b, i) IN
    IF OPEN_PAGE /\ s.lock[b] = NoTag /\ i > 1 /\ s.queue[Q(b)][i - 1].type = "ACTIVATE"
    THEN [t EXCEPT !.queue[Q(b)] = RemoveAt(@, i - 1), !.rowAccess[b] = @ + 1]
    ELSE t

\* Mutant of DependencyFound: commands pass each other freely.
NoDependency(q, i) == FALSE
\* A command may not pass one it depends on.
DependencyFound(q, i) ==
    \E j \in 1 .. i - 1 :
        IF OPEN_PAGE
        THEN q[j].type # "ACTIVATE" /\ q[j].bank = q[i].bank /\ q[j].row = q[i].row
        ELSE q[j].type = "ACTIVATE" /\ q[j].tag = q[i].tag

\* The positions in bank b's queue that arbitration may take: the commands
\* of the atomic that holds the lock, or all that are issuable.
Candidates(s, b) ==
    LET q == s.queue[Q(b)]
        issuable == {i \in DOMAIN q : IsIssuable(s, q[i])}
    IN IF Q(b) \in s.fresh THEN {}
       ELSE IF s.lock[b] # NoTag
            THEN {i \in issuable \cap {1} : Atomic(q[1]) /\ q[1].tag = s.lock[b]}
            ELSE {i \in issuable : ~DependencyFound(q, i)}

\* Round robin from issuedBank.  The close page loop stays at a locked bank.
Arbitrate(s) ==
    LET At(n) == (s.issuedBank + n) % NUM_BANKS
        stays == {n \in 0 .. NUM_BANKS - 1 :
                     ~OPEN_PAGE /\ s.lock[At(n)] # NoTag /\ Q(At(n)) \notin s.fresh}
        found == {n \in 0 .. NUM_BANKS - 1 : Candidates(s, At(n)) # {}}
        n == IF stays \cup found = {} THEN 0 ELSE Min(stays \cup found)
        t == IF n \in found THEN TakeAccess(s, At(n), Min(Candidates(s, At(n)))) ELSE s
    IN IF n \in found \ stays THEN [t EXCEPT !.issuedBank = (At(n) + 1) % NUM_BANKS]
       ELSE [t EXCEPT !.issuedBank = At(n)]

\* Mutant of PrechargeBank: the count of accesses to the row is kept.
CountNotReset(s, b) == [s EXCEPT !.popped = Command("PRECHARGE", NoTag, b, 0, TRUE)]
PrechargeBank(s, b) ==
    [s EXCEPT !.popped = Command("PRECHARGE", NoTag, b, 0, TRUE), !.rowAccess[b] = 0]

\* While a refresh waits: finish what the first bank that cannot be refreshed
\* is doing, or issue the refresh when there is none.
RefreshScan(s) ==
    LET b == FirstBank({x \in Banks : \/ s.lock[x] # NoTag
                                      \/ s.bank[x].state = "ROW_ACTIVE"
                                      \/ s.bank[x].nextActivate > 0})
        q == s.queue[Q(b)]
        toRow == {i \in DOMAIN q : q[i].bank = b /\ q[i].row = s.bank[b].row}
        first == Min(toRow)
        pending == toRow # {} /\ q[first].type # "ACTIVATE"
    IN CASE b = -1 ->
              IF s.bank[0].state = "POWERDOWN" THEN s
              ELSE [s EXCEPT !.popped = Command("REFRESH", NoTag, 0, 0, TRUE),
                             !.refreshWaiting = FALSE]
         [] b # -1 /\ s.lock[b] # NoTag ->
              IF Q(s.issuedBank) \notin s.fresh /\ q # <<>> /\ q[1].tag = s.lock[b]
                 /\ IsIssuable(s, q[1])
              THEN Take(s, b, 1) ELSE s
         [] b # -1 /\ s.lock[b] = NoTag /\ s.bank[b].state = "ROW_ACTIVE" ->
              IF pending /\ IsIssuable(s, q[first]) THEN Take(s, b, first)
              ELSE IF OPEN_PAGE /\ ~pending /\ s.bank[b].nextPrecharge = 0
                   THEN PrechargeBank(s, b) ELSE s
         [] OTHER -> s

\* Open page, nothing issuable: close a row that nothing waits for, or that
\* has had its share of accesses.
Wanted(s, b) ==
    \E c \in Range(s.queue[Q(b)]) : c.bank = b /\ c.row = s.bank[b].row
\* Mutant of Closable: an atomic under way is not looked at.
ClosableWhenLocked(s, b) ==
    s.bank[b].state = "ROW_ACTIVE" /\ ~Wanted(s, b) /\ s.bank[b].nextPrecharge = 0
Closable(s, b) ==
    /\ s.bank[b].state = "ROW_ACTIVE" /\ s.lock[b] = NoTag
    /\ ~Wanted(s, b) \/ s.rowAccess[b] >= MAX_ROW_ACCESSES
    /\ s.bank[b].nextPrecharge = 0
CloseRow(s) ==
    LET b == FirstBank({x \in Banks : Closable(s, x)})
    IN IF b = -1 THEN s ELSE PrechargeBank(s, b)

CountFAW(s) ==
    LET left == [i \in DOMAIN s.tFAW |-> s.tFAW[i] - 1]
    IN [s EXCEPT !.tFAW = IF left # <<>> /\ left[1] = 0 THEN Tail(left) ELSE left]

CmdPop(s) ==
    LET s0 == CountFAW(s)
        s1 == IF s0.refreshWaiting THEN RefreshScan(s0) ELSE s0
        s2 == IF s1.popped # NoCMD \/ (s0.refreshWaiting /\ ~OPEN_PAGE) THEN s1 ELSE Arbitrate(s1)
        s3 == IF s2.popped # NoCMD \/ ~OPEN_PAGE THEN s2 ELSE CloseRow(s2)
    IN IF s3.popped.type = "ACTIVATE" THEN [s3 EXCEPT !.tFAW = Append(@, tFAW)] ELSE s3
=============================================================================
