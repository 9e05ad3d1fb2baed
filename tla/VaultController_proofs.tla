------------------------ MODULE VaultController_proofs ------------------------
(***************************************************************************)
(* Proofs about VaultController, for any requests in any order, any number  *)
(* of banks, any sizes and all times that fit the open page policy with a   *)
(* queue for each bank (OpenPage).  A bank first, and what each arrival     *)
(* and each passing cycle makes of it; then the vault's record, stage by    *)
(* stage of a Cycle; then the invariant over whole Cycles.                  *)
(***************************************************************************)
EXTENDS VaultController, SumsAndLoops, SequenceTheorems, FiniteSetTheorems

(* Under the open page policy, with the times of ConfigDRAM.ini. *)
OpenPage ==
    /\ OPEN_PAGE /\ QUE_PER_BANK /\ tCMD = 1
    /\ tRRD <= tRC /\ tRC <= tRAS + tRP + tCKE + tXP /\ tCKE < tRFC

Ages == [Events -> [Banks -> 0 .. HORIZON]]

States == {"IDLE", "ROW_ACTIVE", "PRECHARGING", "REFRESHING", "POWERDOWN", "AWAKING"}
BankType == [state : States, row : Nat,
             lastCommand : {"ACTIVATE", "READ", "WRITE", "PRECHARGE", "REFRESH", "POWERDOWN_EXIT"},
             left : Nat, nextActivate : Nat, nextRead : Nat, nextWrite : Nat,
             nextPrecharge : Nat, nextPowerUp : Nat]

\* An age of at least n, or one that is no longer counted.
Old(x, n) == x >= n \/ x = HORIZON

\* act, pre: the ages of bank k's last ACTIVATE and PRECHARGE.
Closing(k, act, pre) ==
    /\ k.state = "PRECHARGING" =>
           /\ k.lastCommand = "PRECHARGE" /\ 1 <= k.left /\ k.left <= k.nextActivate
           /\ Old(pre, tRP - k.left) /\ Old(act, tRAS + tRP - k.left)
    /\ k.state = "REFRESHING" =>
           k.lastCommand = "REFRESH" /\ 1 <= k.left /\ k.left <= k.nextActivate /\ Old(act, tRC)
    /\ k.state = "AWAKING" =>
           k.lastCommand = "POWERDOWN_EXIT" /\ 1 <= k.left /\ k.left <= k.nextActivate
    /\ k.state \notin {"ROW_ACTIVE", "PRECHARGING"} => Old(pre, tRP) /\ Old(act, tRAS + tRP)
    /\ k.state \in {"IDLE", "POWERDOWN"} => k.left = 0
    /\ k.state = "ROW_ACTIVE" => k.lastCommand \in {"ACTIVATE", "READ", "WRITE"}

\* rd, wr: of its last READ and WRITE.
OwnTimes(k, act, pre, rd, wr) ==
    /\ Old(act, tRC - k.nextActivate) /\ Old(pre, tRP - k.nextActivate)
    /\ Old(act, tRCD - AL - k.nextRead) /\ Old(act, tRCD - AL - k.nextWrite)
    /\ Old(act, tRAS - k.nextPrecharge)
    /\ Old(rd, READ_TO_PRE_DELAY - k.nextPrecharge)
    /\ Old(wr, WRITE_TO_PRE_DELAY - k.nextPrecharge)

\* rd, wr: of the last READ and WRITE of any bank.
SharedTimes(k, rd, wr) ==
    /\ Old(rd, Later(tCCD, BL) - k.nextRead) /\ Old(rd, READ_TO_WRITE_DELAY - k.nextWrite)
    /\ Old(wr, WRITE_TO_READ_DELAY_B - k.nextRead) /\ Old(wr, Later(tCCD, BL) - k.nextWrite)

Timed(bank, age) ==
    /\ bank \in [Banks -> BankType] /\ age \in Ages
    /\ \A b \in Banks :
           /\ Closing(bank[b], age["ACTIVATE"][b], age["PRECHARGE"][b])
           /\ OwnTimes(bank[b], age["ACTIVATE"][b], age["PRECHARGE"][b], age["READ"][b], age["WRITE"][b])
           /\ \A x \in Banks :
                  /\ x # b => Old(age["ACTIVATE"][x], tRRD - bank[b].nextActivate)
                  /\ SharedTimes(bank[b], age["READ"][x], age["WRITE"][x])

\* While the banks are powered down; calm: nothing is to be done.
Asleep(bank, age, calm) ==
    /\ \A b \in Banks :
           /\ bank[b].nextPowerUp = bank[0].nextPowerUp /\ bank[b].nextPowerUp <= tCKE
           /\ Old(age["ACTIVATE"][b], tRC - tXP - bank[b].nextPowerUp)
    /\ \/ \A b \in Banks : bank[b].state = "POWERDOWN"
       \/ \A b \in Banks : /\ bank[b].state = "REFRESHING" /\ bank[b].nextPowerUp < bank[b].left
                           /\ bank[b].left = bank[0].left
       \/ calm /\ \A b \in Banks : bank[b].state = "IDLE" /\ bank[b].nextPowerUp = 0

Power(bank, age, powerDown, calm) ==
    IF powerDown THEN Asleep(bank, age, calm) ELSE \A b \in Banks : bank[b].state # "POWERDOWN"

-----------------------------------------------------------------------------
LEMMA Times ==
    /\ BL \in Nat /\ CWL \in Nat /\ CL \in Nat /\ AL \in Nat /\ tRCD \in Nat /\ tRAS \in Nat
    /\ tRP \in Nat /\ tRC \in Nat /\ tRFC \in Nat /\ tFAW \in Nat /\ tCKE \in Nat /\ tXP \in Nat
    /\ tRRD \in Nat /\ tCCD \in Nat /\ tRTP \in Nat /\ tWTR \in Nat /\ tWR \in Nat /\ tCMD \in Nat
    /\ BL > 0 /\ CWL > 0 /\ CL > 0 /\ tRP > 0 /\ tRFC > 0 /\ tCKE > 0 /\ tXP > 0 /\ tCMD > 0
    /\ tRAS > 0 /\ tRC > 0 /\ tRCD > 0
BY TimingAssumption

LEMMA BankNumbers == NUM_BANKS \in Nat \ {0} /\ Banks = 0 .. NUM_BANKS - 1 /\ 0 \in Banks
BY TimingAssumption DEF Banks

LEMMA Delays ==
    /\ RL \in Nat /\ RL > 0 /\ WL \in Nat /\ WL > 0
    /\ READ_TO_PRE_DELAY \in Nat /\ WRITE_TO_PRE_DELAY \in Nat
    /\ READ_TO_WRITE_DELAY \in Int /\ WRITE_TO_READ_DELAY_B \in Nat /\ Later(tCCD, BL) \in Nat
<1>2. BL \div 2 \in Nat /\ RL \in Nat /\ WL \in Nat /\ RL > 0 /\ WL > 0
  BY Times DEF RL, WL
<1>3. Later(tRTP, tCCD) - tCCD \in Nat /\ Later(tCCD, BL) \in Nat
  BY Times DEF Later
<1> QED BY Times, <1>2, <1>3 DEF READ_TO_PRE_DELAY, WRITE_TO_PRE_DELAY, READ_TO_WRITE_DELAY,
            WRITE_TO_READ_DELAY_B

\* The larger of two and the smaller of two.
LEMMA MinOfTwo ==
  ASSUME NEW x \in Int, NEW y \in Int
  PROVE  Min({x, y}) = IF x <= y THEN x ELSE y
BY DEF Min

\* A set of integers of which none is above a natural has a largest.
LEMMA MaxOf ==
  ASSUME NEW S \in SUBSET Int, NEW m \in Int, \A x \in S : x <= m, S # {}
  PROVE  Max(S) \in S /\ \A x \in S : x <= Max(S)
<1> DEFINE N == {m - x : x \in S}
<1>1. N \in SUBSET Nat /\ N # {}
  <2>1. \A x \in S : x \in Int /\ m - x \in Nat
    OBVIOUS
  <2> QED BY <2>1
<1>2. PICK n \in N : \A y \in N : n <= y
  <2> HIDE DEF N
  <2> QED BY <1>1, LeastNatural
<1>3. PICK z \in S : n = m - z
  BY <1>2
<1>4. \A x \in S : x <= z
  <2>1. ASSUME NEW x \in S PROVE x <= z
    <3>1. m - x \in N /\ x \in Int /\ z \in Int
      OBVIOUS
    <3> HIDE DEF N
    <3> QED BY <1>2, <1>3, <3>1
  <2> QED BY <2>1
<1> QED BY <1>3, <1>4 DEF Max

\* The histories reach far enough.
LEMMA HorizonFar ==
  /\ HORIZON \in Nat
  /\ \A n \in {tRC, tRAS, tRFC, tRCD, tRRD, tRP, tCCD, BL, READ_TO_PRE_DELAY, WRITE_TO_PRE_DELAY,
               READ_TO_WRITE_DELAY, WRITE_TO_READ_DELAY_B} : n + tCMD <= HORIZON
<1> DEFINE S == {tRC, tRAS, tRFC, tRCD, tRRD, tRP, tCCD, BL, READ_TO_PRE_DELAY, WRITE_TO_PRE_DELAY,
                 READ_TO_WRITE_DELAY, WRITE_TO_READ_DELAY_B}
           a == READ_TO_WRITE_DELAY
           m == tRC + tRAS + tRFC + tRCD + tRRD + tRP + tCCD + BL + READ_TO_PRE_DELAY
                 + WRITE_TO_PRE_DELAY + (IF a > 0 THEN a ELSE 0) + WRITE_TO_READ_DELAY_B
<1>1. S \in SUBSET Int /\ m \in Int /\ tRC \in S /\ \A x \in S : x <= m
  BY Times, Delays
<1> HIDE DEF S, m
<1>2. Max(S) \in S /\ \A x \in S : x <= Max(S)
  BY <1>1, MaxOf
<1>3. HORIZON = tCMD + Max(S)
  BY DEF HORIZON, S
<1>4. tRC <= Max(S) /\ Max(S) \in Int
  BY <1>1, <1>2
<1>5. HORIZON \in Nat
  BY <1>3, <1>4, Times
<1>6. \A x \in S : x \in Int /\ x + tCMD <= HORIZON
  BY <1>1, <1>2, <1>3, <1>4, Times
<1> QED BY <1>5, <1>6 DEF S

-----------------------------------------------------------------------------
\* What is old enough when its time is up stays so.
LEMMA OldAges ==
  ASSUME NEW x \in 0 .. HORIZON, NEW n \in Int, NEW m \in Nat, Old(x, n - m)
  PROVE  Old(Min({x + 1, HORIZON}), n - Later(m - 1, 0))
<1>1. Min({x + 1, HORIZON}) = IF x + 1 <= HORIZON THEN x + 1 ELSE HORIZON
  BY HorizonFar, MinOfTwo
<1> QED BY <1>1, HorizonFar DEF Old, Later

LEMMA OldStays ==
  ASSUME NEW x \in 0 .. HORIZON, NEW n \in Int, Old(x, n)
  PROVE  Old(Min({x + 1, HORIZON}), n) /\ Min({x + 1, HORIZON}) \in 0 .. HORIZON
<1>1. Min({x + 1, HORIZON}) = IF x + 1 <= HORIZON THEN x + 1 ELSE HORIZON
  BY HorizonFar, MinOfTwo
<1> QED BY <1>1, HorizonFar DEF Old

LEMMA OldEnough ==
  ASSUME NEW x \in 0 .. HORIZON, NEW n \in Int, Old(x, n), n + 1 <= HORIZON
  PROVE  Min({x + 1, HORIZON}) >= n + 1
<1>1. Min({x + 1, HORIZON}) = IF x + 1 <= HORIZON THEN x + 1 ELSE HORIZON
  BY HorizonFar, MinOfTwo
<1> QED BY <1>1, HorizonFar DEF Old

-----------------------------------------------------------------------------
(* A command arrives.                                                      *)

Happened(age, c) ==
    [e \in Events |-> [b \in Banks |->
        IF e = c.type /\ (b = c.bank \/ e = "REFRESH") THEN 0 ELSE age[e][b]]]

\* Command c may arrive: what CommandTiming says, with what holds besides.
Arrives(bank, age, c) ==
    /\ c.type = "ACTIVATE" =>
           /\ bank[c.bank].state = "IDLE"
           /\ age["ACTIVATE"][c.bank] >= tRC + 1 /\ age["PRECHARGE"][c.bank] >= tRP + 1
           /\ \A b \in Banks : age["ACTIVATE"][b] >= tRRD + 1
    /\ c.type \in {"READ", "WRITE"} =>
           /\ bank[c.bank].state = "ROW_ACTIVE" /\ bank[c.bank].row = c.row
           /\ age["ACTIVATE"][c.bank] >= tRCD - AL + 1
    /\ c.type = "READ" =>
           \A b \in Banks : /\ age["READ"][b] >= Later(tCCD, BL) + 1
                            /\ age["WRITE"][b] >= WRITE_TO_READ_DELAY_B + 1
    /\ c.type = "WRITE" =>
           \A b \in Banks : /\ age["WRITE"][b] >= Later(tCCD, BL) + 1
                            /\ age["READ"][b] >= READ_TO_WRITE_DELAY + 1
    /\ c.type = "PRECHARGE" =>
           /\ bank[c.bank].state = "ROW_ACTIVE"
           /\ age["ACTIVATE"][c.bank] >= tRAS + 1
           /\ age["READ"][c.bank] >= READ_TO_PRE_DELAY + 1
           /\ age["WRITE"][c.bank] >= WRITE_TO_PRE_DELAY + 1
    /\ c.type = "REFRESH" =>
           \A b \in Banks : /\ bank[b].state \notin {"ROW_ACTIVE", "PRECHARGING"}
                            /\ age["PRECHARGE"][b] >= tRP + 1 /\ age["ACTIVATE"][b] >= tRC

Arrival == [type : {"ACTIVATE", "READ", "WRITE", "PRECHARGE", "REFRESH"},
            bank : Banks, row : Nat, tag : Nat, last : BOOLEAN]

LEMMA HappenedIs ==
  ASSUME NEW age \in Ages, NEW c \in Arrival
  PROVE  /\ Happened(age, c) \in Ages
         /\ \A e \in Events : \A b \in Banks :
               Happened(age, c)[e][b] = IF e = c.type /\ (b = c.bank \/ e = "REFRESH") THEN 0 ELSE age[e][b]
BY HorizonFar DEF Happened, Ages


BankFields(k) ==
    /\ k.state \in States /\ k.row \in Nat
    /\ k.lastCommand \in {"ACTIVATE", "READ", "WRITE", "PRECHARGE", "REFRESH", "POWERDOWN_EXIT"}
    /\ k.left \in Nat /\ k.nextActivate \in Nat /\ k.nextRead \in Nat /\ k.nextWrite \in Nat
    /\ k.nextPrecharge \in Nat /\ k.nextPowerUp \in Nat

LEMMA BankHas ==
  ASSUME NEW k \in BankType
  PROVE  BankFields(k)
BY DEF BankType, BankFields


\* n is k with its times raised to at least those given.
Raised(n, k, toActivate, toRead, toWrite, toPre) ==
    /\ n.nextActivate = Later(toActivate, k.nextActivate) /\ n.nextRead = Later(toRead, k.nextRead)
    /\ n.nextWrite = Later(toWrite, k.nextWrite) /\ n.nextPrecharge = Later(toPre, k.nextPrecharge)
    /\ n.nextPowerUp = k.nextPowerUp

Unmoved(n, k) ==
    n.state = k.state /\ n.row = k.row /\ n.lastCommand = k.lastCommand /\ n.left = k.left

LEMMA LaterZero ==
  ASSUME NEW x \in Nat
  PROVE  Later(0, x) = x /\ \A y \in Int : Later(y, x) \in Nat /\ Later(y, x) >= x /\ Later(y, x) >= y
BY DEF Later

LEMMA ActivateFields ==
  ASSUME NEW bank \in [Banks -> BankType], NEW c \in Arrival, c.type = "ACTIVATE"
  PROVE  /\ Activate(bank, c) \in [Banks -> BankType]
         /\ \A b \in Banks :
              LET k == bank[b]
                  n == Activate(bank, c)[b]
              IN IF b # c.bank THEN Unmoved(n, k) /\ Raised(n, k, tRRD, 0, 0, 0)
                 ELSE /\ n.state = "ROW_ACTIVE" /\ n.lastCommand = "ACTIVATE" /\ n.left = k.left
                      /\ n.row = c.row /\ Raised(n, k, tRC, tRCD - AL, tRCD - AL, tRAS)
<1>1. ASSUME NEW b \in Banks, NEW k, k = bank[b], NEW n, n = Activate(bank, c)[b]
      PROVE  /\ n \in BankType
             /\ IF b # c.bank THEN Unmoved(n, k) /\ Raised(n, k, tRRD, 0, 0, 0)
                 ELSE /\ n.state = "ROW_ACTIVE" /\ n.lastCommand = "ACTIVATE" /\ n.left = k.left
                      /\ n.row = c.row /\ Raised(n, k, tRC, tRCD - AL, tRCD - AL, tRAS)
  <2>1. k \in BankType /\ c.row \in Nat
    BY <1>1 DEF Arrival
  <2>2. n = IF b # c.bank THEN [k EXCEPT !.nextActivate = Later(tRRD, @)]
            ELSE [k EXCEPT !.state = "ROW_ACTIVE", !.lastCommand = c.type, !.row = c.row,
                             !.nextActivate = Later(tRC, @), !.nextPrecharge = Later(tRAS, @),
                             !.nextRead = Later(tRCD - AL, @), !.nextWrite = Later(tRCD - AL, @)]
    BY <1>1 DEF Activate
  <2>3. \A x \in Nat : /\ Later(tRRD, x) \in Nat /\ Later(tRC, x) \in Nat /\ Later(tRCD - AL, x) \in Nat
                       /\ Later(tRAS, x) \in Nat /\ Later(0, x) = x
    BY Times DEF Later
  <2>4. CASE b # c.bank
    BY <2>1, <2>2, <2>3, <2>4 DEF BankType, Raised, Unmoved
  <2>5. CASE b = c.bank
    BY <2>1, <2>2, <2>3, <2>5 DEF BankType, States, Raised, Unmoved
  <2> QED BY <2>4, <2>5
<1>2. Activate(bank, c) \in [Banks -> BankType]
  BY <1>1 DEF Activate
<1> QED BY <1>1, <1>2

\* Raised times need no older ages.
LEMMA RaisedKeeps ==
  ASSUME NEW k, BankFields(k), NEW n,
         NEW toActivate \in Int, NEW toRead \in Int, NEW toWrite \in Int, NEW toPre \in Int,
         Raised(n, k, toActivate, toRead, toWrite, toPre),
         NEW act \in Nat, NEW pre \in Nat, NEW rd \in Nat, NEW wr \in Nat
  PROVE  /\ OwnTimes(k, act, pre, rd, wr) => OwnTimes(n, act, pre, rd, wr)
         /\ SharedTimes(k, rd, wr) => SharedTimes(n, rd, wr)
         /\ Old(act, tRRD - k.nextActivate) => Old(act, tRRD - n.nextActivate)
<1>1. /\ n.nextActivate \in Nat /\ n.nextActivate >= k.nextActivate
      /\ n.nextRead \in Nat /\ n.nextRead >= k.nextRead
      /\ n.nextWrite \in Nat /\ n.nextWrite >= k.nextWrite
      /\ n.nextPrecharge \in Nat /\ n.nextPrecharge >= k.nextPrecharge
  BY LaterZero DEF BankFields, Raised
<1>2. /\ k.nextActivate \in Nat /\ k.nextRead \in Nat /\ k.nextWrite \in Nat /\ k.nextPrecharge \in Nat
  BY DEF BankFields
<1>4. OwnTimes(k, act, pre, rd, wr) => OwnTimes(n, act, pre, rd, wr)
  BY <1>1, <1>2, Times, Delays DEF OwnTimes, Old
<1>5. SharedTimes(k, rd, wr) => SharedTimes(n, rd, wr)
  BY <1>1, <1>2, Delays DEF SharedTimes, Old
<1>6. Old(act, tRRD - k.nextActivate) => Old(act, tRRD - n.nextActivate)
  BY <1>1, <1>2, Times DEF Old
<1> QED BY <1>4, <1>5, <1>6

LEMMA RaisedAbove ==
  ASSUME NEW k, BankFields(k), NEW n,
         NEW toActivate \in Int, NEW toRead \in Int, NEW toWrite \in Int, NEW toPre \in Int,
         Raised(n, k, toActivate, toRead, toWrite, toPre)
  PROVE  /\ n.nextActivate \in Nat /\ n.nextActivate >= k.nextActivate /\ n.nextActivate >= toActivate
         /\ n.nextRead \in Nat /\ n.nextRead >= k.nextRead /\ n.nextRead >= toRead
         /\ n.nextWrite \in Nat /\ n.nextWrite >= k.nextWrite /\ n.nextWrite >= toWrite
         /\ n.nextPrecharge \in Nat /\ n.nextPrecharge >= k.nextPrecharge /\ n.nextPrecharge >= toPre
BY LaterZero DEF BankFields, Raised

LEMMA AgesOf ==
  ASSUME NEW age \in Ages, NEW b \in Banks
  PROVE  /\ age["ACTIVATE"][b] \in 0 .. HORIZON /\ age["PRECHARGE"][b] \in 0 .. HORIZON
         /\ age["READ"][b] \in 0 .. HORIZON /\ age["WRITE"][b] \in 0 .. HORIZON
         /\ age["ACTIVATE"][b] \in Nat /\ age["PRECHARGE"][b] \in Nat
         /\ age["READ"][b] \in Nat /\ age["WRITE"][b] \in Nat
BY HorizonFar DEF Ages, Events

LEMMA RaisedTimed ==
  ASSUME NEW bank, NEW age, Timed(bank, age), NEW b \in Banks, NEW x \in Banks, NEW n,
         NEW toActivate \in Int, NEW toRead \in Int, NEW toWrite \in Int, NEW toPre \in Int,
         Raised(n, bank[b], toActivate, toRead, toWrite, toPre)
  PROVE  /\ OwnTimes(n, age["ACTIVATE"][b], age["PRECHARGE"][b], age["READ"][b], age["WRITE"][b])
         /\ SharedTimes(n, age["READ"][x], age["WRITE"][x])
         /\ x # b => Old(age["ACTIVATE"][x], tRRD - n.nextActivate)
<1> DEFINE k == bank[b]
<1>1. BankFields(k) /\ age \in Ages
  BY BankHas DEF Timed
<1>2. /\ OwnTimes(k, age["ACTIVATE"][b], age["PRECHARGE"][b], age["READ"][b], age["WRITE"][b])
      /\ SharedTimes(k, age["READ"][x], age["WRITE"][x])
      /\ x # b => Old(age["ACTIVATE"][x], tRRD - k.nextActivate)
  BY DEF Timed
<1>3. /\ age["ACTIVATE"][b] \in Nat /\ age["PRECHARGE"][b] \in Nat /\ age["READ"][b] \in Nat
      /\ age["WRITE"][b] \in Nat /\ age["ACTIVATE"][x] \in Nat /\ age["PRECHARGE"][x] \in Nat
      /\ age["READ"][x] \in Nat /\ age["WRITE"][x] \in Nat
  BY <1>1, AgesOf
<1>4. Raised(n, k, toActivate, toRead, toWrite, toPre)
  OBVIOUS
<1> HIDE DEF k
<1>5. OwnTimes(n, age["ACTIVATE"][b], age["PRECHARGE"][b], age["READ"][b], age["WRITE"][b])
  BY <1>1, <1>2, <1>3, <1>4, RaisedKeeps
<1>6. /\ SharedTimes(n, age["READ"][x], age["WRITE"][x])
      /\ x # b => Old(age["ACTIVATE"][x], tRRD - n.nextActivate)
  BY <1>1, <1>2, <1>3, <1>4, RaisedKeeps
<1> QED BY <1>5, <1>6

LEMMA ActivateKeeps ==
  ASSUME OpenPage, NEW bank, NEW age, Timed(bank, age), NEW c \in Arrival, c.type = "ACTIVATE",
         Arrives(bank, age, c)
  PROVE  Timed(Activate(bank, c), Happened(age, c))
<1> DEFINE new == Activate(bank, c)
           g == Happened(age, c)
<1>0. bank \in [Banks -> BankType] /\ age \in Ages /\ c.bank \in Banks /\ c.row \in Nat
  BY DEF Timed, Arrival
<1>1. g \in Ages /\ \A b \in Banks :
        /\ g["ACTIVATE"][b] = IF b = c.bank THEN 0 ELSE age["ACTIVATE"][b]
        /\ g["READ"][b] = age["READ"][b] /\ g["WRITE"][b] = age["WRITE"][b]
        /\ g["PRECHARGE"][b] = age["PRECHARGE"][b]
  BY <1>0, HappenedIs DEF Events
<1>2. new \in [Banks -> BankType]
  BY <1>0, ActivateFields
<1>3. ASSUME NEW b \in Banks
      PROVE  LET k == bank[b]
                 n == new[b]
             IN IF b # c.bank THEN Unmoved(n, k) /\ Raised(n, k, tRRD, 0, 0, 0)
                 ELSE /\ n.state = "ROW_ACTIVE" /\ n.lastCommand = "ACTIVATE" /\ n.left = k.left
                      /\ n.row = c.row /\ Raised(n, k, tRC, tRCD - AL, tRCD - AL, tRAS)
  BY <1>0, ActivateFields
<1> HIDE DEF new, g
<1>4. ASSUME NEW b \in Banks
      PROVE  /\ age["ACTIVATE"][b] \in Nat /\ age["PRECHARGE"][b] \in Nat
             /\ age["READ"][b] \in Nat /\ age["WRITE"][b] \in Nat
             /\ BankFields(bank[b])
  BY <1>0, HorizonFar, BankHas DEF Ages, Events
<1>5. ASSUME NEW b \in Banks
      PROVE  Closing(new[b], g["ACTIVATE"][b], g["PRECHARGE"][b])
  <2>1. Closing(bank[b], age["ACTIVATE"][b], age["PRECHARGE"][b])
    BY DEF Timed
  <2>2. CASE b = c.bank
    BY <1>3, <2>2 DEF Closing
  <2>3. CASE b # c.bank
    <3>0. Raised(new[b], bank[b], tRRD, 0, 0, 0)
      BY <1>3, <2>3
    <3>1. new[b].nextActivate \in Nat /\ new[b].nextActivate >= bank[b].nextActivate
      BY <1>4, <3>0, RaisedAbove, Times
    <3> QED BY <1>1, <1>3, <1>4, <2>1, <2>3, <3>1 DEF Closing, Unmoved, BankFields
  <2> QED BY <2>2, <2>3
<1>6. ASSUME NEW b \in Banks, NEW x \in Banks
      PROVE  /\ OwnTimes(new[b], age["ACTIVATE"][b], age["PRECHARGE"][b], age["READ"][b], age["WRITE"][b])
             /\ SharedTimes(new[b], age["READ"][x], age["WRITE"][x])
             /\ x # b => Old(age["ACTIVATE"][x], tRRD - new[b].nextActivate)
  <2>1. CASE b = c.bank
    <3>1. Raised(new[b], bank[b], tRC, tRCD - AL, tRCD - AL, tRAS)
      BY <1>3, <2>1
    <3>2. tRCD - AL \in Int /\ tRC \in Int /\ tRAS \in Int
      BY Times
    <3> QED BY <3>1, <3>2, RaisedTimed
  <2>2. CASE b # c.bank
    <3>1. Raised(new[b], bank[b], tRRD, 0, 0, 0)
      BY <1>3, <2>2
    <3>2. tRRD \in Int
      BY Times
    <3> QED BY <3>1, <3>2, RaisedTimed
  <2> QED BY <2>1, <2>2
<1>7. ASSUME NEW b \in Banks
      PROVE  OwnTimes(new[b], g["ACTIVATE"][b], g["PRECHARGE"][b], g["READ"][b], g["WRITE"][b])
  <2>1. CASE b # c.bank
    BY <1>1, <1>6, <2>1
  <2>2. CASE b = c.bank
    <3>1. /\ new[b].nextActivate \in Nat /\ new[b].nextActivate >= tRC
          /\ new[b].nextRead \in Nat /\ new[b].nextRead >= tRCD - AL
          /\ new[b].nextWrite \in Nat /\ new[b].nextWrite >= tRCD - AL
          /\ new[b].nextPrecharge \in Nat /\ new[b].nextPrecharge >= tRAS
      <4>1. Raised(new[b], bank[b], tRC, tRCD - AL, tRCD - AL, tRAS)
        BY <1>3, <2>2
      <4>2. tRCD - AL \in Int /\ tRC \in Int /\ tRAS \in Int
        BY Times
      <4> QED BY <1>4, <4>1, <4>2, RaisedAbove
    <3>2. OwnTimes(new[b], age["ACTIVATE"][b], age["PRECHARGE"][b], age["READ"][b], age["WRITE"][b])
      BY <1>6
    <3> QED BY <1>1, <2>2, <3>1, <3>2, Times DEF OwnTimes, Old
  <2> QED BY <2>1, <2>2
<1>8. ASSUME NEW b \in Banks, NEW x \in Banks, x # b
      PROVE  Old(g["ACTIVATE"][x], tRRD - new[b].nextActivate)
  <2>1. CASE x # c.bank
    BY <1>1, <1>6, <1>8, <2>1
  <2>2. CASE x = c.bank
    <3>1. new[b].nextActivate \in Nat /\ new[b].nextActivate >= tRRD
      <4>1. Raised(new[b], bank[b], tRRD, 0, 0, 0)
        BY <1>3, <1>8, <2>2
      <4> QED BY <1>4, <4>1, RaisedAbove, Times
    <3> QED BY <1>1, <2>2, <3>1, Times DEF Old
  <2> QED BY <2>1, <2>2
<1>9. \A b, x \in Banks : SharedTimes(new[b], g["READ"][x], g["WRITE"][x])
  BY <1>1, <1>6
<1> QED BY <1>1, <1>2, <1>5, <1>7, <1>8, <1>9 DEF Timed, new, g

-----------------------------------------------------------------------------
(* A READ or a WRITE, without automatic precharge.                         *)

\* What an access makes the banks wait for.
ToRead(c) == IF c.type = "READ" THEN Later(tCCD, BL) ELSE WRITE_TO_READ_DELAY_B
ToWrite(c) == IF c.type = "READ" THEN READ_TO_WRITE_DELAY ELSE Later(BL, tCCD)
ToPre(c, b) ==
    IF b # c.bank THEN 0 ELSE IF c.type = "READ" THEN READ_TO_PRE_DELAY ELSE WRITE_TO_PRE_DELAY

Accessed(n, k, c, b) ==
    /\ n.state = k.state /\ n.row = k.row /\ n.left = k.left
    /\ n.lastCommand = IF b # c.bank THEN k.lastCommand ELSE c.type
    /\ Raised(n, k, 0, ToRead(c), ToWrite(c), ToPre(c, b))

LEMMA DelaysOf ==
  ASSUME NEW c, NEW b
  PROVE  ToRead(c) \in Int /\ ToWrite(c) \in Int /\ ToPre(c, b) \in Int
BY Delays, Times DEF ToRead, ToWrite, ToPre, Later

LEMMA ColumnFields ==
  ASSUME NEW bank \in [Banks -> BankType], NEW c \in Arrival, c.type \in {"READ", "WRITE"}
  PROVE  /\ ReceiveCMD(bank, c) \in [Banks -> BankType]
         /\ \A b \in Banks : Accessed(ReceiveCMD(bank, c)[b], bank[b], c, b)
<1> DEFINE new == ReceiveCMD(bank, c)
           busy(k) == [k EXCEPT !.nextRead = Later(ToRead(c), @), !.nextWrite = Later(ToWrite(c), @)]
<1> DEFINE is(b) == IF b # c.bank THEN busy(bank[b])
                    ELSE [busy(bank[b]) EXCEPT !.lastCommand = c.type, !.nextPrecharge = Later(ToPre(c, b), @)]
<1>1. new = [b \in Banks |-> new[b]] /\ \A b \in Banks : new[b] = is(b)
  <2>1. CASE c.type = "READ"
    <3>1. c.type # "ACTIVATE" /\ c.type # "PRECHARGE" /\ c.type # "REFRESH"
          /\ c.type \in {"READ", "READ_P"} /\ c.type \notin {"READ_P", "WRITE_P"}
      BY <2>1
    <3>2. new = ColumnAccess(bank, c, c.type \in {"READ", "READ_P"}, c.type \in {"READ_P", "WRITE_P"})
      BY <3>1, Zenon DEF ReceiveCMD
    <3> HIDE DEF new
    <3>3. new = [b \in Banks |->
                   IF b # c.bank THEN [bank[b] EXCEPT !.nextRead = Later(Later(tCCD, BL), @), !.nextWrite = Later(READ_TO_WRITE_DELAY, @)]
                   ELSE [[bank[b] EXCEPT !.nextRead = Later(Later(tCCD, BL), @), !.nextWrite = Later(READ_TO_WRITE_DELAY, @)]
                           EXCEPT !.lastCommand = c.type, !.nextPrecharge = Later(READ_TO_PRE_DELAY, @)]]
      BY ZenonT(30), <3>1, <3>2 DEF ColumnAccess
    <3>4. ToRead(c) = Later(tCCD, BL) /\ ToWrite(c) = READ_TO_WRITE_DELAY /\ ToPre(c, c.bank) = READ_TO_PRE_DELAY
      BY <2>1 DEF ToRead, ToWrite, ToPre
    <3>5. ASSUME NEW b \in Banks
          PROVE  new[b] = is(b)
      BY <3>3, <3>4
    <3>6. new = [b \in Banks |-> new[b]]
      BY <3>3
    <3> QED BY <3>5, <3>6
  <2>2. CASE c.type = "WRITE"
    <3>1. c.type # "ACTIVATE" /\ c.type # "PRECHARGE" /\ c.type # "REFRESH"
          /\ c.type \notin {"READ", "READ_P"} /\ c.type \notin {"READ_P", "WRITE_P"}
      BY <2>2
    <3>2. new = ColumnAccess(bank, c, c.type \in {"READ", "READ_P"}, c.type \in {"READ_P", "WRITE_P"})
      BY <3>1, Zenon DEF ReceiveCMD
    <3> HIDE DEF new
    <3>3. new = [b \in Banks |->
                   IF b # c.bank THEN [bank[b] EXCEPT !.nextRead = Later(WRITE_TO_READ_DELAY_B, @), !.nextWrite = Later(Later(BL, tCCD), @)]
                   ELSE [[bank[b] EXCEPT !.nextRead = Later(WRITE_TO_READ_DELAY_B, @), !.nextWrite = Later(Later(BL, tCCD), @)]
                           EXCEPT !.lastCommand = c.type, !.nextPrecharge = Later(WRITE_TO_PRE_DELAY, @)]]
      BY <3>1, <3>2 DEF ColumnAccess
    <3>4. ToRead(c) = WRITE_TO_READ_DELAY_B /\ ToWrite(c) = Later(BL, tCCD) /\ ToPre(c, c.bank) = WRITE_TO_PRE_DELAY
      BY <2>2 DEF ToRead, ToWrite, ToPre
    <3>5. ASSUME NEW b \in Banks
          PROVE  new[b] = is(b)
      BY <3>3, <3>4
    <3>6. new = [b \in Banks |-> new[b]]
      BY <3>3
    <3> QED BY <3>5, <3>6
  <2> QED BY <2>1, <2>2
<1> HIDE DEF new
<1>2. ASSUME NEW b \in Banks
      PROVE  new[b] \in BankType /\ Accessed(new[b], bank[b], c, b)
  <2> DEFINE k == bank[b]
             n == new[b]
             r == ToRead(c)
             w == ToWrite(c)
             p == ToPre(c, b)
  <2>1. k \in BankType /\ c.type \in {"READ", "WRITE"}
    OBVIOUS
  <2>2. n = IF b # c.bank THEN [k EXCEPT !.nextRead = Later(r, @), !.nextWrite = Later(w, @)]
            ELSE [[k EXCEPT !.nextRead = Later(r, @), !.nextWrite = Later(w, @)]
                    EXCEPT !.lastCommand = c.type, !.nextPrecharge = Later(p, @)]
    BY <1>1
  <2>3. p = ToPre(c, b) /\ (b # c.bank => p = 0) /\ r \in Int /\ w \in Int /\ p \in Int
    BY DelaysOf DEF ToPre
  <2> HIDE DEF k, n, r, w, p
  <2>4. \A x \in Nat : /\ Later(r, x) \in Nat /\ Later(w, x) \in Nat
                       /\ Later(p, x) \in Nat /\ Later(0, x) = x
    BY <2>3 DEF Later
  <2>5. CASE b # c.bank
    <3>1. n \in BankType /\ n.state = k.state /\ n.row = k.row /\ n.left = k.left
          /\ n.lastCommand = k.lastCommand /\ Raised(n, k, 0, r, w, 0)
      BY <2>1, <2>2, <2>4, <2>5 DEF BankType, Raised
    <3> QED BY <2>3, <2>5, <3>1 DEF Accessed, k, n, r, w
  <2>6. CASE b = c.bank
    <3>1. n \in BankType /\ n.state = k.state /\ n.row = k.row /\ n.left = k.left
          /\ n.lastCommand = c.type /\ Raised(n, k, 0, r, w, p)
      BY <2>1, <2>2, <2>4, <2>6 DEF BankType, Raised
    <3> QED BY <2>6, <3>1 DEF Accessed, k, n, r, w, p
  <2> QED BY <2>5, <2>6
<1> HIDE DEF is
<1>3. new \in [Banks -> BankType]
  BY <1>1, <1>2
<1> QED BY <1>2, <1>3 DEF new

LEMMA ColumnKeeps ==
  ASSUME OpenPage, NEW bank, NEW age, Timed(bank, age), NEW c \in Arrival, c.type \in {"READ", "WRITE"},
         Arrives(bank, age, c)
  PROVE  Timed(ReceiveCMD(bank, c), Happened(age, c))
<1> DEFINE new == ReceiveCMD(bank, c)
           g == Happened(age, c)
<1>0. bank \in [Banks -> BankType] /\ age \in Ages /\ c.bank \in Banks /\ c.row \in Nat
  BY DEF Timed, Arrival
<1>1. g \in Ages /\ \A b \in Banks :
        /\ g["ACTIVATE"][b] = age["ACTIVATE"][b] /\ g["PRECHARGE"][b] = age["PRECHARGE"][b]
        /\ g["READ"][b] = IF c.type = "READ" /\ b = c.bank THEN 0 ELSE age["READ"][b]
        /\ g["WRITE"][b] = IF c.type = "WRITE" /\ b = c.bank THEN 0 ELSE age["WRITE"][b]
  BY <1>0, HappenedIs DEF Events
<1>2. new \in [Banks -> BankType] /\ \A b \in Banks : Accessed(new[b], bank[b], c, b)
  BY <1>0, ColumnFields
<1> HIDE DEF new, g
<1>3. /\ bank[c.bank].state = "ROW_ACTIVE" /\ Later(tCCD, BL) = Later(BL, tCCD)
      /\ \A b : ToPre(c, b) \in Int
      /\ ToRead(c) \in Int /\ ToWrite(c) \in Int
  BY DelaysOf, Times DEF Later, Arrives
<1>4. ASSUME NEW b \in Banks, NEW x \in Banks
      PROVE  /\ BankFields(bank[b])
             /\ age["ACTIVATE"][x] \in Nat /\ age["PRECHARGE"][x] \in Nat
             /\ age["READ"][x] \in Nat /\ age["WRITE"][x] \in Nat
             /\ OwnTimes(new[b], age["ACTIVATE"][b], age["PRECHARGE"][b], age["READ"][b], age["WRITE"][b])
             /\ SharedTimes(new[b], age["READ"][x], age["WRITE"][x])
             /\ x # b => Old(age["ACTIVATE"][x], tRRD - new[b].nextActivate)
             /\ new[b].nextActivate \in Nat /\ new[b].nextActivate >= bank[b].nextActivate
             /\ new[b].nextRead \in Nat /\ new[b].nextRead >= ToRead(c)
             /\ new[b].nextWrite \in Nat /\ new[b].nextWrite >= ToWrite(c)
             /\ new[b].nextPrecharge \in Nat /\ new[b].nextPrecharge >= ToPre(c, b)
  <2>1. BankFields(bank[b])
    BY <1>0, BankHas
  <2>2. Raised(new[b], bank[b], 0, ToRead(c), ToWrite(c), ToPre(c, b)) /\ ToPre(c, b) \in Int
    BY <1>2, <1>3 DEF Accessed
  <2>3. /\ OwnTimes(new[b], age["ACTIVATE"][b], age["PRECHARGE"][b], age["READ"][b], age["WRITE"][b])
        /\ SharedTimes(new[b], age["READ"][x], age["WRITE"][x])
        /\ x # b => Old(age["ACTIVATE"][x], tRRD - new[b].nextActivate)
    <3>1. PICK r, w, p : r = ToRead(c) /\ w = ToWrite(c) /\ p = ToPre(c, b)
      OBVIOUS
    <3>2. Raised(new[b], bank[b], 0, r, w, p) /\ r \in Int /\ w \in Int /\ p \in Int /\ 0 \in Int
      BY <1>3, <2>2, <3>1
    <3> QED BY <3>2, RaisedTimed
  <2>4. /\ new[b].nextActivate \in Nat /\ new[b].nextActivate >= bank[b].nextActivate
        /\ new[b].nextRead \in Nat /\ new[b].nextRead >= ToRead(c)
        /\ new[b].nextWrite \in Nat /\ new[b].nextWrite >= ToWrite(c)
        /\ new[b].nextPrecharge \in Nat /\ new[b].nextPrecharge >= ToPre(c, b)
    BY <1>3, <2>1, <2>2, RaisedAbove
  <2> QED BY <1>0, <2>1, <2>3, <2>4, AgesOf
<1>5. ASSUME NEW b \in Banks
      PROVE  Closing(new[b], g["ACTIVATE"][b], g["PRECHARGE"][b])
  <2>1. Closing(bank[b], age["ACTIVATE"][b], age["PRECHARGE"][b])
    BY DEF Timed
  <2>2. CASE b = c.bank
    BY <1>2, <1>3, <2>2 DEF Closing, Accessed
  <2>3. CASE b # c.bank
    BY <1>1, <1>2, <1>4, <2>1, <2>3 DEF Closing, BankFields, Accessed
  <2> QED BY <2>2, <2>3
<1>6. ASSUME NEW b \in Banks
      PROVE  OwnTimes(new[b], g["ACTIVATE"][b], g["PRECHARGE"][b], g["READ"][b], g["WRITE"][b])
  <2>1. OwnTimes(new[b], age["ACTIVATE"][b], age["PRECHARGE"][b], age["READ"][b], age["WRITE"][b])
    BY <1>4
  <2>2. Old(g["READ"][b], READ_TO_PRE_DELAY - new[b].nextPrecharge)
    <3>1. CASE c.type = "READ" /\ b = c.bank
      BY <1>1, <1>3, <1>4, <3>1, Delays DEF Old, ToPre
    <3>2. CASE ~(c.type = "READ" /\ b = c.bank)
      BY <1>1, <2>1, <3>2 DEF OwnTimes
    <3> QED BY <3>1, <3>2
  <2>3. Old(g["WRITE"][b], WRITE_TO_PRE_DELAY - new[b].nextPrecharge)
    <3>1. CASE c.type = "WRITE" /\ b = c.bank
      BY <1>1, <1>3, <1>4, <3>1, Delays DEF Old, ToPre
    <3>2. CASE ~(c.type = "WRITE" /\ b = c.bank)
      BY <1>1, <2>1, <3>2 DEF OwnTimes
    <3> QED BY <3>1, <3>2
  <2> QED BY <1>1, <2>1, <2>2, <2>3 DEF OwnTimes
<1>7. ASSUME NEW b \in Banks, NEW x \in Banks
      PROVE  SharedTimes(new[b], g["READ"][x], g["WRITE"][x])
  <2>1. SharedTimes(new[b], age["READ"][x], age["WRITE"][x])
    BY <1>4
  <2>2. CASE x # c.bank
    BY <1>1, <2>1, <2>2
  <2>3. CASE x = c.bank /\ c.type = "READ"
    BY <1>1, <1>3, <1>4, <2>1, <2>3, Delays DEF SharedTimes, Old, ToRead, ToWrite
  <2>4. CASE x = c.bank /\ c.type = "WRITE"
    BY <1>1, <1>3, <1>4, <2>1, <2>4, Delays DEF SharedTimes, Old, ToRead, ToWrite
  <2> QED BY <2>2, <2>3, <2>4
<1>8. \A b \in Banks : \A x \in Banks : x # b => Old(g["ACTIVATE"][x], tRRD - new[b].nextActivate)
  BY <1>1, <1>4
<1> QED BY <1>1, <1>2, <1>5, <1>6, <1>7, <1>8 DEF Timed, new, g

-----------------------------------------------------------------------------
(* A PRECHARGE and a REFRESH.                                              *)

LEMMA PrechargeKeeps ==
  ASSUME OpenPage, NEW bank, NEW age, Timed(bank, age), NEW c \in Arrival, c.type = "PRECHARGE",
         Arrives(bank, age, c)
  PROVE  Timed(ReceiveCMD(bank, c), Happened(age, c))
<1> DEFINE new == ReceiveCMD(bank, c)
           g == Happened(age, c)
<1>0. bank \in [Banks -> BankType] /\ age \in Ages /\ c.bank \in Banks
  BY DEF Timed, Arrival
<1>1. g \in Ages /\ \A b \in Banks :
        /\ g["ACTIVATE"][b] = age["ACTIVATE"][b]
        /\ g["READ"][b] = age["READ"][b] /\ g["WRITE"][b] = age["WRITE"][b]
        /\ g["PRECHARGE"][b] = IF b = c.bank THEN 0 ELSE age["PRECHARGE"][b]
  BY <1>0, HappenedIs DEF Events
<1>2. new = Precharge(bank, c)
  BY DEF ReceiveCMD
<1> HIDE DEF new, g
<1>3. ASSUME NEW b \in Banks
      PROVE  /\ new[b] \in BankType /\ Raised(new[b], bank[b], IF b = c.bank THEN tRP ELSE 0, 0, 0, 0)
             /\ IF b # c.bank THEN new[b] = bank[b]
                ELSE /\ new[b].state = "PRECHARGING" /\ new[b].left = tRP
                     /\ new[b].lastCommand = "PRECHARGE"
  <2> DEFINE k == bank[b]
             n == new[b]
  <2>1. k \in BankType
    BY <1>0
  <2>2. \A x \in Nat : Later(tRP, x) \in Nat /\ Later(0, x) = x
    BY Times DEF Later
  <2>3. n = IF b # c.bank THEN k
            ELSE [k EXCEPT !.state = "PRECHARGING", !.lastCommand = "PRECHARGE", !.row = 0,
                           !.left = tRP, !.nextActivate = Later(tRP, @)]
    BY <1>2 DEF Precharge
  <2> HIDE DEF k, n
  <2>4. CASE b # c.bank
    <3>1. n = k /\ Raised(n, k, 0, 0, 0, 0)
      BY <2>1, <2>2, <2>3, <2>4 DEF BankType, Raised
    <3> QED BY <2>1, <2>4, <3>1 DEF n, k
  <2>5. CASE b = c.bank
    <3>1. /\ n \in BankType /\ Raised(n, k, tRP, 0, 0, 0) /\ n.state = "PRECHARGING" /\ n.left = tRP
          /\ n.lastCommand = "PRECHARGE"
      BY <2>1, <2>2, <2>3, <2>5, Times DEF BankType, Raised, States
    <3> QED BY <2>5, <3>1 DEF n, k
  <2> QED BY <2>4, <2>5
<1>4. new \in [Banks -> BankType]
  BY <1>2, <1>3 DEF Precharge
<1>5. ASSUME NEW b \in Banks, NEW x \in Banks
      PROVE  /\ OwnTimes(new[b], age["ACTIVATE"][b], age["PRECHARGE"][b], age["READ"][b], age["WRITE"][b])
             /\ SharedTimes(new[b], age["READ"][x], age["WRITE"][x])
             /\ x # b => Old(age["ACTIVATE"][x], tRRD - new[b].nextActivate)
             /\ new[b].nextActivate \in Nat /\ (b = c.bank => new[b].nextActivate >= tRP)
  <2>1. PICK a : a = (IF b = c.bank THEN tRP ELSE 0)
    OBVIOUS
  <2>2. Raised(new[b], bank[b], a, 0, 0, 0) /\ a \in Int /\ 0 \in Int
    BY <1>3, <2>1, Times
  <2>3. BankFields(bank[b])
    BY <1>0, BankHas
  <2>4. new[b].nextActivate \in Nat /\ new[b].nextActivate >= a
    BY <2>2, <2>3, RaisedAbove
  <2> QED BY <2>1, <2>2, <2>4, RaisedTimed
<1>6. ASSUME NEW b \in Banks
      PROVE  /\ Closing(new[b], g["ACTIVATE"][b], g["PRECHARGE"][b])
             /\ OwnTimes(new[b], g["ACTIVATE"][b], g["PRECHARGE"][b], g["READ"][b], g["WRITE"][b])
  <2>1. CASE b = c.bank
    <3>1. Closing(new[b], g["ACTIVATE"][b], g["PRECHARGE"][b])
      <4>1. age["ACTIVATE"][b] >= tRAS + 1 /\ age["ACTIVATE"][b] \in Nat
        BY <1>0, <2>1, AgesOf DEF Arrives
      <4> QED BY <1>1, <1>3, <1>5, <2>1, <4>1, Times DEF Closing, Old
    <3>2. OwnTimes(new[b], g["ACTIVATE"][b], g["PRECHARGE"][b], g["READ"][b], g["WRITE"][b])
      <4>1. OwnTimes(new[b], age["ACTIVATE"][b], age["PRECHARGE"][b], age["READ"][b], age["WRITE"][b])
        BY <1>5
      <4>2. Old(g["PRECHARGE"][b], tRP - new[b].nextActivate)
        BY <1>1, <1>5, <2>1, Times DEF Old
      <4> QED BY <1>1, <4>1, <4>2 DEF OwnTimes
    <3> QED BY <3>1, <3>2
  <2>2. CASE b # c.bank
    <3>1. Closing(bank[b], age["ACTIVATE"][b], age["PRECHARGE"][b])
      BY DEF Timed
    <3> QED BY <1>1, <1>3, <1>5, <2>2, <3>1
  <2> QED BY <2>1, <2>2
<1> QED BY <1>1, <1>4, <1>5, <1>6 DEF Timed, new, g

LEMMA RefreshFields ==
  ASSUME NEW bank \in [Banks -> BankType]
  PROVE  /\ Refresh(bank) \in [Banks -> BankType]
         /\ \A b \in Banks :
              LET k == bank[b]
                  n == Refresh(bank)[b]
              IN /\ n.state = "REFRESHING" /\ n.lastCommand = "REFRESH" /\ n.left = tRFC
                 /\ n.nextActivate = tRFC /\ n.nextRead = k.nextRead /\ n.nextWrite = k.nextWrite
                 /\ n.nextPrecharge = k.nextPrecharge /\ n.nextPowerUp = k.nextPowerUp
<1>1. ASSUME NEW b \in Banks, NEW k, k = bank[b], NEW n, n = Refresh(bank)[b]
      PROVE  /\ n \in BankType
             /\ n.state = "REFRESHING" /\ n.lastCommand = "REFRESH" /\ n.left = tRFC
             /\ n.nextActivate = tRFC /\ n.nextRead = k.nextRead /\ n.nextWrite = k.nextWrite
             /\ n.nextPrecharge = k.nextPrecharge /\ n.nextPowerUp = k.nextPowerUp
  <2>1. k \in BankType
    BY <1>1
  <2>2. n = [k EXCEPT !.state = "REFRESHING", !.lastCommand = "REFRESH", !.left = tRFC,
                      !.nextActivate = tRFC]
    BY <1>1 DEF Refresh
  <2> QED BY <2>1, <2>2, Times DEF BankType, States
<1>2. Refresh(bank) \in [Banks -> BankType]
  BY <1>1 DEF Refresh
<1> QED BY <1>1, <1>2

LEMMA RefreshKeeps ==
  ASSUME OpenPage, NEW bank, NEW age, Timed(bank, age), NEW c \in Arrival, c.type = "REFRESH",
         Arrives(bank, age, c)
  PROVE  Timed(ReceiveCMD(bank, c), Happened(age, c))
<1> DEFINE new == ReceiveCMD(bank, c)
           g == Happened(age, c)
<1>0. bank \in [Banks -> BankType] /\ age \in Ages
  BY DEF Timed
<1>1. g \in Ages /\ \A b \in Banks :
        /\ g["ACTIVATE"][b] = age["ACTIVATE"][b] /\ g["PRECHARGE"][b] = age["PRECHARGE"][b]
        /\ g["READ"][b] = age["READ"][b] /\ g["WRITE"][b] = age["WRITE"][b]
  BY <1>0, HappenedIs DEF Events
<1>2. new = Refresh(bank)
  BY DEF ReceiveCMD
<1> HIDE DEF new, g
<1>3. /\ new \in [Banks -> BankType]
      /\ \A b \in Banks :
           /\ new[b].state = "REFRESHING" /\ new[b].lastCommand = "REFRESH" /\ new[b].left = tRFC
           /\ new[b].nextActivate = tRFC /\ new[b].nextRead = bank[b].nextRead
           /\ new[b].nextWrite = bank[b].nextWrite /\ new[b].nextPrecharge = bank[b].nextPrecharge
  BY <1>0, <1>2, RefreshFields
<1>4. ASSUME NEW b \in Banks
      PROVE  age["ACTIVATE"][b] \in Nat /\ age["ACTIVATE"][b] >= tRC
             /\ Old(age["PRECHARGE"][b], tRP) /\ Old(age["ACTIVATE"][b], tRAS + tRP)
             /\ age["PRECHARGE"][b] \in Nat
  <2>1. Closing(bank[b], age["ACTIVATE"][b], age["PRECHARGE"][b])
    BY DEF Timed
  <2>2. bank[b].state \notin {"ROW_ACTIVE", "PRECHARGING"} /\ age["ACTIVATE"][b] >= tRC
    BY DEF Arrives
  <2> QED BY <1>0, <2>1, <2>2, AgesOf DEF Closing
<1>5. ASSUME NEW b \in Banks
      PROVE  /\ Closing(new[b], g["ACTIVATE"][b], g["PRECHARGE"][b])
             /\ OwnTimes(new[b], g["ACTIVATE"][b], g["PRECHARGE"][b], g["READ"][b], g["WRITE"][b])
  <2>1. OwnTimes(bank[b], age["ACTIVATE"][b], age["PRECHARGE"][b], age["READ"][b], age["WRITE"][b])
    BY DEF Timed
  <2>2. Closing(new[b], g["ACTIVATE"][b], g["PRECHARGE"][b])
    BY <1>1, <1>3, <1>4, Times DEF Closing, Old
  <2>3. OwnTimes(new[b], g["ACTIVATE"][b], g["PRECHARGE"][b], g["READ"][b], g["WRITE"][b])
    BY <1>1, <1>3, <1>4, <2>1, Times DEF OwnTimes, Old
  <2> QED BY <2>2, <2>3
<1>6. ASSUME NEW b \in Banks, NEW x \in Banks
      PROVE  /\ SharedTimes(new[b], g["READ"][x], g["WRITE"][x])
             /\ Old(g["ACTIVATE"][x], tRRD - new[b].nextActivate)
  <2>1. SharedTimes(bank[b], age["READ"][x], age["WRITE"][x])
    BY DEF Timed
  <2>2. SharedTimes(new[b], g["READ"][x], g["WRITE"][x])
    BY <1>1, <1>3, <2>1 DEF SharedTimes
  <2> QED BY <1>1, <1>3, <1>4, <2>2, Times DEF Old, OpenPage
<1> QED BY <1>1, <1>3, <1>5, <1>6 DEF Timed, new, g

LEMMA ArrivalKeeps ==
  ASSUME OpenPage, NEW bank, NEW age, Timed(bank, age), NEW c \in Arrival, Arrives(bank, age, c)
  PROVE  Timed(ReceiveCMD(bank, c), Happened(age, c))
<1>1. CASE c.type = "ACTIVATE"
  <2>1. ReceiveCMD(bank, c) = Activate(bank, c)
    BY <1>1 DEF ReceiveCMD
  <2> QED BY <1>1, <2>1, ActivateKeeps
<1>2. c.type \in {"ACTIVATE", "READ", "WRITE", "PRECHARGE", "REFRESH"}
  BY DEF Arrival
<1> QED BY <1>1, <1>2, ColumnKeeps, PrechargeKeeps, RefreshKeeps

-----------------------------------------------------------------------------
(* Powering down and up.                                                   *)

LEMMA PowerDownFields ==
  ASSUME NEW bank \in [Banks -> BankType]
  PROVE  /\ PowerDown(bank) \in [Banks -> BankType]
         /\ \A b \in Banks :
              LET k == bank[b]
                  n == PowerDown(bank)[b]
              IN /\ n.state = "POWERDOWN" /\ n.nextPowerUp = tCKE /\ n.row = k.row
                 /\ n.left = k.left /\ n.lastCommand = k.lastCommand
                 /\ n.nextActivate = k.nextActivate /\ n.nextRead = k.nextRead
                 /\ n.nextWrite = k.nextWrite /\ n.nextPrecharge = k.nextPrecharge
<1>1. ASSUME NEW b \in Banks, NEW k, k = bank[b], NEW n, n = PowerDown(bank)[b]
      PROVE  /\ n \in BankType
             /\ n.state = "POWERDOWN" /\ n.nextPowerUp = tCKE /\ n.row = k.row
             /\ n.left = k.left /\ n.lastCommand = k.lastCommand
             /\ n.nextActivate = k.nextActivate /\ n.nextRead = k.nextRead
             /\ n.nextWrite = k.nextWrite /\ n.nextPrecharge = k.nextPrecharge
  <2>1. k \in BankType
    BY <1>1
  <2>2. n = [k EXCEPT !.state = "POWERDOWN", !.nextPowerUp = tCKE]
    BY <1>1 DEF PowerDown
  <2> QED BY <2>1, <2>2, Times DEF BankType, States
<1>2. PowerDown(bank) \in [Banks -> BankType]
  BY <1>1 DEF PowerDown
<1> QED BY <1>1, <1>2

LEMMA PowerDownKeeps ==
  ASSUME OpenPage, NEW bank, NEW age, Timed(bank, age), AllIdle(bank), NEW calm \in BOOLEAN
  PROVE  Timed(PowerDown(bank), age) /\ Asleep(PowerDown(bank), age, calm)
<1> DEFINE new == PowerDown(bank)
<1>0. bank \in [Banks -> BankType] /\ age \in Ages
  BY DEF Timed
<1>1. /\ new \in [Banks -> BankType]
      /\ \A b \in Banks :
           /\ new[b].state = "POWERDOWN" /\ new[b].nextPowerUp = tCKE
           /\ new[b].nextActivate = bank[b].nextActivate /\ new[b].nextRead = bank[b].nextRead
           /\ new[b].nextWrite = bank[b].nextWrite /\ new[b].nextPrecharge = bank[b].nextPrecharge
  BY <1>0, PowerDownFields
<1> HIDE DEF new
<1>2. ASSUME NEW b \in Banks
      PROVE  /\ Closing(new[b], age["ACTIVATE"][b], age["PRECHARGE"][b])
             /\ OwnTimes(new[b], age["ACTIVATE"][b], age["PRECHARGE"][b], age["READ"][b], age["WRITE"][b])
             /\ Old(age["ACTIVATE"][b], tRAS + tRP)
  <2>0. bank[b].left = 0 /\ new[b].left = bank[b].left
    BY <1>0, PowerDownFields DEF Timed, AllIdle, Closing, new
  <2>1. /\ OwnTimes(bank[b], age["ACTIVATE"][b], age["PRECHARGE"][b], age["READ"][b], age["WRITE"][b])
        /\ Closing(bank[b], age["ACTIVATE"][b], age["PRECHARGE"][b]) /\ bank[b].state = "IDLE"
    BY DEF Timed, AllIdle
  <2>2. Old(age["PRECHARGE"][b], tRP) /\ Old(age["ACTIVATE"][b], tRAS + tRP)
    BY <2>1 DEF Closing
  <2>3. Closing(new[b], age["ACTIVATE"][b], age["PRECHARGE"][b])
    BY <1>1, <2>0, <2>2 DEF Closing
  <2> QED BY <1>1, <2>1, <2>2, <2>3 DEF OwnTimes
<1>3. ASSUME NEW b \in Banks, NEW x \in Banks
      PROVE  /\ x # b => Old(age["ACTIVATE"][x], tRRD - new[b].nextActivate)
             /\ SharedTimes(new[b], age["READ"][x], age["WRITE"][x])
  BY <1>1 DEF Timed, SharedTimes
<1>4. ASSUME NEW b \in Banks PROVE Old(age["ACTIVATE"][b], tRC - tXP - new[b].nextPowerUp)
  BY <1>0, <1>1, <1>2, AgesOf, Times DEF Old, OpenPage
<1>5. Asleep(new, age, calm)
  BY <1>1, <1>4, BankNumbers, Times DEF Asleep
<1> QED BY <1>0, <1>1, <1>2, <1>3, <1>5 DEF Timed, new

LEMMA PowerUpFields ==
  ASSUME NEW bank \in [Banks -> BankType]
  PROVE  /\ PowerUp(bank) \in [Banks -> BankType]
         /\ \A b \in Banks :
              LET k == bank[b]
                  n == PowerUp(bank)[b]
              IN /\ n.state = "AWAKING" /\ n.lastCommand = "POWERDOWN_EXIT" /\ n.left = tXP
                 /\ n.nextActivate = tXP /\ n.nextRead = k.nextRead /\ n.nextWrite = k.nextWrite
                 /\ n.nextPrecharge = k.nextPrecharge
<1>1. ASSUME NEW b \in Banks, NEW k, k = bank[b], NEW n, n = PowerUp(bank)[b]
      PROVE  /\ n \in BankType
             /\ n.state = "AWAKING" /\ n.lastCommand = "POWERDOWN_EXIT" /\ n.left = tXP
             /\ n.nextActivate = tXP /\ n.nextRead = k.nextRead /\ n.nextWrite = k.nextWrite
             /\ n.nextPrecharge = k.nextPrecharge
  <2>1. k \in BankType
    BY <1>1
  <2>2. n = [k EXCEPT !.state = "AWAKING", !.lastCommand = "POWERDOWN_EXIT",
                      !.left = tXP, !.nextActivate = tXP]
    BY <1>1 DEF PowerUp
  <2> QED BY <2>1, <2>2, Times DEF BankType, States
<1>2. PowerUp(bank) \in [Banks -> BankType]
  BY <1>1 DEF PowerUp
<1> QED BY <1>1, <1>2

LEMMA PowerUpKeeps ==
  ASSUME OpenPage, NEW bank, NEW age, Timed(bank, age), NEW calm \in BOOLEAN,
         Asleep(bank, age, calm), bank[0].nextPowerUp = 0
  PROVE  Timed(PowerUp(bank), age) /\ \A b \in Banks : PowerUp(bank)[b].state = "AWAKING"
<1> DEFINE new == PowerUp(bank)
<1>0. bank \in [Banks -> BankType] /\ age \in Ages
  BY DEF Timed
<1>1. /\ new \in [Banks -> BankType]
      /\ \A b \in Banks :
           /\ new[b].state = "AWAKING" /\ new[b].lastCommand = "POWERDOWN_EXIT" /\ new[b].left = tXP
           /\ new[b].nextActivate = tXP /\ new[b].nextRead = bank[b].nextRead
           /\ new[b].nextWrite = bank[b].nextWrite /\ new[b].nextPrecharge = bank[b].nextPrecharge
  BY <1>0, PowerUpFields
<1> HIDE DEF new
<1>2. ASSUME NEW b \in Banks
      PROVE  /\ Old(age["ACTIVATE"][b], tRC - tXP) /\ bank[b].state \notin {"ROW_ACTIVE", "PRECHARGING"}
             /\ age["ACTIVATE"][b] \in Nat /\ age["PRECHARGE"][b] \in Nat
  <2>1. bank[b].nextPowerUp = 0
    BY DEF Asleep
  <2>2. Old(age["ACTIVATE"][b], tRC - tXP - 0)
    BY <2>1 DEF Asleep
  <2>3. bank[b].state \notin {"ROW_ACTIVE", "PRECHARGING"}
    BY DEF Asleep
  <2> QED BY <1>0, <2>2, <2>3, AgesOf, Times DEF Old
<1>3. ASSUME NEW b \in Banks
      PROVE  /\ Closing(new[b], age["ACTIVATE"][b], age["PRECHARGE"][b])
             /\ OwnTimes(new[b], age["ACTIVATE"][b], age["PRECHARGE"][b], age["READ"][b], age["WRITE"][b])
  <2>1. /\ OwnTimes(bank[b], age["ACTIVATE"][b], age["PRECHARGE"][b], age["READ"][b], age["WRITE"][b])
        /\ Closing(bank[b], age["ACTIVATE"][b], age["PRECHARGE"][b])
    BY DEF Timed
  <2>2. Old(age["PRECHARGE"][b], tRP) /\ Old(age["ACTIVATE"][b], tRAS + tRP)
    BY <1>2, <2>1 DEF Closing
  <2>3. Closing(new[b], age["ACTIVATE"][b], age["PRECHARGE"][b])
    BY <1>1, <2>2, Times DEF Closing
  <2>4. Old(age["PRECHARGE"][b], tRP - tXP)
    BY <1>2, <2>2, Times DEF Old
  <2> QED BY <1>1, <1>2, <2>1, <2>2, <2>3, <2>4 DEF OwnTimes
<1>4. ASSUME NEW b \in Banks, NEW x \in Banks
      PROVE  /\ Old(age["ACTIVATE"][x], tRRD - new[b].nextActivate)
             /\ SharedTimes(new[b], age["READ"][x], age["WRITE"][x])
  <2>1. Old(age["ACTIVATE"][x], tRRD - new[b].nextActivate)
    BY <1>1, <1>2, Times DEF Old, OpenPage
  <2> QED BY <1>1, <2>1 DEF Timed, SharedTimes
<1> QED BY <1>0, <1>1, <1>3, <1>4 DEF Timed, new

-----------------------------------------------------------------------------
(* A cycle passes.                                                         *)

Older(age) == [e \in Events |-> [b \in Banks |-> Min({age[e][b] + 1, HORIZON})]]
Tick(bank) == [b \in Banks |-> Elapse(StateChange(bank[b]))]

LEMMA OlderIs ==
  ASSUME NEW age \in Ages
  PROVE  /\ Older(age) \in Ages
         /\ \A e \in Events : \A b \in Banks : Older(age)[e][b] = Min({age[e][b] + 1, HORIZON})
<1>1. ASSUME NEW e \in Events, NEW b \in Banks
      PROVE  Min({age[e][b] + 1, HORIZON}) \in 0 .. HORIZON
  <2>1. age[e][b] \in 0 .. HORIZON
    BY DEF Ages
  <2>2. HORIZON \in Nat
    BY HorizonFar
  <2>3. Min({age[e][b] + 1, HORIZON}) = IF age[e][b] + 1 <= HORIZON THEN age[e][b] + 1 ELSE HORIZON
    BY <2>1, <2>2, MinOfTwo
  <2> QED BY <2>1, <2>2, <2>3
<1> QED BY <1>1 DEF Older, Ages

\* What a cycle makes of a bank.
Ticked(n, k) ==
    /\ n.nextActivate = Later(k.nextActivate - 1, 0) /\ n.nextRead = Later(k.nextRead - 1, 0)
    /\ n.nextWrite = Later(k.nextWrite - 1, 0) /\ n.nextPrecharge = Later(k.nextPrecharge - 1, 0)
    /\ n.nextPowerUp = Later(k.nextPowerUp - 1, 0) /\ n.left = Later(k.left - 1, 0)
    /\ n.row = k.row /\ n.lastCommand = k.lastCommand
    /\ n.state = IF k.left = 1 /\ k.lastCommand \in {"REFRESH", "PRECHARGE", "POWERDOWN_EXIT"}
                 THEN "IDLE" ELSE k.state

LEMMA TickFields ==
  ASSUME NEW bank \in [Banks -> BankType]
  PROVE  Tick(bank) \in [Banks -> BankType] /\ \A b \in Banks : Ticked(Tick(bank)[b], bank[b])
<1>1. ASSUME NEW k \in BankType, NEW m, m = StateChange(k), NEW n, n = Elapse(m)
      PROVE  n \in BankType /\ Ticked(n, k)
  <2>1. /\ m \in BankType /\ m.left = Later(k.left - 1, 0) /\ m.row = k.row /\ m.lastCommand = k.lastCommand
        /\ m.nextActivate = k.nextActivate /\ m.nextRead = k.nextRead /\ m.nextWrite = k.nextWrite
        /\ m.nextPrecharge = k.nextPrecharge /\ m.nextPowerUp = k.nextPowerUp
        /\ m.state = IF k.left = 1 /\ k.lastCommand \in {"REFRESH", "PRECHARGE", "POWERDOWN_EXIT"}
                     THEN "IDLE" ELSE k.state
    <3>0. k.left \in Nat /\ Later(k.left - 1, 0) \in Nat /\ (k.left = 1 => Later(k.left - 1, 0) = 0)
      BY DEF BankType, Later
    <3>1. CASE k.left # 1
      <4>1. m = [k EXCEPT !.left = Later(k.left - 1, 0)]
        BY <1>1, <3>1 DEF StateChange
      <4> QED BY <3>0, <3>1, <4>1 DEF BankType
    <3>2. CASE k.left = 1 /\ k.lastCommand \in {"REFRESH", "PRECHARGE", "POWERDOWN_EXIT"}
      <4>1. m = [k EXCEPT !.state = "IDLE", !.left = 0]
        BY <1>1, <3>2 DEF StateChange
      <4> QED BY <3>0, <3>2, <4>1 DEF BankType, States
    <3>3. CASE k.left = 1 /\ k.lastCommand \notin {"REFRESH", "PRECHARGE", "POWERDOWN_EXIT"}
      <4>1. k.lastCommand \in {"ACTIVATE", "READ", "WRITE"}
        BY <3>3 DEF BankType
      <4>2. m = [k EXCEPT !.left = 0]
        BY <1>1, <3>3, <4>1 DEF StateChange
      <4> QED BY <3>0, <3>3, <4>2 DEF BankType
    <3> QED BY <3>1, <3>2, <3>3
  <2>2. \A x \in Nat : Later(x - 1, 0) \in Nat
    BY DEF Later
  <2>3. n = [m EXCEPT !.nextActivate = Later(@ - 1, 0), !.nextRead = Later(@ - 1, 0),
              !.nextWrite = Later(@ - 1, 0), !.nextPrecharge = Later(@ - 1, 0),
              !.nextPowerUp = Later(@ - 1, 0)]
    BY <1>1 DEF Elapse
  <2>4. /\ n \in BankType
        /\ n.nextActivate = Later(m.nextActivate - 1, 0) /\ n.nextRead = Later(m.nextRead - 1, 0)
        /\ n.nextWrite = Later(m.nextWrite - 1, 0) /\ n.nextPrecharge = Later(m.nextPrecharge - 1, 0)
        /\ n.nextPowerUp = Later(m.nextPowerUp - 1, 0) /\ n.left = m.left
        /\ n.row = m.row /\ n.lastCommand = m.lastCommand /\ n.state = m.state
    BY <2>1, <2>2, <2>3 DEF BankType
  <2> QED BY <2>1, <2>4 DEF Ticked
<1>2. ASSUME NEW b \in Banks PROVE Tick(bank)[b] \in BankType /\ Ticked(Tick(bank)[b], bank[b])
  BY <1>1 DEF Tick
<1> QED BY <1>2 DEF Tick

LEMMA OldNext ==
  ASSUME NEW x \in 0 .. HORIZON, NEW n \in Int, Old(x, n - 1)
  PROVE  Old(Min({x + 1, HORIZON}), n)
<1>1. Min({x + 1, HORIZON}) = IF x + 1 <= HORIZON THEN x + 1 ELSE HORIZON
  BY HorizonFar, MinOfTwo
<1> QED BY <1>1, HorizonFar DEF Old

LEMMA TickKeeps ==
  ASSUME OpenPage, NEW bank, NEW age, Timed(bank, age)
  PROVE  Timed(Tick(bank), Older(age))
<1> DEFINE new == Tick(bank)
           g == Older(age)
<1>0. bank \in [Banks -> BankType] /\ age \in Ages
  BY DEF Timed
<1>1. g \in Ages /\ \A b \in Banks :
        /\ g["ACTIVATE"][b] = Min({age["ACTIVATE"][b] + 1, HORIZON})
        /\ g["PRECHARGE"][b] = Min({age["PRECHARGE"][b] + 1, HORIZON})
        /\ g["READ"][b] = Min({age["READ"][b] + 1, HORIZON})
        /\ g["WRITE"][b] = Min({age["WRITE"][b] + 1, HORIZON})
  BY <1>0, OlderIs DEF Events
<1>2. new \in [Banks -> BankType] /\ \A b \in Banks : Ticked(new[b], bank[b])
  BY <1>0, TickFields
<1> HIDE DEF new, g
<1>3. ASSUME NEW b \in Banks
      PROVE  OwnTimes(new[b], g["ACTIVATE"][b], g["PRECHARGE"][b], g["READ"][b], g["WRITE"][b])
  <2>1. OwnTimes(bank[b], age["ACTIVATE"][b], age["PRECHARGE"][b], age["READ"][b], age["WRITE"][b])
    BY DEF Timed
  <2>2. BankFields(bank[b]) /\ Ticked(new[b], bank[b])
    BY <1>0, <1>2, BankHas
  <2>3. /\ age["ACTIVATE"][b] \in 0 .. HORIZON /\ age["PRECHARGE"][b] \in 0 .. HORIZON
        /\ age["READ"][b] \in 0 .. HORIZON /\ age["WRITE"][b] \in 0 .. HORIZON
    BY <1>0, AgesOf
  <2>4. /\ tRC \in Int /\ tRP \in Int /\ tRCD - AL \in Int /\ tRAS \in Int
        /\ READ_TO_PRE_DELAY \in Int /\ WRITE_TO_PRE_DELAY \in Int
    BY Times, Delays
  <2>5. /\ bank[b].nextActivate \in Nat /\ bank[b].nextRead \in Nat /\ bank[b].nextWrite \in Nat
        /\ bank[b].nextPrecharge \in Nat
    BY <2>2 DEF BankFields
  <2>6. /\ Old(g["ACTIVATE"][b], tRC - new[b].nextActivate)
        /\ Old(g["PRECHARGE"][b], tRP - new[b].nextActivate)
    BY <1>1, <2>1, <2>2, <2>3, <2>4, <2>5, OldAges DEF OwnTimes, Ticked
  <2>7. /\ Old(g["ACTIVATE"][b], tRCD - AL - new[b].nextRead)
        /\ Old(g["ACTIVATE"][b], tRCD - AL - new[b].nextWrite)
    BY <1>1, <2>1, <2>2, <2>3, <2>4, <2>5, OldAges DEF OwnTimes, Ticked
  <2>8. /\ Old(g["ACTIVATE"][b], tRAS - new[b].nextPrecharge)
        /\ Old(g["READ"][b], READ_TO_PRE_DELAY - new[b].nextPrecharge)
        /\ Old(g["WRITE"][b], WRITE_TO_PRE_DELAY - new[b].nextPrecharge)
    BY <1>1, <2>1, <2>2, <2>3, <2>4, <2>5, OldAges DEF OwnTimes, Ticked
  <2> QED BY <2>6, <2>7, <2>8 DEF OwnTimes
<1>4. ASSUME NEW b \in Banks, NEW x \in Banks
      PROVE  /\ x # b => Old(g["ACTIVATE"][x], tRRD - new[b].nextActivate)
             /\ SharedTimes(new[b], g["READ"][x], g["WRITE"][x])
  <2>1. /\ x # b => Old(age["ACTIVATE"][x], tRRD - bank[b].nextActivate)
        /\ SharedTimes(bank[b], age["READ"][x], age["WRITE"][x])
    BY DEF Timed
  <2>2. BankFields(bank[b]) /\ Ticked(new[b], bank[b])
    BY <1>0, <1>2, BankHas
  <2>3. /\ age["ACTIVATE"][x] \in 0 .. HORIZON
        /\ age["READ"][x] \in 0 .. HORIZON /\ age["WRITE"][x] \in 0 .. HORIZON
    BY <1>0, AgesOf
  <2>4. /\ tRRD \in Int /\ Later(tCCD, BL) \in Int
        /\ READ_TO_WRITE_DELAY \in Int /\ WRITE_TO_READ_DELAY_B \in Int
    BY Times, Delays
  <2>5. bank[b].nextActivate \in Nat /\ bank[b].nextRead \in Nat /\ bank[b].nextWrite \in Nat
    BY <2>2 DEF BankFields
  <2>6. x # b => Old(g["ACTIVATE"][x], tRRD - new[b].nextActivate)
    BY <1>1, <2>1, <2>2, <2>3, <2>4, <2>5, OldAges DEF Ticked
  <2>7. /\ Old(g["READ"][x], Later(tCCD, BL) - new[b].nextRead)
        /\ Old(g["READ"][x], READ_TO_WRITE_DELAY - new[b].nextWrite)
    BY <1>1, <2>1, <2>2, <2>3, <2>4, <2>5, OldAges DEF SharedTimes, Ticked
  <2>8. /\ Old(g["WRITE"][x], WRITE_TO_READ_DELAY_B - new[b].nextRead)
        /\ Old(g["WRITE"][x], Later(tCCD, BL) - new[b].nextWrite)
    BY <1>1, <2>1, <2>2, <2>3, <2>4, <2>5, OldAges DEF SharedTimes, Ticked
  <2> QED BY <2>6, <2>7, <2>8 DEF SharedTimes
<1>5. ASSUME NEW b \in Banks
      PROVE  Closing(new[b], g["ACTIVATE"][b], g["PRECHARGE"][b])
  <2> DEFINE k == bank[b]
             n == new[b]
             act == age["ACTIVATE"][b]
             pre == age["PRECHARGE"][b]
  <2>1. Closing(k, act, pre)
    BY DEF Timed
  <2>2. BankFields(k) /\ Ticked(n, k)
    BY <1>0, <1>2, BankHas
  <2>3. act \in 0 .. HORIZON /\ pre \in 0 .. HORIZON
    BY <1>0, AgesOf
  <2>4. g["ACTIVATE"][b] = Min({act + 1, HORIZON}) /\ g["PRECHARGE"][b] = Min({pre + 1, HORIZON})
    BY <1>1
  <2> HIDE DEF k, n, act, pre
  <2>5. k.left \in Nat /\ k.nextActivate \in Nat
    BY <2>2 DEF BankFields
  <2>6. CASE k.left = 1 /\ k.state \in {"PRECHARGING", "REFRESHING", "AWAKING"}
    <3>1. n.state = "IDLE"
      BY <2>1, <2>2, <2>6 DEF Closing, Ticked
    <3>2. Old(pre, tRP - 1) /\ Old(act, tRAS + tRP - 1)
      <4>1. CASE k.state = "PRECHARGING"
        BY <2>1, <2>6, <4>1 DEF Closing
      <4>2. CASE k.state # "PRECHARGING"
        <5>1. Old(pre, tRP) /\ Old(act, tRAS + tRP)
          BY <2>1, <2>6, <4>2 DEF Closing
        <5> QED BY <2>3, <5>1, Times, HorizonFar DEF Old
      <4> QED BY <4>1, <4>2
    <3>3. Old(Min({pre + 1, HORIZON}), tRP) /\ Old(Min({act + 1, HORIZON}), tRAS + tRP)
      <4>1. tRP \in Int /\ tRAS + tRP \in Int
        BY Times
      <4>2. Old(Min({pre + 1, HORIZON}), tRP)
        BY <2>3, <3>2, <4>1, OldNext
      <4>3. Old(Min({act + 1, HORIZON}), tRAS + tRP)
        <5>1. PICK z \in Int : z = tRAS + tRP
          BY Times
        <5>2. Old(act, z - 1)
          BY <3>2, <5>1, Times DEF Old
        <5>3. Old(Min({act + 1, HORIZON}), z)
          BY <2>3, <5>1, <5>2, OldNext
        <5> QED BY <5>1, <5>3
      <4> QED BY <4>2, <4>3
    <3>4. n.left = 0
      BY <2>2, <2>6 DEF Ticked, Later
    <3> QED BY <2>4, <3>1, <3>3, <3>4 DEF Closing, n
  <2>7. CASE ~(k.left = 1 /\ k.state \in {"PRECHARGING", "REFRESHING", "AWAKING"})
    <3>1. n.state = k.state /\ n.lastCommand = k.lastCommand
      <4>1. CASE k.left # 1
        BY <2>2, <4>1 DEF Ticked
      <4>2. CASE k.left = 1
        BY <2>1, <2>2, <2>7, <4>2 DEF Ticked, BankFields, States, Closing
      <4> QED BY <4>1, <4>2
    <3>2. n.left = Later(k.left - 1, 0) /\ n.nextActivate = Later(k.nextActivate - 1, 0)
      BY <2>2 DEF Ticked
    <3>3. CASE k.state = "PRECHARGING"
      <4>1. k.left >= 2 /\ k.left <= k.nextActivate /\ Old(pre, tRP - k.left)
            /\ Old(act, tRAS + tRP - k.left) /\ k.lastCommand = "PRECHARGE"
        BY <2>1, <2>5, <2>7, <3>3 DEF Closing
      <4>2. Old(Min({pre + 1, HORIZON}), tRP - n.left)
        BY <2>3, <2>5, <3>2, <4>1, OldAges, Times
      <4>3. Old(Min({act + 1, HORIZON}), tRAS + tRP - n.left)
        <5>1. PICK z \in Int : z = tRAS + tRP
          BY Times
        <5>2. Old(act, z - k.left)
          BY <2>5, <4>1, <5>1, Times DEF Old
        <5>3. Old(Min({act + 1, HORIZON}), z - n.left)
          BY <2>3, <2>5, <3>2, <5>1, <5>2, OldAges
        <5>4. tRAS + tRP - n.left = z - n.left
          BY <2>5, <3>2, <5>1, Times DEF Later
        <5> QED BY <5>3, <5>4
      <4>4. 1 <= n.left /\ n.left <= n.nextActivate
        BY <2>5, <3>2, <4>1 DEF Later
      <4> QED BY <2>4, <3>1, <3>3, <4>1, <4>2, <4>3, <4>4 DEF Closing, n
    <3>4. CASE k.state = "ROW_ACTIVE"
      BY <2>1, <3>1, <3>4 DEF Closing, n
    <3>5. CASE k.state \notin {"PRECHARGING", "ROW_ACTIVE"}
      <4>1. Old(pre, tRP) /\ Old(act, tRAS + tRP)
        BY <2>1, <3>5 DEF Closing
      <4>2. tRP \in Int /\ tRAS + tRP \in Int /\ tRC \in Int
        BY Times
      <4>3. Old(Min({pre + 1, HORIZON}), tRP) /\ Old(Min({act + 1, HORIZON}), tRAS + tRP)
            /\ (Old(act, tRC) => Old(Min({act + 1, HORIZON}), tRC))
        BY <2>3, <4>1, <4>2, OldStays
      <4>4. k.state \in {"REFRESHING", "AWAKING"} =>
              k.left >= 2 /\ 1 <= n.left /\ n.left <= n.nextActivate
        BY <2>1, <2>5, <2>7, <3>2 DEF Closing, Later
      <4>5. k.state \in {"IDLE", "POWERDOWN"} => n.left = 0
        BY <2>1, <3>2 DEF Closing, Later
      <4> QED BY <2>1, <2>4, <3>1, <3>5, <4>3, <4>4, <4>5 DEF Closing, n
    <3> QED BY <3>3, <3>4, <3>5
  <2> QED BY <2>6, <2>7
<1> QED BY <1>1, <1>2, <1>3, <1>4, <1>5 DEF Timed, new, g

-----------------------------------------------------------------------------
(* The parts of the vault's record, and what each stage of a Cycle touches. *)

Fields ==
    {"down", "up", "powerDown", "error", "cmdBus", "cmdLeft", "dataBus", "dataLeft", "writeData",
     "atomicCMD", "atomicOperLeft", "pendingDataSize", "pendingRead", "refreshes", "queue", "lock",
     "issuedBank", "refreshWaiting", "tFAW", "rowAccess", "fresh", "popped", "bank", "reads",
     "readData", "readLeft", "converted"}

IsVault(s) == s = [f \in Fields |-> s[f]]
\* t is s but for the fields in F.
Same(s, t, F) == IsVault(t) /\ \A f \in Fields \ F : t[f] = s[f]

LEMMA ExitFrame ==
  ASSUME NEW s, IsVault(s), NEW t, t = Exit(s)
  PROVE  Same(s, t, {"error"}) /\ t.error = TRUE
BY DEF Exit, IsVault, Same, Fields

\* The response that access c is the last one for has room.
Fits(s, c) == Size(s.up) + ResponseLength(c) <= MAX_VLT_BUF
Checked(s, t, c) == (Fits(s, c) => t.error = s.error) /\ (~Fits(s, c) => t.error = TRUE)

LEMMA RespondFrame ==
  ASSUME NEW s, IsVault(s), NEW c, NEW t, t = MakeRespondPacket(s, c)
  PROVE  /\ Same(s, t, {"up", "pendingDataSize", "error"})
         /\ t.up = Append(s.up, [tag |-> c.tag, lng |-> ResponseLength(c)])
         /\ t.pendingDataSize = s.pendingDataSize - ResponseLength(c)
         /\ Checked(s, t, c)
<1> DEFINE n == ResponseLength(c)
           m == [s EXCEPT !.pendingDataSize = @ - n, !.up = Append(@, [tag |-> c.tag, lng |-> n])]
<1>1. t = IF Size(s.up) + n <= MAX_VLT_BUF THEN m ELSE [m EXCEPT !.error = TRUE]
  BY DEF MakeRespondPacket, Exit
<1> HIDE DEF n
<1>2. CASE Size(s.up) + n <= MAX_VLT_BUF
  BY <1>1, <1>2 DEF IsVault, Same, Fields, n, Fits, Checked
<1>3. CASE ~(Size(s.up) + n <= MAX_VLT_BUF)
  BY <1>1, <1>3 DEF IsVault, Same, Fields, n, Fits, Checked
<1> QED BY <1>2, <1>3

LEMMA CommandOutFrame ==
  ASSUME NEW s, IsVault(s), s.cmdBus # NoCMD => s.cmdLeft = 1, NEW t, t = CommandOut(s)
  PROVE  /\ Same(s, t, {"cmdBus", "cmdLeft", "bank", "reads"})
         /\ t.cmdBus = NoCMD
         /\ t.bank = IF s.cmdBus = NoCMD THEN s.bank ELSE ReceiveCMD(s.bank, s.cmdBus)
         /\ t.reads = IF s.cmdBus.type \in Reads THEN Append(s.reads, [cmd |-> s.cmdBus, left |-> RL])
                      ELSE s.reads
<1>0. NoCMD.type \notin Reads
  BY DEF NoCMD, Reads, Command
<1>1. CASE s.cmdBus = NoCMD
  BY <1>0, <1>1 DEF CommandOut, IsVault, Same, Fields
<1>2. CASE s.cmdBus # NoCMD
  <2>1. t = [s EXCEPT !.bank = ReceiveCMD(@, s.cmdBus), !.cmdBus = NoCMD, !.cmdLeft = 0,
                   !.reads = IF s.cmdBus.type \in Reads
                             THEN Append(@, [cmd |-> s.cmdBus, left |-> RL]) ELSE @]
    BY <1>2 DEF CommandOut
  <2> QED BY <1>2, <2>1 DEF IsVault, Same, Fields
<1> QED BY <1>1, <1>2

\* The last access of a request that is answered.
Answered(c) == c.last /\ ~Atomic(c) /\ ~Requests[c.tag].posted

LEMMA DataOutFrame ==
  ASSUME NEW s, IsVault(s), NEW t, t = DataOut(s)
  PROVE  /\ Same(s, t, {"dataBus", "dataLeft", "up", "pendingDataSize", "error"})
         /\ s.dataBus = NoCMD => t = s
         /\ s.dataBus # NoCMD /\ s.dataLeft > 1 =>
              t.dataBus = s.dataBus /\ t.dataLeft = s.dataLeft - 1 /\ t.up = s.up
              /\ t.pendingDataSize = s.pendingDataSize /\ t.error = s.error
         /\ s.dataBus # NoCMD /\ ~(s.dataLeft > 1) =>
              /\ t.dataBus = NoCMD
              /\ ~Answered(s.dataBus) =>
                   t.up = s.up /\ t.pendingDataSize = s.pendingDataSize /\ t.error = s.error
              /\ Answered(s.dataBus) =>
                   /\ t.up = Append(s.up, [tag |-> s.dataBus.tag, lng |-> ResponseLength(s.dataBus)])
                   /\ t.pendingDataSize = s.pendingDataSize - ResponseLength(s.dataBus)
                   /\ Checked(s, t, s.dataBus)
<1>1. CASE s.dataBus = NoCMD
  BY <1>1 DEF DataOut, IsVault, Same, Fields
<1>2. CASE s.dataBus # NoCMD /\ s.dataLeft > 1
  <2>1. t = [s EXCEPT !.dataLeft = @ - 1]
    BY <1>2 DEF DataOut
  <2> QED BY <1>2, <2>1 DEF IsVault, Same, Fields
<1>3. CASE s.dataBus # NoCMD /\ ~(s.dataLeft > 1)
  <2> DEFINE m == [s EXCEPT !.dataBus = NoCMD, !.dataLeft = 0]
  <2>1. t = IF Answered(s.dataBus) THEN MakeRespondPacket(m, s.dataBus) ELSE m
    BY <1>3, Zenon DEF DataOut, Answered
  <2>2. Same(s, m, {"dataBus", "dataLeft"}) /\ m.dataBus = NoCMD
    BY DEF IsVault, Same, Fields
  <2> HIDE DEF m
  <2>3. m.up = s.up /\ m.pendingDataSize = s.pendingDataSize /\ m.error = s.error /\ IsVault(m)
    BY <2>2 DEF Same, Fields
  <2>4. CASE ~Answered(s.dataBus)
    BY <1>3, <2>1, <2>2, <2>3, <2>4 DEF Same, Fields
  <2>5. CASE Answered(s.dataBus)
    <3>1. t = MakeRespondPacket(m, s.dataBus)
      BY <2>1, <2>5
    <3>2. /\ Same(m, t, {"up", "pendingDataSize", "error"})
          /\ t.up = Append(m.up, [tag |-> s.dataBus.tag, lng |-> ResponseLength(s.dataBus)])
          /\ t.pendingDataSize = m.pendingDataSize - ResponseLength(s.dataBus)
          /\ Checked(m, t, s.dataBus)
      BY <2>3, <3>1, RespondFrame
    <3>3. Same(s, t, {"dataBus", "dataLeft", "up", "pendingDataSize", "error"}) /\ t.dataBus = NoCMD
      BY <2>2, <3>2 DEF Same, Fields
    <3>4. Checked(s, t, s.dataBus)
      BY <2>3, <3>2 DEF Checked, Fits
    <3> QED BY <1>3, <2>3, <2>5, <3>2, <3>3, <3>4
  <2> QED BY <2>4, <2>5
<1> QED BY <1>1, <1>2, <1>3

WriteDue(s) == s.writeData # <<>> /\ s.writeData[1].left = 0

LEMMA WriteDataOutFrame ==
  ASSUME NEW s, IsVault(s), NEW t, t = WriteDataOut(s)
  PROVE  /\ Same(s, t, {"dataBus", "dataLeft", "writeData", "error"})
         /\ WriteDue(s) =>
              /\ t.dataBus = s.writeData[1].cmd /\ t.dataLeft = BL
              /\ t.writeData = CountDown(Tail(s.writeData))
              /\ s.dataBus # NoCMD => t.error = TRUE
              /\ s.dataBus = NoCMD => t.error = s.error
         /\ ~WriteDue(s) =>
              /\ t.dataBus = s.dataBus /\ t.dataLeft = s.dataLeft /\ t.error = s.error
              /\ t.writeData = CountDown(s.writeData)
<1>1. CASE WriteDue(s)
  <2> DEFINE m == [s EXCEPT !.dataBus = s.writeData[1].cmd, !.dataLeft = BL,
                            !.writeData = CountDown(Tail(@))]
  <2>1. t = IF s.dataBus # NoCMD THEN [m EXCEPT !.error = TRUE] ELSE m
    BY <1>1 DEF WriteDataOut, WriteDue, Exit
  <2>2. CASE s.dataBus # NoCMD
    BY <1>1, <2>1, <2>2 DEF IsVault, Same, Fields
  <2>3. CASE s.dataBus = NoCMD
    BY ZenonT(30), <1>1, <2>1, <2>3 DEF IsVault, Same, Fields
  <2> QED BY <2>2, <2>3
<1>2. CASE ~WriteDue(s)
  <2>1. t = [s EXCEPT !.writeData = CountDown(@)]
    BY <1>2 DEF WriteDataOut, WriteDue
  <2> QED BY <1>2, <2>1 DEF IsVault, Same, Fields
<1> QED BY <1>1, <1>2

\* The refresh timer.
Timer(s, due) == IF due THEN [s EXCEPT !.refreshWaiting = TRUE, !.refreshes = @ + 1] ELSE s

LEMMA TimerFrame ==
  ASSUME NEW s, IsVault(s), NEW due \in BOOLEAN, NEW t, t = Timer(s, due)
  PROVE  /\ Same(s, t, {"refreshWaiting", "refreshes"})
         /\ due => t.refreshWaiting = TRUE /\ t.refreshes = s.refreshes + 1
         /\ ~due => t = s
BY DEF Timer, IsVault, Same, Fields

\* In t the request tag has been converted for bank b.
Converts(s, t, i, tag, b) ==
    /\ Same(s, t, {"queue", "fresh", "down", "converted", "pendingRead"})
    /\ t.queue = [s.queue EXCEPT ![Q(b)] = s.queue[Q(b)] \o Commands(tag)]
    /\ t.fresh = IF s.queue[Q(b)] = <<>> THEN s.fresh \cup {Q(b)} ELSE s.fresh
    /\ t.down = RemoveAt(s.down, i) /\ t.converted = Append(s.converted, tag)
    /\ t.pendingRead = IF Requests[tag].op = "WR" THEN s.pendingRead
                       ELSE s.pendingRead \o [j \in 1 .. Requests[tag].cmds |-> tag]

LEMMA ConvFrame ==
  ASSUME NEW s, IsVault(s), NEW i, NEW tag, tag = s.down[i],
         NEW t, t = ConvPacketIntoCMDs(s, i), NEW b, b = Requests[tag].bank
  PROVE  Converts(s, t, i, tag, b)
<1> DEFINE m == Enqueue(s, b, Commands(tag))
<1>1. Same(s, m, {"queue", "fresh"})
      /\ m.queue = [s.queue EXCEPT ![Q(b)] = s.queue[Q(b)] \o Commands(tag)]
      /\ m.fresh = IF s.queue[Q(b)] = <<>> THEN s.fresh \cup {Q(b)} ELSE s.fresh
  BY DEF Enqueue, IsVault, Same, Fields
<1>2. t = [m EXCEPT !.down = RemoveAt(@, i), !.converted = Append(@, tag),
                    !.pendingRead = IF Requests[tag].op = "WR" THEN @
                                    ELSE @ \o [j \in 1 .. Requests[tag].cmds |-> tag]]
  BY DEF ConvPacketIntoCMDs
<1> HIDE DEF m
<1>3. m.down = s.down /\ m.converted = s.converted /\ m.pendingRead = s.pendingRead
  BY <1>1 DEF Same, Fields
<1>8. m = [f \in Fields |-> m[f]]
  BY <1>1 DEF Same, IsVault
<1>4. t.down = RemoveAt(s.down, i) /\ t.converted = Append(s.converted, tag)
      /\ t.pendingRead = (IF Requests[tag].op = "WR" THEN s.pendingRead
                         ELSE s.pendingRead \o [j \in 1 .. Requests[tag].cmds |-> tag])
  <2>1. "down" \in DOMAIN m /\ "converted" \in DOMAIN m /\ "pendingRead" \in DOMAIN m
    BY <1>8 DEF Fields
  <2>2. /\ t.down = RemoveAt(m.down, i) /\ t.converted = Append(m.converted, tag)
        /\ t.pendingRead = IF Requests[tag].op = "WR" THEN m.pendingRead
                           ELSE m.pendingRead \o [j \in 1 .. Requests[tag].cmds |-> tag]
    BY <1>2, <2>1
  <2> QED BY <1>3, <2>2
<1>5. Same(m, t, {"down", "converted", "pendingRead"})
  BY <1>1, <1>2 DEF Same, IsVault, Fields
<1>6. t.queue = m.queue /\ t.fresh = m.fresh
  BY <1>5 DEF Same, Fields
<1>7. Same(s, t, {"queue", "fresh", "down", "converted", "pendingRead"})
  BY <1>1, <1>5 DEF Same, Fields
<1> QED BY <1>1, <1>4, <1>6, <1>7 DEF Converts

LEMMA IssueFrame ==
  ASSUME NEW s, IsVault(s), s.cmdBus = NoCMD, NEW t, t = IssuePopped(s)
  PROVE  /\ Same(s, t, {"writeData", "pendingDataSize", "cmdBus", "cmdLeft", "popped"})
         /\ t.popped = NoCMD /\ t.cmdBus = s.popped
         /\ s.popped = NoCMD => t = s
         /\ s.popped # NoCMD =>
              /\ t.cmdLeft = tCMD
              /\ t.writeData = IF s.popped.type \in Writes
                               THEN Append(s.writeData, [cmd |-> s.popped, left |-> WL]) ELSE s.writeData
              /\ t.pendingDataSize = IF Reserves(s.popped)
                                     THEN s.pendingDataSize + ResponseLength(s.popped)
                                     ELSE s.pendingDataSize
<1>1. CASE s.popped = NoCMD
  BY <1>1 DEF IssuePopped, IsVault, Same, Fields
<1>2. CASE s.popped # NoCMD
  <2>1. t = [s EXCEPT !.writeData = IF s.popped.type \in Writes
                                     THEN Append(@, [cmd |-> s.popped, left |-> WL]) ELSE @,
                       !.pendingDataSize = IF Reserves(s.popped) THEN @ + ResponseLength(s.popped) ELSE @,
                       !.cmdBus = s.popped, !.cmdLeft = tCMD, !.popped = NoCMD]
    BY <1>2 DEF IssuePopped
  <2> QED BY ZenonT(30), <1>2, <2>1 DEF IsVault, Same, Fields
<1> QED BY <1>1, <1>2

WriteBack(c) == Command(IF OPEN_PAGE THEN "WRITE" ELSE "WRITE_P", c.tag, c.bank, c.row, TRUE)

\* What AtomicOperation makes of s: the operation on c goes on, or ends.
AtomicCounts(s, t) == Same(s, t, {"atomicOperLeft"}) /\ t.atomicOperLeft = s.atomicOperLeft - 1
AtomicEnds(s, t, c) ==
    /\ Same(s, t, {"atomicCMD", "queue", "up", "pendingDataSize", "error"})
    /\ t.atomicCMD = NoCMD
    /\ Locking(c) => t.queue = [s.queue EXCEPT ![Q(c.bank)] = <<WriteBack(c)>> \o s.queue[Q(c.bank)]]
    /\ ~Locking(c) => t.queue = s.queue
    /\ Requests[c.tag].posted =>
         t.up = s.up /\ t.pendingDataSize = s.pendingDataSize /\ t.error = s.error
    /\ ~Requests[c.tag].posted =>
         /\ t.up = Append(s.up, [tag |-> c.tag, lng |-> ResponseLength(c)])
         /\ t.pendingDataSize = s.pendingDataSize - ResponseLength(c)
         /\ Checked(s, t, c)

LEMMA AtomicFrame ==
  ASSUME NEW s, IsVault(s), NEW c, c = s.atomicCMD, NEW t, t = AtomicOperation(s)
  PROVE  /\ c = NoCMD => t = s
         /\ c # NoCMD /\ s.atomicOperLeft > 0 => AtomicCounts(s, t)
         /\ c # NoCMD /\ ~(s.atomicOperLeft > 0) => AtomicEnds(s, t, c)
<1>1. CASE c = NoCMD
  BY <1>1 DEF AtomicOperation, IsVault, Same, Fields
<1>2. CASE c # NoCMD /\ s.atomicOperLeft > 0
  <2>1. t = [s EXCEPT !.atomicOperLeft = @ - 1]
    BY <1>2 DEF AtomicOperation
  <2> QED BY <1>2, <2>1 DEF IsVault, Same, Fields, AtomicCounts
<1>3. CASE c # NoCMD /\ ~(s.atomicOperLeft > 0)
  <2> DEFINE done == [s EXCEPT !.atomicCMD = NoCMD]
             m == IF Locking(c) THEN [done EXCEPT !.queue[Q(c.bank)] = <<WriteBack(c)>> \o @] ELSE done
  <2>1. t = IF Requests[c.tag].posted THEN m ELSE MakeRespondPacket(m, c)
    <3>1. CASE Locking(c)
      BY <1>3, <3>1 DEF AtomicOperation, WriteBack
    <3>2. CASE ~Locking(c)
      BY <1>3, <3>2 DEF AtomicOperation
    <3> QED BY <3>1, <3>2
  <2>2. Same(s, done, {"atomicCMD"}) /\ done.atomicCMD = NoCMD
    BY DEF IsVault, Same, Fields
  <2> HIDE DEF done
  <2>3. Same(done, m, {"queue"})
        /\ m.queue = IF Locking(c) THEN [done.queue EXCEPT ![Q(c.bank)] = <<WriteBack(c)>> \o @]
                     ELSE done.queue
    BY <2>2 DEF IsVault, Same, Fields
  <2> HIDE DEF m
  <2>4. /\ Same(s, m, {"atomicCMD", "queue"}) /\ m.atomicCMD = NoCMD
        /\ Locking(c) => m.queue = [s.queue EXCEPT ![Q(c.bank)] = <<WriteBack(c)>> \o s.queue[Q(c.bank)]]
        /\ ~Locking(c) => m.queue = s.queue
    BY <2>2, <2>3 DEF Same, Fields
  <2>5. m.up = s.up /\ m.pendingDataSize = s.pendingDataSize /\ m.error = s.error /\ IsVault(m)
        /\ m.atomicOperLeft = s.atomicOperLeft
    BY <2>4 DEF Same, Fields
  <2>6. CASE Requests[c.tag].posted
    BY <1>3, <2>1, <2>4, <2>5, <2>6 DEF Same, Fields, AtomicEnds
  <2>7. CASE ~Requests[c.tag].posted
    <3>0. PICK k : k = m
      OBVIOUS
    <3>1. t = MakeRespondPacket(k, c) /\ IsVault(k)
      BY <2>1, <2>5, <2>7, <3>0
    <3>4. /\ Same(k, t, {"up", "pendingDataSize", "error"})
          /\ t.up = Append(k.up, [tag |-> c.tag, lng |-> ResponseLength(c)])
          /\ t.pendingDataSize = k.pendingDataSize - ResponseLength(c)
          /\ Checked(k, t, c)
      <4>1. ASSUME NEW d, NEW e, e = MakeRespondPacket(k, d)
            PROVE  /\ Same(k, e, {"up", "pendingDataSize", "error"})
                   /\ e.up = Append(k.up, [tag |-> d.tag, lng |-> ResponseLength(d)])
                   /\ e.pendingDataSize = k.pendingDataSize - ResponseLength(d)
                   /\ Checked(k, e, d)
        BY <3>1, <4>1, RespondFrame
      <4>2. t = MakeRespondPacket(k, c)
        BY <3>1
      <4> QED BY <4>1, <4>2
    <3>2. /\ Same(m, t, {"up", "pendingDataSize", "error"})
          /\ t.up = Append(m.up, [tag |-> c.tag, lng |-> ResponseLength(c)])
          /\ t.pendingDataSize = m.pendingDataSize - ResponseLength(c)
          /\ Checked(m, t, c)
      BY <3>0, <3>4
    <3>3. /\ Same(s, t, {"atomicCMD", "queue", "up", "pendingDataSize", "error"})
          /\ t.atomicCMD = NoCMD /\ t.queue = m.queue
      BY <2>4, <2>5, <3>2 DEF Same, Fields
    <3>5. Checked(s, t, c)
      BY <2>5, <3>2 DEF Checked, Fits
    <3> QED BY <1>3, <2>4, <2>5, <2>7, <3>2, <3>3, <3>5 DEF AtomicEnds
  <2> QED BY <2>6, <2>7
<1> QED BY <1>1, <1>2, <1>3

LEMMA PowerFrame ==
  ASSUME NEW s, IsVault(s), NEW t, t = EnablePowerdown(s)
  PROVE  /\ Same(s, t, {"bank", "powerDown"})
         /\ \/ /\ USE_LOW_POWER /\ AtRest(s) /\ AllIdle(s.bank)
               /\ t.bank = PowerDown(s.bank) /\ t.powerDown = TRUE
            \/ /\ ~AtRest(s) /\ s.powerDown /\ s.bank[0].nextPowerUp = 0
               /\ t.bank = PowerUp(s.bank) /\ t.powerDown = FALSE
            \/ /\ t = s
               /\ \/ ~USE_LOW_POWER
                  \/ AtRest(s) /\ ~AllIdle(s.bank)
                  \/ ~AtRest(s) /\ ~(s.powerDown /\ s.bank[0].nextPowerUp = 0)
<1>1. CASE USE_LOW_POWER /\ AtRest(s) /\ AllIdle(s.bank)
  <2>1. t = [s EXCEPT !.bank = PowerDown(@), !.powerDown = TRUE]
    BY <1>1, Zenon DEF EnablePowerdown
  <2> QED BY <1>1, <2>1 DEF IsVault, Same, Fields
<1>2. CASE USE_LOW_POWER /\ ~AtRest(s) /\ s.powerDown /\ s.bank[0].nextPowerUp = 0
  <2>1. t = [s EXCEPT !.bank = PowerUp(@), !.powerDown = FALSE]
    BY <1>2, Zenon DEF EnablePowerdown
  <2> QED BY <1>2, <2>1 DEF IsVault, Same, Fields
<1>3. CASE \/ ~USE_LOW_POWER
           \/ AtRest(s) /\ ~AllIdle(s.bank)
           \/ ~AtRest(s) /\ ~(s.powerDown /\ s.bank[0].nextPowerUp = 0)
  <2>1. t = s
    BY <1>3, Zenon DEF EnablePowerdown
  <2> QED BY <1>3, <2>1 DEF IsVault, Same, Fields
<1> QED BY <1>1, <1>2, <1>3

FoundIn(s, c) == {i \in DOMAIN s.pendingRead : s.pendingRead[i] = c.tag}

\* What ReturnCommand makes of s when the read was asked for and the bus is free.
Returned(s, t, c) ==
    /\ t.pendingRead = RemoveAt(s.pendingRead, Min(FoundIn(s, c)))
    /\ ~c.last => Same(s, t, {"pendingRead"})
    /\ c.last /\ Atomic(c) =>
         /\ Same(s, t, {"pendingRead", "atomicCMD", "atomicOperLeft"})
         /\ t.atomicCMD = c /\ t.atomicOperLeft = 1
    /\ c.last /\ ~Atomic(c) =>
         /\ Same(s, t, {"pendingRead", "up", "pendingDataSize", "error"})
         /\ t.up = Append(s.up, [tag |-> c.tag, lng |-> ResponseLength(c)])
         /\ t.pendingDataSize = s.pendingDataSize - ResponseLength(c)
         /\ Checked(s, t, c)

LEMMA ReturnFrame ==
  ASSUME NEW s, IsVault(s), NEW c, NEW t, t = ReturnCommand(s, c)
  PROVE  /\ Same(s, t, {"pendingRead", "atomicCMD", "atomicOperLeft", "up", "pendingDataSize", "error"})
         /\ s.dataBus # NoCMD \/ FoundIn(s, c) = {} => Same(s, t, {"error"}) /\ t.error = TRUE
         /\ s.dataBus = NoCMD /\ FoundIn(s, c) # {} => Returned(s, t, c)
<1> DEFINE m == [s EXCEPT !.pendingRead = RemoveAt(@, Min(FoundIn(s, c)))]
<1>1. t = IF s.dataBus # NoCMD \/ FoundIn(s, c) = {} THEN Exit(s)
          ELSE IF ~c.last THEN m
          ELSE IF Atomic(c) THEN [m EXCEPT !.atomicCMD = c, !.atomicOperLeft = 1]
          ELSE MakeRespondPacket(m, c)
  BY Zenon DEF ReturnCommand, FoundIn
<1>2. Same(s, m, {"pendingRead"}) /\ m.pendingRead = RemoveAt(s.pendingRead, Min(FoundIn(s, c)))
  BY DEF IsVault, Same, Fields
<1> HIDE DEF m
<1>3. m.up = s.up /\ m.pendingDataSize = s.pendingDataSize /\ m.error = s.error /\ IsVault(m)
  BY <1>2 DEF Same, Fields
<1>4. CASE s.dataBus # NoCMD \/ FoundIn(s, c) = {}
  <2>1. Same(s, t, {"error"}) /\ t.error = TRUE
    BY <1>1, <1>4, ExitFrame
  <2> QED BY <1>4, <2>1 DEF Same, Fields
<1>5. CASE s.dataBus = NoCMD /\ FoundIn(s, c) # {} /\ ~c.last
  BY <1>1, <1>2, <1>5 DEF Same, Fields, Returned
<1>6. CASE s.dataBus = NoCMD /\ FoundIn(s, c) # {} /\ c.last /\ Atomic(c)
  <2>1. t = [m EXCEPT !.atomicCMD = c, !.atomicOperLeft = 1]
    BY <1>1, <1>6
  <2>2. Same(m, t, {"atomicCMD", "atomicOperLeft"}) /\ t.atomicCMD = c /\ t.atomicOperLeft = 1
    BY <1>3, <2>1 DEF IsVault, Same, Fields
  <2> QED BY <1>2, <1>6, <2>2 DEF Same, Fields, Returned
<1>7. CASE s.dataBus = NoCMD /\ FoundIn(s, c) # {} /\ c.last /\ ~Atomic(c)
  <2>1. t = MakeRespondPacket(m, c)
    BY <1>1, <1>7
  <2>2. /\ Same(m, t, {"up", "pendingDataSize", "error"})
        /\ t.up = Append(m.up, [tag |-> c.tag, lng |-> ResponseLength(c)])
        /\ t.pendingDataSize = m.pendingDataSize - ResponseLength(c)
        /\ Checked(m, t, c)
    BY <1>3, <2>1, RespondFrame
  <2>3. Same(s, t, {"pendingRead", "up", "pendingDataSize", "error"}) /\ t.pendingRead = m.pendingRead
    BY <1>2, <2>2 DEF Same, Fields
  <2>4. Checked(s, t, c)
    BY <1>3, <2>2 DEF Checked, Fits
  <2> QED BY <1>2, <1>3, <1>7, <2>2, <2>3, <2>4 DEF Same, Fields, Returned
<1> QED BY <1>4, <1>5, <1>6, <1>7

ReadEnds(s) == s.readData # NoCMD /\ s.readLeft = 1
ReadDue(s) == s.reads # <<>> /\ s.reads[1].left = 0
\* The clocks step, and the read that ends is returned: the first half of DRAM::Update.
Clocked(s) == [s EXCEPT !.bank = Tick(@), !.fresh = {}]
Ended(s) ==
    IF ReadEnds(s) THEN [ReturnCommand(s, s.readData) EXCEPT !.readData = NoCMD, !.readLeft = 0]
    ELSE [s EXCEPT !.readLeft = Later(@ - 1, 0)]
Begun(s) ==
    IF ReadDue(s) THEN [s EXCEPT !.readData = s.reads[1].cmd, !.readLeft = BL, !.reads = CountDown(Tail(@))]
    ELSE [s EXCEPT !.reads = CountDown(@)]

LEMMA DRAMStages ==
  ASSUME NEW s
  PROVE  DRAMUpdate(s) = Begun(Ended(Clocked(s)))
BY Zenon DEF DRAMUpdate, DRAMUpdateState, Begun, Ended, Clocked, ReadEnds, ReadDue, Tick

LEMMA ClockedFrame ==
  ASSUME NEW s, IsVault(s), NEW t, t = Clocked(s)
  PROVE  Same(s, t, {"bank", "fresh"}) /\ t.bank = Tick(s.bank) /\ t.fresh = {}
BY DEF Clocked, IsVault, Same, Fields

LEMMA EndedFrame ==
  ASSUME NEW s, IsVault(s), NEW t, t = Ended(s)
  PROVE  /\ Same(s, t, {"readData", "readLeft", "pendingRead", "atomicCMD", "atomicOperLeft", "up",
                        "pendingDataSize", "error"})
         /\ ~ReadEnds(s) => Same(s, t, {"readLeft"}) /\ t.readLeft = Later(s.readLeft - 1, 0)
         /\ ReadEnds(s) =>
              /\ t.readData = NoCMD /\ t.readLeft = 0
              /\ Same(ReturnCommand(s, s.readData), t, {"readData", "readLeft"})
<1>1. CASE ~ReadEnds(s)
  BY <1>1 DEF Ended, IsVault, Same, Fields
<1>2. CASE ReadEnds(s)
  <2>1. PICK m : m = ReturnCommand(s, s.readData)
    OBVIOUS
  <2>2. Same(s, m, {"pendingRead", "atomicCMD", "atomicOperLeft", "up", "pendingDataSize", "error"})
    BY <2>1, ReturnFrame
  <2>3. t = [m EXCEPT !.readData = NoCMD, !.readLeft = 0]
    BY <1>2, <2>1 DEF Ended
  <2>4. Same(m, t, {"readData", "readLeft"}) /\ t.readData = NoCMD /\ t.readLeft = 0
    BY <2>2, <2>3 DEF IsVault, Same, Fields
  <2>5. Same(s, t, {"readData", "readLeft", "pendingRead", "atomicCMD", "atomicOperLeft", "up",
                    "pendingDataSize", "error"})
    BY <2>2, <2>4 DEF Same, Fields
  <2> QED BY <1>2, <2>1, <2>4, <2>5
<1> QED BY <1>1, <1>2

LEMMA BegunFrame ==
  ASSUME NEW s, IsVault(s), NEW t, t = Begun(s)
  PROVE  /\ Same(s, t, {"readData", "readLeft", "reads"})
         /\ ReadDue(s) => /\ t.readData = s.reads[1].cmd /\ t.readLeft = BL
                          /\ t.reads = CountDown(Tail(s.reads))
         /\ ~ReadDue(s) => /\ t.readData = s.readData /\ t.readLeft = s.readLeft
                           /\ t.reads = CountDown(s.reads)
<1>1. CASE ReadDue(s)
  BY <1>1 DEF Begun, IsVault, Same, Fields
<1>2. CASE ~ReadDue(s)
  BY <1>2 DEF Begun, IsVault, Same, Fields
<1> QED BY <1>1, <1>2

-----------------------------------------------------------------------------
(* What the vault's record holds, under the open page policy.              *)

\* A command of a request, one that closes rows, or none.
CommandSet == [type : {"ACTIVATE", "READ", "WRITE"}, tag : Tags, bank : Banks, row : Nat, last : BOOLEAN]
Asked ==
    {c \in CommandSet :
        /\ c.bank = Requests[c.tag].bank /\ c.row = Requests[c.tag].row
        /\ c.type = "ACTIVATE" => c.last
        /\ c.type = "READ" => Requests[c.tag].op # "WR"
        /\ c.type = "WRITE" => Requests[c.tag].op = "WR" \/ Locking(c)
        /\ Requests[c.tag].op = "ATM" => c.last}
AskedReads == {c \in Asked : c.type = "READ"}
AskedWrites == {c \in Asked : c.type = "WRITE"}
Closer(b) == Command("PRECHARGE", NoTag, b, 0, TRUE)
Refresher == Command("REFRESH", NoTag, 0, 0, TRUE)
Issued == Asked \cup {Closer(b) : b \in Banks} \cup {Refresher, NoCMD}

PendingReads == [cmd : AskedReads, left : Int]
PendingWrites == [cmd : AskedWrites, left : Int]
Response == [tag : Tags, lng : Nat]

VaultSet ==
    [down : Seq(Tags), up : Seq(Response), powerDown : BOOLEAN, error : BOOLEAN,
     cmdBus : Issued, cmdLeft : Nat, dataBus : AskedWrites \cup {NoCMD}, dataLeft : Nat,
     writeData : Seq(PendingWrites), atomicCMD : AskedReads \cup {NoCMD}, atomicOperLeft : Nat,
     pendingDataSize : Int, pendingRead : Seq(Tags), refreshes : Nat,
     queue : [Queues -> Seq(Asked)], lock : [Banks -> Tags \cup {NoTag}],
     issuedBank : Banks, refreshWaiting : BOOLEAN, tFAW : Seq(Int), rowAccess : [Banks -> Nat],
     fresh : SUBSET Queues, popped : Issued, bank : [Banks -> BankType],
     reads : Seq(PendingReads), readData : AskedReads \cup {NoCMD}, readLeft : Nat,
     converted : Seq(Tags)]

\* The same, field by field.
VaultHas(s) ==
    /\ s.down \in Seq(Tags) /\ s.up \in Seq(Response) /\ s.powerDown \in BOOLEAN /\ s.error \in BOOLEAN
    /\ s.cmdBus \in Issued /\ s.cmdLeft \in Nat /\ s.dataBus \in AskedWrites \cup {NoCMD}
    /\ s.dataLeft \in Nat /\ s.writeData \in Seq(PendingWrites)
    /\ s.atomicCMD \in AskedReads \cup {NoCMD} /\ s.atomicOperLeft \in Nat
    /\ s.pendingDataSize \in Int /\ s.pendingRead \in Seq(Tags) /\ s.refreshes \in Nat
    /\ s.queue \in [Queues -> Seq(Asked)] /\ s.lock \in [Banks -> Tags \cup {NoTag}]
    /\ s.issuedBank \in Banks /\ s.refreshWaiting \in BOOLEAN /\ s.tFAW \in Seq(Int)
    /\ s.rowAccess \in [Banks -> Nat] /\ s.fresh \in SUBSET Queues /\ s.popped \in Issued
    /\ s.bank \in [Banks -> BankType] /\ s.reads \in Seq(PendingReads)
    /\ s.readData \in AskedReads \cup {NoCMD} /\ s.readLeft \in Nat /\ s.converted \in Seq(Tags)

LEMMA VaultSetIs ==
  ASSUME NEW s
  PROVE  s \in VaultSet <=> IsVault(s) /\ VaultHas(s)
<1>1. ASSUME s \in VaultSet PROVE IsVault(s) /\ VaultHas(s)
  <2>1. IsVault(s)
    BY <1>1 DEF VaultSet, IsVault, Fields
  <2>2. VaultHas(s)
    BY <1>1 DEF VaultSet, VaultHas
  <2> QED BY <2>1, <2>2
<1>2. ASSUME IsVault(s), VaultHas(s) PROVE s \in VaultSet
  BY <1>2 DEF VaultSet, IsVault, Fields, VaultHas
<1> QED BY <1>1, <1>2

\* Requests.
LEMMA RequestHas ==
  ASSUME NEW t \in Tags
  PROVE  LET r == Requests[t]
         IN /\ t \in Nat \ {NoTag} /\ r.op \in {"RD", "WR", "ATM"} /\ r.bank \in Banks /\ r.row \in Nat
            /\ r.cmds \in Nat \ {0} /\ (r.op = "ATM" => r.cmds = 1) /\ r.lng \in Nat /\ r.data \in Nat
            /\ r.returns \in Nat \ {0} /\ r.returns <= r.data + 1
            /\ r.posted \in BOOLEAN /\ r.writeBack \in BOOLEAN
BY RequestsAssumption DEF Tags

LEMMA ResponseLengthIs ==
  ASSUME NEW c, c.tag \in Tags
  PROVE  /\ ResponseLength(c) \in Nat \ {0} /\ ResponseLength(c) <= Requests[c.tag].data + 1
<1>1. PICK r : r = Requests[c.tag]
  OBVIOUS
<1>2. /\ r.op \in {"RD", "WR", "ATM"} /\ r.data \in Nat /\ r.returns \in Nat \ {0}
      /\ r.returns <= r.data + 1
  BY <1>1, RequestHas
<1>3. CASE r.op = "ATM"
  <2>1. ResponseLength(c) = r.returns
    BY <1>1, <1>3 DEF ResponseLength
  <2> QED BY <1>1, <1>2, <2>1
<1>4. CASE r.op = "WR"
  <2>1. ResponseLength(c) = 1
    BY <1>1, <1>4 DEF ResponseLength
  <2> QED BY <1>1, <1>2, <2>1
<1>5. CASE r.op = "RD"
  <2>1. ResponseLength(c) = r.data + 1
    BY <1>1, <1>5 DEF ResponseLength
  <2> QED BY <1>1, <1>2, <2>1
<1> QED BY <1>2, <1>3, <1>4, <1>5

LEMMA AskedHas ==
  ASSUME NEW c \in Asked
  PROVE  /\ c.type \in {"ACTIVATE", "READ", "WRITE"} /\ c.tag \in Tags /\ c.tag # NoTag
         /\ c.bank \in Banks /\ c.row \in Nat /\ c.last \in BOOLEAN
         /\ c.bank = Requests[c.tag].bank /\ c.row = Requests[c.tag].row
         /\ c \in Arrival /\ c # NoCMD
<1>1. c \in CommandSet /\ c.tag \in Tags /\ c.bank = Requests[c.tag].bank /\ c.row = Requests[c.tag].row
      /\ c.type \in {"ACTIVATE", "READ", "WRITE"} /\ c.bank \in Banks /\ c.row \in Nat /\ c.last \in BOOLEAN
  BY DEF Asked, CommandSet
<1>2. c.tag \in Nat \ {NoTag}
  BY <1>1, RequestHas
<1>3. c \in Arrival
  BY <1>1, <1>2 DEF Arrival, CommandSet
<1>4. NoCMD.type = "NONE"
  BY DEF NoCMD, Command
<1> QED BY <1>1, <1>2, <1>3, <1>4

LEMMA CloserHas ==
  /\ \A b \in Banks : /\ Closer(b).type = "PRECHARGE" /\ Closer(b).tag = NoTag /\ Closer(b).bank = b
                      /\ Closer(b) \in Arrival
  /\ Refresher.type = "REFRESH" /\ Refresher.tag = NoTag /\ Refresher.bank = 0 /\ Refresher \in Arrival
  /\ NoCMD.type = "NONE" /\ NoCMD.tag = NoTag /\ NoCMD.bank = 0
<1>1. NoTag \in Nat /\ 0 \in Banks
  BY BankNumbers DEF NoTag
<1> QED BY <1>1 DEF Closer, Refresher, NoCMD, Command, Arrival

\* The type tells an issued command's kind.
LEMMA IssuedHas ==
  ASSUME NEW c \in Issued
  PROVE  /\ c.type \in {"ACTIVATE", "READ", "WRITE"} => c \in Asked
         /\ c.type = "PRECHARGE" => c = Closer(c.bank) /\ c.bank \in Banks
         /\ c.type = "REFRESH" => c = Refresher
         /\ c.type = "NONE" => c = NoCMD
         /\ c.type \in {"ACTIVATE", "READ", "WRITE", "PRECHARGE", "REFRESH", "NONE"}
         /\ c.bank \in Banks /\ (c # NoCMD => c \in Arrival /\ c.type # "NONE")
<1>1. CASE c \in Asked
  BY <1>1, AskedHas
<1>2. CASE c \in {Closer(b) : b \in Banks}
  BY <1>2, CloserHas
<1>3. CASE c = Refresher
  BY <1>3, CloserHas, BankNumbers
<1>4. CASE c = NoCMD
  BY <1>4, CloserHas, BankNumbers
<1> QED BY <1>1, <1>2, <1>3, <1>4 DEF Issued

\* Sequences.
LEMMA RemoveFrom ==
  ASSUME NEW S, NEW q \in Seq(S), NEW k \in 1 .. Len(q)
  PROVE  LET new == RemoveAt(q, k)
         IN  /\ new \in Seq(S) /\ Len(new) = Len(q) - 1
             /\ \A i \in 1 .. Len(q) - 1 : new[i] = IF i < k THEN q[i] ELSE q[i + 1]
<1> DEFINE n == Len(q)
           a == SubSeq(q, 1, k - 1)
           b == SubSeq(q, k + 1, n)
<1>1. n \in Nat /\ k \in Nat /\ k >= 1 /\ k <= n
  OBVIOUS
<1>2. \A i \in 1 .. k - 1 : i \in 1 .. n
  BY <1>1
<1>3. \A i \in k + 1 .. n : i \in 1 .. n
  BY <1>1
<1>4. /\ a \in Seq(S) /\ Len(a) = (IF 1 <= k - 1 THEN k - 1 - 1 + 1 ELSE 0)
      /\ \A i \in 1 .. Len(a) : a[i] = q[1 + i - 1]
  BY <1>1, <1>2
<1>5. /\ b \in Seq(S) /\ Len(b) = (IF k + 1 <= n THEN n - (k + 1) + 1 ELSE 0)
      /\ \A i \in 1 .. Len(b) : b[i] = q[k + 1 + i - 1]
  BY <1>1, <1>3
<1>6. RemoveAt(q, k) = a \o b
  BY DEF RemoveAt
<1> HIDE DEF a, b, n
<1>7. Len(a) = k - 1 /\ Len(b) = n - k
  BY <1>1, <1>4, <1>5
<1> DEFINE c == a \o b
<1>8. /\ c \in Seq(S) /\ Len(c) = Len(a) + Len(b)
      /\ \A i \in 1 .. Len(a) + Len(b) : c[i] = IF i <= Len(a) THEN a[i] ELSE b[i - Len(a)]
  BY <1>4, <1>5, ConcatProperties
<1> HIDE DEF c
<1>9. Len(a) + Len(b) = n - 1
  BY <1>1, <1>7
<1>10. ASSUME NEW i \in 1 .. n - 1 PROVE c[i] = IF i < k THEN q[i] ELSE q[i + 1]
  <2>1. c[i] = IF i <= k - 1 THEN a[i] ELSE b[i - (k - 1)]
    BY <1>7, <1>8, <1>9
  <2>2. CASE i < k
    <3>1. i <= k - 1 /\ i \in 1 .. k - 1 /\ 1 + i - 1 = i
      BY <1>1, <2>2
    <3>2. a[i] = q[i]
      BY <1>4, <1>7, <3>1
    <3> QED BY <2>1, <2>2, <3>1, <3>2
  <2>3. CASE ~(i < k)
    <3> DEFINE j == i - (k - 1)
    <3>1. ~(i <= k - 1) /\ j \in 1 .. n - k /\ k + 1 + j - 1 = i + 1
      BY <1>1, <2>3
    <3> HIDE DEF j
    <3>2. b[j] = q[i + 1]
      BY <1>5, <1>7, <3>1
    <3> QED BY <2>1, <2>3, <3>1, <3>2 DEF j
  <2> QED BY <2>2, <2>3
<1>11. c \in Seq(S) /\ Len(c) = n - 1
  BY <1>8, <1>9
<1> QED BY <1>6, <1>10, <1>11 DEF c, n

LEMMA CountDownIs ==
  ASSUME NEW C, NEW q \in Seq([cmd : C, left : Int])
  PROVE  /\ CountDown(q) \in Seq([cmd : C, left : Int]) /\ Len(CountDown(q)) = Len(q)
         /\ \A i \in 1 .. Len(q) : CountDown(q)[i].cmd = q[i].cmd /\ CountDown(q)[i].left = q[i].left - 1
<1>1. DOMAIN q = 1 .. Len(q)
  OBVIOUS
<1>2. ASSUME NEW i \in 1 .. Len(q)
      PROVE  /\ [q[i] EXCEPT !.left = @ - 1] \in [cmd : C, left : Int]
             /\ [q[i] EXCEPT !.left = @ - 1].cmd = q[i].cmd
             /\ [q[i] EXCEPT !.left = @ - 1].left = q[i].left - 1
  <2>1. PICK e \in [cmd : C, left : Int] : e = q[i]
    <3> DEFINE R == [cmd : C, left : Int]
    <3>1. q \in Seq(R)
      OBVIOUS
    <3> HIDE DEF R
    <3>2. q[i] \in R
      BY <3>1
    <3> QED BY <3>2 DEF R
  <2>2. e.left \in Int /\ e.cmd \in C
    OBVIOUS
  <2>3. /\ [e EXCEPT !.left = @ - 1] \in [cmd : C, left : Int]
        /\ [e EXCEPT !.left = @ - 1].cmd = e.cmd /\ [e EXCEPT !.left = @ - 1].left = e.left - 1
    BY <2>2
  <2> QED BY <2>1, <2>3
<1>3. CountDown(q) = [i \in 1 .. Len(q) |-> [q[i] EXCEPT !.left = @ - 1]]
  BY <1>1 DEF CountDown
<1> HIDE DEF CountDown
<1>4. CountDown(q) \in Seq([cmd : C, left : Int]) /\ Len(CountDown(q)) = Len(q)
  BY <1>2, <1>3
<1> QED BY <1>2, <1>3, <1>4

\* The commands of a request.
LEMMA CommandsIs ==
  ASSUME OPEN_PAGE, NEW tag \in Tags, NEW q, q = Commands(tag)
  PROVE  /\ q \in Seq(Asked) /\ Len(q) = Requests[tag].cmds + 1
         /\ q[1].type = "ACTIVATE"
         /\ \A i \in 1 .. Len(q) : q[i].tag = tag
         /\ \A i \in 2 .. Len(q) :
               /\ q[i].type = IF Requests[tag].op = "WR" THEN "WRITE" ELSE "READ"
               /\ q[i].last <=> i = Len(q)
<1> DEFINE r == Requests[tag]
           access == IF r.op = "WR" THEN "WRITE" ELSE "READ"
           head == Command("ACTIVATE", tag, r.bank, r.row, TRUE)
           rest == [i \in 1 .. r.cmds |-> Command(access, tag, r.bank, r.row, i = r.cmds)]
<1>1. q = <<head>> \o rest
  <2>1. \A i \in 1 .. r.cmds : (IF i = r.cmds THEN access ELSE access) = access
    OBVIOUS
  <2>2. q = <<head>> \o [i \in 1 .. r.cmds |-> Command(IF i = r.cmds THEN access ELSE access,
                                                       tag, r.bank, r.row, i = r.cmds)]
    BY DEF Commands
  <2> QED BY <2>1, <2>2
<1>2. /\ r.op \in {"RD", "WR", "ATM"} /\ r.bank \in Banks /\ r.row \in Nat
      /\ r.cmds \in Nat \ {0} /\ (r.op = "ATM" => r.cmds = 1)
  BY RequestHas
<1>3. access \in {"READ", "WRITE"} /\ (access = "WRITE" <=> r.op = "WR")
  OBVIOUS
<1> HIDE DEF access
<1>4. head \in Asked /\ head.type = "ACTIVATE" /\ head.tag = tag
  BY <1>2 DEF Asked, CommandSet, Command
<1>5. ASSUME NEW i \in 1 .. r.cmds
      PROVE  /\ rest[i] \in Asked /\ rest[i].type = access /\ rest[i].tag = tag
             /\ rest[i].last <=> i = r.cmds
  <2>1. rest[i] = Command(access, tag, r.bank, r.row, i = r.cmds)
    OBVIOUS
  <2>2. PICK l \in BOOLEAN : l = (i = r.cmds)
    OBVIOUS
  <2>3. rest[i] = Command(access, tag, r.bank, r.row, l)
    BY <2>1, <2>2
  <2> HIDE DEF rest
  <2>4. /\ rest[i].type = access /\ rest[i].tag = tag /\ rest[i].bank = r.bank /\ rest[i].row = r.row
        /\ rest[i].last = l /\ rest[i] \in CommandSet
    BY <1>2, <1>3, <2>3 DEF CommandSet, Command
  <2>5. r.op = "ATM" => l
    <3>1. r.op = "ATM" => i = r.cmds
      BY <1>2
    <3> QED BY <2>2, <3>1
  <2>6. rest[i] \in Asked
    BY <1>3, <2>4, <2>5 DEF Asked
  <2> QED BY <2>2, <2>4, <2>6
<1>6. rest \in Seq(Asked) /\ Len(rest) = r.cmds
  <2>1. rest = [i \in 1 .. r.cmds |-> rest[i]]
    OBVIOUS
  <2> HIDE DEF rest
  <2>2. PICK n \in Nat : n = r.cmds
    BY <1>2
  <2>3. rest \in [1 .. n -> Asked]
    BY <1>5, <2>1, <2>2
  <2>4. rest \in Seq(Asked) /\ Len(rest) = n
    BY <2>3
  <2> QED BY <2>2, <2>4
<1> HIDE DEF rest, head
<1>7. /\ q \in Seq(Asked) /\ Len(q) = r.cmds + 1 /\ q[1] = head
      /\ \A i \in 2 .. r.cmds + 1 : q[i] = rest[i - 1]
  BY <1>1, <1>2, <1>4, <1>6
<1>8. ASSUME NEW i \in 2 .. r.cmds + 1
      PROVE  q[i].tag = tag /\ q[i].type = access /\ (q[i].last <=> i = r.cmds + 1)
  <2>1. i - 1 \in 1 .. r.cmds /\ q[i] = rest[i - 1] /\ (i - 1 = r.cmds <=> i = r.cmds + 1)
    BY <1>2, <1>7
  <2> QED BY <1>5, <2>1
<1>9. \A i \in 1 .. Len(q) : i = 1 \/ i \in 2 .. r.cmds + 1
  BY <1>2, <1>7
<1> QED BY <1>4, <1>7, <1>8, <1>9 DEF access

-----------------------------------------------------------------------------
(* Each stage keeps the types.                                             *)

LEMMA CommandOutType ==
  ASSUME NEW s \in VaultSet, s.cmdBus # NoCMD => s.cmdLeft = 1, NEW t, t = CommandOut(s),
         s.cmdBus # NoCMD => ReceiveCMD(s.bank, s.cmdBus) \in [Banks -> BankType]
  PROVE  t \in VaultSet
<1>1. IsVault(s) /\ VaultHas(s)
  BY VaultSetIs
<1>2. /\ Same(s, t, {"cmdBus", "cmdLeft", "bank", "reads"})
      /\ t.cmdBus = NoCMD
      /\ t.bank = IF s.cmdBus = NoCMD THEN s.bank ELSE ReceiveCMD(s.bank, s.cmdBus)
      /\ t.reads = IF s.cmdBus.type \in Reads THEN Append(s.reads, [cmd |-> s.cmdBus, left |-> RL])
                   ELSE s.reads
  BY <1>1, CommandOutFrame
<1>3. t.cmdLeft \in Nat
  <2>1. CASE s.cmdBus = NoCMD
    <3>1. t = s
      BY <2>1 DEF CommandOut
    <3> QED BY <1>1, <3>1 DEF VaultHas
  <2>2. CASE s.cmdBus # NoCMD
    <3>1. t = [s EXCEPT !.bank = ReceiveCMD(@, s.cmdBus), !.cmdBus = NoCMD, !.cmdLeft = 0,
                   !.reads = IF s.cmdBus.type \in Reads
                             THEN Append(@, [cmd |-> s.cmdBus, left |-> RL]) ELSE @]
      BY <2>2 DEF CommandOut
    <3>2. t.cmdLeft = 0
      BY <1>1, <3>1 DEF IsVault, Fields
    <3> QED BY <3>2
  <2> QED BY <2>1, <2>2
<1>4. t.reads \in Seq(PendingReads)
  <2>1. CASE s.cmdBus.type \notin Reads
    BY <1>1, <1>2, <2>1 DEF VaultHas
  <2>2. CASE s.cmdBus.type \in Reads
    <3>1. s.cmdBus \in Issued
      BY <1>1 DEF VaultHas
    <3>2. s.cmdBus \in AskedReads
      BY <2>2, <3>1, IssuedHas DEF AskedReads, Reads
    <3>3. [cmd |-> s.cmdBus, left |-> RL] \in PendingReads
      BY <3>2, Delays DEF PendingReads
    <3> QED BY <1>1, <1>2, <2>2, <3>3 DEF VaultHas
  <2> QED BY <2>1, <2>2
<1>5. t.bank \in [Banks -> BankType] /\ t.cmdBus \in Issued
  BY <1>1, <1>2 DEF VaultHas, Issued
<1>6. VaultHas(t)
  BY <1>1, <1>2, <1>3, <1>4, <1>5 DEF VaultHas, Same, Fields
<1> QED BY <1>2, <1>6, VaultSetIs DEF Same

LEMMA ResponseType ==
  ASSUME NEW up \in Seq(Response), NEW c, c.tag \in Tags
  PROVE  Append(up, [tag |-> c.tag, lng |-> ResponseLength(c)]) \in Seq(Response)
<1>1. [tag |-> c.tag, lng |-> ResponseLength(c)] \in Response
  BY ResponseLengthIs DEF Response
<1> QED BY <1>1

LEMMA DataOutType ==
  ASSUME NEW s \in VaultSet, NEW t, t = DataOut(s)
  PROVE  t \in VaultSet
<1>1. IsVault(s) /\ VaultHas(s)
  BY VaultSetIs
<1>2. s.up \in Seq(Response) /\ s.pendingDataSize \in Int /\ s.error \in BOOLEAN /\ s.dataLeft \in Nat
      /\ s.dataBus \in AskedWrites \cup {NoCMD}
  BY <1>1 DEF VaultHas
<1>3. Same(s, t, {"dataBus", "dataLeft", "up", "pendingDataSize", "error"})
  BY <1>1, DataOutFrame
<1>4. /\ t.dataBus \in AskedWrites \cup {NoCMD} /\ t.dataLeft \in Nat /\ t.up \in Seq(Response)
      /\ t.pendingDataSize \in Int /\ t.error \in BOOLEAN
  <2>1. CASE s.dataBus = NoCMD
    <3>1. t = s
      BY <1>1, <2>1, DataOutFrame
    <3> QED BY <1>2, <3>1
  <2>2. CASE s.dataBus # NoCMD /\ s.dataLeft > 1
    <3>1. /\ t.dataBus = s.dataBus /\ t.dataLeft = s.dataLeft - 1 /\ t.up = s.up
          /\ t.pendingDataSize = s.pendingDataSize /\ t.error = s.error
      BY <1>1, <2>2, DataOutFrame
    <3> QED BY <1>2, <2>2, <3>1
  <2>3. CASE s.dataBus # NoCMD /\ ~(s.dataLeft > 1)
    <3>1. /\ t.dataBus = NoCMD
          /\ ~Answered(s.dataBus) =>
               t.up = s.up /\ t.pendingDataSize = s.pendingDataSize /\ t.error = s.error
          /\ Answered(s.dataBus) =>
               /\ t.up = Append(s.up, [tag |-> s.dataBus.tag, lng |-> ResponseLength(s.dataBus)])
               /\ t.pendingDataSize = s.pendingDataSize - ResponseLength(s.dataBus)
               /\ Checked(s, t, s.dataBus)
      BY <1>1, <2>3, DataOutFrame
    <3>2. s.dataBus \in Asked /\ s.dataBus.tag \in Tags
      BY <1>2, <2>3, AskedHas DEF AskedWrites
    <3>3. ResponseLength(s.dataBus) \in Nat
      BY <3>2, ResponseLengthIs
    <3>4. Append(s.up, [tag |-> s.dataBus.tag, lng |-> ResponseLength(s.dataBus)]) \in Seq(Response)
      BY <1>2, <3>2, ResponseType
    <3>5. t.dataLeft \in Nat
      <4> DEFINE m == [s EXCEPT !.dataBus = NoCMD, !.dataLeft = 0]
      <4>1. t = IF Answered(s.dataBus) THEN MakeRespondPacket(m, s.dataBus) ELSE m
        BY <2>3, Zenon DEF DataOut, Answered
      <4>2. IsVault(m) /\ m.dataLeft = 0
        BY <1>1 DEF IsVault, Fields
      <4> HIDE DEF m
      <4>3. CASE Answered(s.dataBus)
        <5>1. PICK k : k = m
          OBVIOUS
        <5>2. t = MakeRespondPacket(k, s.dataBus) /\ IsVault(k)
          BY <4>1, <4>2, <4>3, <5>1
        <5>3. Same(k, t, {"up", "pendingDataSize", "error"})
          BY <5>2, RespondFrame
        <5> QED BY <4>2, <5>1, <5>3 DEF Same, Fields
      <4>4. CASE ~Answered(s.dataBus)
        BY <4>1, <4>2, <4>4
      <4> QED BY <4>3, <4>4
    <3>6. CASE Answered(s.dataBus)
      <4>1. t.error \in BOOLEAN
        BY <1>2, <3>1, <3>6, Zenon DEF Checked
      <4>2. t.dataBus \in AskedWrites \cup {NoCMD} /\ t.up \in Seq(Response)
        BY <3>1, <3>4, <3>6
      <4>3. t.pendingDataSize \in Int
        BY <1>2, <3>1, <3>3, <3>6
      <4> QED BY <3>5, <4>1, <4>2, <4>3
    <3>7. CASE ~Answered(s.dataBus)
      BY <1>2, <3>1, <3>5, <3>7
    <3> QED BY <3>6, <3>7
  <2> QED BY <2>1, <2>2, <2>3
<1>5. VaultHas(t)
  BY <1>1, <1>3, <1>4 DEF VaultHas, Same, Fields
<1> QED BY <1>3, <1>5, VaultSetIs DEF Same

LEMMA TailOf ==
  ASSUME NEW S, NEW q \in Seq(S), q # <<>>
  PROVE  /\ Tail(q) \in Seq(S) /\ Len(Tail(q)) = Len(q) - 1 /\ Len(q) \in Nat \ {0} /\ q[1] \in S
         /\ \A i \in 1 .. Len(q) - 1 : Tail(q)[i] = q[i + 1]
OBVIOUS

LEMMA WriteDataOutType ==
  ASSUME NEW s \in VaultSet, NEW t, t = WriteDataOut(s)
  PROVE  t \in VaultSet
<1>1. IsVault(s) /\ VaultHas(s)
  BY VaultSetIs
<1>2. s.writeData \in Seq(PendingWrites) /\ s.error \in BOOLEAN /\ s.dataLeft \in Nat
      /\ s.dataBus \in AskedWrites \cup {NoCMD}
  BY <1>1 DEF VaultHas
<1>3. Same(s, t, {"dataBus", "dataLeft", "writeData", "error"})
  BY <1>1, WriteDataOutFrame
<1>4. /\ t.dataBus \in AskedWrites \cup {NoCMD} /\ t.dataLeft \in Nat /\ t.error \in BOOLEAN
      /\ t.writeData \in Seq(PendingWrites)
  <2>1. CASE WriteDue(s)
    <3>1. /\ t.dataBus = s.writeData[1].cmd /\ t.dataLeft = BL
          /\ t.writeData = CountDown(Tail(s.writeData))
          /\ s.dataBus # NoCMD => t.error = TRUE
          /\ s.dataBus = NoCMD => t.error = s.error
      BY <1>1, <2>1, WriteDataOutFrame
    <3>2. Tail(s.writeData) \in Seq(PendingWrites) /\ s.writeData[1] \in PendingWrites
      BY <1>2, <2>1, TailOf DEF WriteDue
    <3>3. CountDown(Tail(s.writeData)) \in Seq(PendingWrites)
      BY <3>2, CountDownIs DEF PendingWrites
    <3>4. s.writeData[1].cmd \in AskedWrites
      BY <3>2 DEF PendingWrites
    <3> QED BY <1>2, <3>1, <3>3, <3>4, Times
  <2>2. CASE ~WriteDue(s)
    <3>1. /\ t.dataBus = s.dataBus /\ t.dataLeft = s.dataLeft /\ t.error = s.error
          /\ t.writeData = CountDown(s.writeData)
      BY <1>1, <2>2, WriteDataOutFrame
    <3>2. CountDown(s.writeData) \in Seq(PendingWrites)
      BY <1>2, CountDownIs DEF PendingWrites
    <3> QED BY <1>2, <3>1, <3>2
  <2> QED BY <2>1, <2>2
<1>5. VaultHas(t)
  BY <1>1, <1>3, <1>4 DEF VaultHas, Same, Fields
<1> QED BY <1>3, <1>5, VaultSetIs DEF Same

LEMMA TimerType ==
  ASSUME NEW s \in VaultSet, NEW due \in BOOLEAN, NEW t, t = Timer(s, due)
  PROVE  t \in VaultSet
<1>1. IsVault(s) /\ VaultHas(s)
  BY VaultSetIs
<1>2. /\ Same(s, t, {"refreshWaiting", "refreshes"})
      /\ due => t.refreshWaiting = TRUE /\ t.refreshes = s.refreshes + 1
      /\ ~due => t = s
  BY <1>1, TimerFrame
<1>4. s.refreshWaiting \in BOOLEAN /\ s.refreshes \in Nat
  BY <1>1 DEF VaultHas
<1>5. t.refreshWaiting \in BOOLEAN /\ t.refreshes \in Nat
  <2>1. t.refreshWaiting \in BOOLEAN
    BY <1>2, <1>4, Zenon
  <2>2. t.refreshes \in Nat
    BY <1>2, <1>4
  <2> QED BY <2>1, <2>2
<1>3. VaultHas(t)
  BY <1>1, <1>2, <1>5 DEF VaultHas, Same, Fields
<1> QED BY <1>2, <1>3, VaultSetIs DEF Same

LEMMA QIs ==
  ASSUME NEW b \in Banks
  PROVE  Q(b) \in Queues /\ (QUE_PER_BANK => Q(b) = b /\ Queues = Banks)
BY DEF Q, Queues

LEMMA ConvType ==
  ASSUME OPEN_PAGE, NEW s \in VaultSet, NEW i \in 1 .. Len(s.down), NEW t, t = ConvPacketIntoCMDs(s, i)
  PROVE  t \in VaultSet
<1>1. IsVault(s) /\ VaultHas(s)
  BY VaultSetIs
<1>2. s.down \in Seq(Tags) /\ s.queue \in [Queues -> Seq(Asked)] /\ s.fresh \in SUBSET Queues
      /\ s.converted \in Seq(Tags) /\ s.pendingRead \in Seq(Tags)
  BY <1>1 DEF VaultHas
<1>3. PICK tag \in Tags : tag = s.down[i]
  BY <1>2
<1>4. PICK b \in Banks : b = Requests[tag].bank
  BY RequestHas
<1>0. Converts(s, t, i, tag, b)
  BY <1>1, <1>3, <1>4, ConvFrame
<1>5. /\ Same(s, t, {"queue", "fresh", "down", "converted", "pendingRead"})
      /\ t.queue = [s.queue EXCEPT ![Q(b)] = s.queue[Q(b)] \o Commands(tag)]
      /\ t.fresh = IF s.queue[Q(b)] = <<>> THEN s.fresh \cup {Q(b)} ELSE s.fresh
      /\ t.down = RemoveAt(s.down, i) /\ t.converted = Append(s.converted, tag)
      /\ t.pendingRead = IF Requests[tag].op = "WR" THEN s.pendingRead
                         ELSE s.pendingRead \o [j \in 1 .. Requests[tag].cmds |-> tag]
  BY <1>0 DEF Converts
<1>6. Q(b) \in Queues
  BY QIs
<1>7. t.queue \in [Queues -> Seq(Asked)]
  <2>1. PICK q : q = Commands(tag)
    OBVIOUS
  <2>2. q \in Seq(Asked)
    BY <2>1, CommandsIs
  <2>3. s.queue[Q(b)] \o q \in Seq(Asked)
    BY <1>2, <1>6, <2>2
  <2> QED BY <1>2, <1>5, <1>6, <2>1, <2>3
<1>8. t.down \in Seq(Tags)
  BY <1>2, <1>5, RemoveFrom
<1>9. t.converted \in Seq(Tags) /\ t.fresh \in SUBSET Queues
  BY <1>2, <1>5, <1>6
<1>10. t.pendingRead \in Seq(Tags)
  <2>1. PICK n \in Nat : n = Requests[tag].cmds
    BY RequestHas
  <2>2. [j \in 1 .. n |-> tag] \in [1 .. n -> Tags]
    OBVIOUS
  <2>3. [j \in 1 .. n |-> tag] \in Seq(Tags)
    BY <2>2
  <2> QED BY <1>2, <1>5, <2>1, <2>3
<1>11. VaultHas(t)
  BY <1>1, <1>5, <1>7, <1>8, <1>9, <1>10 DEF VaultHas, Same, Fields
<1> QED BY <1>5, <1>11, VaultSetIs DEF Same

LEMMA IssueType ==
  ASSUME NEW s \in VaultSet, s.cmdBus = NoCMD, NEW t, t = IssuePopped(s)
  PROVE  t \in VaultSet
<1>1. IsVault(s) /\ VaultHas(s)
  BY VaultSetIs
<1>2. CASE s.popped = NoCMD
  BY <1>2 DEF IssuePopped
<1>3. CASE s.popped # NoCMD
  <2>1. /\ Same(s, t, {"writeData", "pendingDataSize", "cmdBus", "cmdLeft", "popped"})
        /\ t.popped = NoCMD /\ t.cmdBus = s.popped /\ t.cmdLeft = tCMD
        /\ t.writeData = IF s.popped.type \in Writes
                         THEN Append(s.writeData, [cmd |-> s.popped, left |-> WL]) ELSE s.writeData
        /\ t.pendingDataSize = IF Reserves(s.popped)
                               THEN s.pendingDataSize + ResponseLength(s.popped)
                               ELSE s.pendingDataSize
    BY <1>1, <1>3, IssueFrame
  <2>2. s.popped \in Issued /\ s.writeData \in Seq(PendingWrites) /\ s.pendingDataSize \in Int
    BY <1>1 DEF VaultHas
  <2>3. t.writeData \in Seq(PendingWrites)
    <3>1. CASE s.popped.type \in Writes
      <4>1. s.popped \in AskedWrites
        BY <2>2, <3>1, IssuedHas DEF AskedWrites, Writes
      <4>2. [cmd |-> s.popped, left |-> WL] \in PendingWrites
        BY <4>1, Delays DEF PendingWrites
      <4> QED BY <2>1, <2>2, <3>1, <4>2
    <3>2. CASE s.popped.type \notin Writes
      BY <2>1, <2>2, <3>2
    <3> QED BY <3>1, <3>2
  <2>4. t.pendingDataSize \in Int
    <3>1. CASE Reserves(s.popped)
      <4>1. s.popped.tag \in Tags
        BY <2>2, <3>1, IssuedHas, AskedHas, CloserHas DEF Reserves
      <4> QED BY <2>1, <2>2, <3>1, <4>1, ResponseLengthIs
    <3>2. CASE ~Reserves(s.popped)
      BY <2>1, <2>2, <3>2
    <3> QED BY <3>1, <3>2
  <2>5. t.popped \in Issued /\ t.cmdLeft \in Nat
    BY <2>1, Times DEF Issued
  <2>6. VaultHas(t)
    BY ZenonT(30), <1>1, <2>1, <2>2, <2>3, <2>4, <2>5 DEF VaultHas, Same, Fields
  <2> QED BY <2>1, <2>6, VaultSetIs DEF Same
<1> QED BY <1>2, <1>3

LEMMA WriteBackIs ==
  ASSUME OPEN_PAGE, NEW c \in AskedReads, Locking(c)
  PROVE  /\ WriteBack(c) \in AskedWrites /\ WriteBack(c).tag = c.tag /\ WriteBack(c).bank = c.bank
         /\ WriteBack(c).row = c.row /\ WriteBack(c).last = TRUE /\ Locking(WriteBack(c))
         /\ Atomic(WriteBack(c))
<1>1. /\ c \in CommandSet /\ c.bank = Requests[c.tag].bank /\ c.row = Requests[c.tag].row
  BY DEF AskedReads, Asked
<1>2. WriteBack(c) = [type |-> "WRITE", tag |-> c.tag, bank |-> c.bank, row |-> c.row, last |-> TRUE]
  BY DEF WriteBack, Command
<1>3. WriteBack(c) \in CommandSet /\ WriteBack(c).tag = c.tag /\ WriteBack(c).bank = c.bank
      /\ WriteBack(c).row = c.row /\ WriteBack(c).last = TRUE /\ WriteBack(c).type = "WRITE"
  BY <1>1, <1>2 DEF CommandSet
<1>4. Locking(WriteBack(c)) /\ Atomic(WriteBack(c))
  BY <1>3 DEF Locking, Atomic
<1> QED BY <1>1, <1>3, <1>4 DEF AskedWrites, Asked

LEMMA AtomicType ==
  ASSUME OPEN_PAGE, NEW s \in VaultSet, NEW t, t = AtomicOperation(s)
  PROVE  t \in VaultSet
<1>1. IsVault(s) /\ VaultHas(s)
  BY VaultSetIs
<1>0. PICK c : c = s.atomicCMD
  OBVIOUS
<1>2. /\ c \in AskedReads \cup {NoCMD} /\ s.atomicOperLeft \in Nat /\ s.queue \in [Queues -> Seq(Asked)]
      /\ s.up \in Seq(Response) /\ s.pendingDataSize \in Int /\ s.error \in BOOLEAN
  BY <1>0, <1>1 DEF VaultHas
<1>3. CASE c = NoCMD
  BY <1>0, <1>3 DEF AtomicOperation
<1>4. CASE c # NoCMD /\ s.atomicOperLeft > 0
  <2>1. Same(s, t, {"atomicOperLeft"}) /\ t.atomicOperLeft = s.atomicOperLeft - 1
    BY <1>0, <1>1, <1>4, AtomicFrame DEF AtomicCounts
  <2>2. t.atomicOperLeft \in Nat
    BY <1>2, <1>4, <2>1
  <2>3. VaultHas(t)
    BY <1>1, <2>1, <2>2 DEF VaultHas, Same, Fields
  <2> QED BY <2>1, <2>3, VaultSetIs DEF Same
<1>5. CASE c # NoCMD /\ ~(s.atomicOperLeft > 0)
  <2>1. AtomicEnds(s, t, c)
    BY <1>0, <1>1, <1>5, AtomicFrame
  <2>2. c \in AskedReads /\ c \in Asked /\ c.tag \in Tags /\ c.bank \in Banks
    BY <1>2, <1>5, AskedHas DEF AskedReads
  <2>3. t.queue \in [Queues -> Seq(Asked)]
    <3>1. CASE Locking(c)
      <4>1. WriteBack(c) \in Asked
        BY <2>2, <3>1, WriteBackIs DEF AskedWrites
      <4>2. Q(c.bank) \in Queues
        BY <2>2, QIs
      <4>3. <<WriteBack(c)>> \o s.queue[Q(c.bank)] \in Seq(Asked)
        BY <1>2, <4>1, <4>2
      <4> QED BY <1>2, <2>1, <3>1, <4>2, <4>3 DEF AtomicEnds
    <3>2. CASE ~Locking(c)
      BY <1>2, <2>1, <3>2 DEF AtomicEnds
    <3> QED BY <3>1, <3>2
  <2>4. CASE Requests[c.tag].posted
    <3>1. t.up = s.up /\ t.pendingDataSize = s.pendingDataSize /\ t.error = s.error
      BY <2>1, <2>4 DEF AtomicEnds
    <3>2. Same(s, t, {"atomicCMD", "queue", "up", "pendingDataSize", "error"}) /\ t.atomicCMD = NoCMD
      BY <2>1 DEF AtomicEnds
    <3>4. t.atomicCMD \in AskedReads \cup {NoCMD}
      BY <3>2
    <3>5. t.up \in Seq(Response) /\ t.pendingDataSize \in Int
      BY <1>2, <3>1
    <3>6. t.error \in BOOLEAN
      BY <1>2, <3>1
    <3>3. VaultHas(t)
      BY <1>1, <2>3, <3>2, <3>4, <3>5, <3>6 DEF VaultHas, Same, Fields
    <3> QED BY <3>2, <3>3, VaultSetIs DEF Same
  <2>5. CASE ~Requests[c.tag].posted
    <3>1. /\ t.up = Append(s.up, [tag |-> c.tag, lng |-> ResponseLength(c)])
          /\ t.pendingDataSize = s.pendingDataSize - ResponseLength(c)
          /\ Checked(s, t, c)
      BY <2>1, <2>5 DEF AtomicEnds
    <3>2. Append(s.up, [tag |-> c.tag, lng |-> ResponseLength(c)]) \in Seq(Response)
      BY <1>2, <2>2, ResponseType
    <3>3. ResponseLength(c) \in Nat
      BY <2>2, ResponseLengthIs
    <3>4. t.up \in Seq(Response) /\ t.pendingDataSize \in Int
      BY <1>2, <3>1, <3>2, <3>3
    <3>5. t.error \in BOOLEAN
      BY <1>2, <3>1, Zenon DEF Checked
    <3>6. Same(s, t, {"atomicCMD", "queue", "up", "pendingDataSize", "error"}) /\ t.atomicCMD = NoCMD
      BY <2>1 DEF AtomicEnds
    <3>8. t.atomicCMD \in AskedReads \cup {NoCMD}
      BY <3>6
    <3>7. VaultHas(t)
      BY <1>1, <2>3, <3>4, <3>5, <3>6, <3>8 DEF VaultHas, Same, Fields
    <3> QED BY <3>6, <3>7, VaultSetIs DEF Same
  <2> QED BY <2>4, <2>5
<1> QED BY <1>3, <1>4, <1>5

LEMMA PowerType ==
  ASSUME NEW s \in VaultSet, NEW t, t = EnablePowerdown(s)
  PROVE  t \in VaultSet
<1>1. IsVault(s) /\ VaultHas(s)
  BY VaultSetIs
<1>2. s.bank \in [Banks -> BankType] /\ s.powerDown \in BOOLEAN
  BY <1>1 DEF VaultHas
<1>3. PowerDown(s.bank) \in [Banks -> BankType] /\ PowerUp(s.bank) \in [Banks -> BankType]
  BY <1>2, PowerDownFields, PowerUpFields
<1>4. /\ Same(s, t, {"bank", "powerDown"})
      /\ \/ t.bank = PowerDown(s.bank) /\ t.powerDown = TRUE
         \/ t.bank = PowerUp(s.bank) /\ t.powerDown = FALSE
         \/ t = s
  BY <1>1, PowerFrame
<1>5. t.bank \in [Banks -> BankType]
  BY <1>2, <1>3, <1>4
<1>6. t.powerDown \in BOOLEAN
  BY <1>2, <1>4, Zenon
<1>7. VaultHas(t)
  BY <1>1, <1>4, <1>5, <1>6 DEF VaultHas, Same, Fields
<1> QED BY <1>4, <1>7, VaultSetIs DEF Same

LEMMA ClockedType ==
  ASSUME NEW s \in VaultSet, NEW t, t = Clocked(s)
  PROVE  t \in VaultSet
<1>1. IsVault(s) /\ VaultHas(s)
  BY VaultSetIs
<1>2. Same(s, t, {"bank", "fresh"}) /\ t.bank = Tick(s.bank) /\ t.fresh = {}
  BY <1>1, ClockedFrame
<1>3. Tick(s.bank) \in [Banks -> BankType]
  BY <1>1, TickFields DEF VaultHas
<1>4. VaultHas(t)
  BY <1>1, <1>2, <1>3 DEF VaultHas, Same, Fields
<1> QED BY <1>2, <1>4, VaultSetIs DEF Same

LEMMA FoundIs ==
  ASSUME NEW s \in VaultSet, NEW c, FoundIn(s, c) # {}
  PROVE  /\ Min(FoundIn(s, c)) \in 1 .. Len(s.pendingRead)
         /\ s.pendingRead[Min(FoundIn(s, c))] = c.tag /\ s.pendingRead \in Seq(Tags)
         /\ RemoveAt(s.pendingRead, Min(FoundIn(s, c))) \in Seq(Tags)
<1>1. s.pendingRead \in Seq(Tags)
  BY VaultSetIs DEF VaultHas
<1> DEFINE F == FoundIn(s, c)
<1>2. F \in SUBSET Nat /\ F \in SUBSET (1 .. Len(s.pendingRead)) /\ \A i \in F : s.pendingRead[i] = c.tag
  BY <1>1 DEF FoundIn
<1> HIDE DEF F
<1>3. PICK n \in F : \A i \in F : n <= i
  BY <1>2, LeastNatural DEF F
<1>4. Min(F) \in F
  BY <1>3 DEF Min
<1>5. Min(F) \in 1 .. Len(s.pendingRead) /\ s.pendingRead[Min(F)] = c.tag
  BY <1>2, <1>4
<1>6. RemoveAt(s.pendingRead, Min(F)) \in Seq(Tags)
  BY <1>1, <1>5, RemoveFrom
<1> QED BY <1>1, <1>5, <1>6 DEF F

LEMMA ReturnType ==
  ASSUME NEW s \in VaultSet, NEW c \in AskedReads, NEW t, t = ReturnCommand(s, c)
  PROVE  t \in VaultSet
<1>1. IsVault(s) /\ VaultHas(s)
  BY VaultSetIs
<1>2. c \in Asked /\ c.tag \in Tags
  BY AskedHas DEF AskedReads
<1>3. CASE s.dataBus # NoCMD \/ FoundIn(s, c) = {}
  <2>1. Same(s, t, {"error"}) /\ t.error = TRUE
    BY <1>1, <1>3, ReturnFrame
  <2>2. t.error \in BOOLEAN
    BY <2>1, Zenon
  <2>3. VaultHas(t)
    BY <1>1, <2>1, <2>2 DEF VaultHas, Same, Fields
  <2> QED BY <2>1, <2>3, VaultSetIs DEF Same
<1>4. CASE s.dataBus = NoCMD /\ FoundIn(s, c) # {}
  <2>0. Returned(s, t, c)
    BY <1>1, <1>4, ReturnFrame
  <2>1. /\ t.pendingRead = RemoveAt(s.pendingRead, Min(FoundIn(s, c)))
        /\ ~c.last => Same(s, t, {"pendingRead"})
        /\ c.last /\ Atomic(c) =>
             /\ Same(s, t, {"pendingRead", "atomicCMD", "atomicOperLeft"})
             /\ t.atomicCMD = c /\ t.atomicOperLeft = 1
        /\ c.last /\ ~Atomic(c) =>
             /\ Same(s, t, {"pendingRead", "up", "pendingDataSize", "error"})
             /\ t.up = Append(s.up, [tag |-> c.tag, lng |-> ResponseLength(c)])
             /\ t.pendingDataSize = s.pendingDataSize - ResponseLength(c)
             /\ Checked(s, t, c)
    BY <2>0 DEF Returned
  <2>2. t.pendingRead \in Seq(Tags)
    BY <1>4, <2>1, FoundIs
  <2>3. CASE ~c.last
    <3>1. VaultHas(t)
      BY <1>1, <2>1, <2>2, <2>3 DEF VaultHas, Same, Fields
    <3> QED BY <2>1, <2>3, <3>1, VaultSetIs DEF Same
  <2>4. CASE c.last /\ Atomic(c)
    <3>2. t.atomicCMD \in AskedReads \cup {NoCMD} /\ t.atomicOperLeft \in Nat
      BY <2>1, <2>4
    <3>1. VaultHas(t)
      BY ZenonT(30), <1>1, <2>1, <2>2, <2>4, <3>2 DEF VaultHas, Same, Fields
    <3> QED BY <2>1, <2>4, <3>1, VaultSetIs DEF Same
  <2>5. CASE c.last /\ ~Atomic(c)
    <3>0. s.up \in Seq(Response) /\ s.pendingDataSize \in Int /\ s.error \in BOOLEAN
      BY <1>1 DEF VaultHas
    <3>1. t.up \in Seq(Response) /\ t.pendingDataSize \in Int
      <4>1. Append(s.up, [tag |-> c.tag, lng |-> ResponseLength(c)]) \in Seq(Response)
        BY <1>2, <3>0, ResponseType
      <4>2. ResponseLength(c) \in Nat
        BY <1>2, ResponseLengthIs
      <4>3. /\ t.up = Append(s.up, [tag |-> c.tag, lng |-> ResponseLength(c)])
            /\ t.pendingDataSize = s.pendingDataSize - ResponseLength(c)
        BY <2>1, <2>5
      <4> QED BY <3>0, <4>1, <4>2, <4>3
    <3>2. t.error \in BOOLEAN
      BY <2>1, <2>5, <3>0, Zenon DEF Checked
    <3>3. VaultHas(t)
      BY <1>1, <2>1, <2>2, <2>5, <3>1, <3>2 DEF VaultHas, Same, Fields
    <3> QED BY <2>1, <2>5, <3>3, VaultSetIs DEF Same
  <2> QED BY <2>3, <2>4, <2>5
<1> QED BY <1>3, <1>4

LEMMA EndedType ==
  ASSUME NEW s \in VaultSet, NEW t, t = Ended(s)
  PROVE  t \in VaultSet
<1>1. IsVault(s) /\ VaultHas(s)
  BY VaultSetIs
<1>2. CASE ~ReadEnds(s)
  <2>1. Same(s, t, {"readLeft"}) /\ t.readLeft = Later(s.readLeft - 1, 0)
    BY <1>1, <1>2, EndedFrame
  <2>2. t.readLeft \in Nat
    BY <1>1, <2>1 DEF VaultHas, Later
  <2>3. VaultHas(t)
    BY <1>1, <2>1, <2>2 DEF VaultHas, Same, Fields
  <2> QED BY <2>1, <2>3, VaultSetIs DEF Same
<1>3. CASE ReadEnds(s)
  <2>1. PICK m : m = ReturnCommand(s, s.readData)
    OBVIOUS
  <2>2. s.readData \in AskedReads
    BY <1>1, <1>3 DEF VaultHas, ReadEnds
  <2>3. m \in VaultSet
    BY <2>1, <2>2, ReturnType
  <2>4. t.readData = NoCMD /\ t.readLeft = 0 /\ Same(m, t, {"readData", "readLeft"})
    BY <1>1, <1>3, <2>1, EndedFrame
  <2>5. VaultHas(m)
    BY <2>3, VaultSetIs
  <2>7. t.readData \in AskedReads \cup {NoCMD} /\ t.readLeft \in Nat
    BY <2>4
  <2>6. VaultHas(t)
    BY <2>4, <2>5, <2>7 DEF VaultHas, Same, Fields
  <2> QED BY <2>4, <2>6, VaultSetIs DEF Same
<1> QED BY <1>2, <1>3

LEMMA BegunType ==
  ASSUME NEW s \in VaultSet, NEW t, t = Begun(s)
  PROVE  t \in VaultSet
<1>1. IsVault(s) /\ VaultHas(s)
  BY VaultSetIs
<1>2. s.reads \in Seq(PendingReads) /\ s.readData \in AskedReads \cup {NoCMD} /\ s.readLeft \in Nat
  BY <1>1 DEF VaultHas
<1>3. Same(s, t, {"readData", "readLeft", "reads"})
  BY <1>1, BegunFrame
<1>4. t.readData \in AskedReads \cup {NoCMD} /\ t.readLeft \in Nat /\ t.reads \in Seq(PendingReads)
  <2>1. CASE ReadDue(s)
    <3>1. t.readData = s.reads[1].cmd /\ t.readLeft = BL /\ t.reads = CountDown(Tail(s.reads))
      BY <1>1, <2>1, BegunFrame
    <3>2. Tail(s.reads) \in Seq(PendingReads) /\ s.reads[1] \in PendingReads
      BY <1>2, <2>1, TailOf DEF ReadDue
    <3>3. CountDown(Tail(s.reads)) \in Seq(PendingReads)
      BY <3>2, CountDownIs DEF PendingReads
    <3>4. s.reads[1].cmd \in AskedReads
      BY <3>2 DEF PendingReads
    <3> QED BY <3>1, <3>3, <3>4, Times
  <2>2. CASE ~ReadDue(s)
    <3>1. t.readData = s.readData /\ t.readLeft = s.readLeft /\ t.reads = CountDown(s.reads)
      BY <1>1, <2>2, BegunFrame
    <3>2. CountDown(s.reads) \in Seq(PendingReads)
      BY <1>2, CountDownIs DEF PendingReads
    <3> QED BY <1>2, <3>1, <3>2
  <2> QED BY <2>1, <2>2
<1>5. VaultHas(t)
  BY <1>1, <1>3, <1>4 DEF VaultHas, Same, Fields
<1> QED BY <1>3, <1>5, VaultSetIs DEF Same

-----------------------------------------------------------------------------
(* The loop over downBuffers.                                              *)

LEMMA ConvAllStays ==
  ASSUME NEW S, NEW s \in S, Len(s.down) \in Nat,
         \A x \in S : \A i \in Nat \ {0} : ConvAt(x, i) \in S
  PROVE  ConvAll(s) \in S
<1> DEFINE n == Len(s.down)
           SS == {{x} : x \in S}
           G == [y \in SS \X (0 .. n - 1) |-> {ConvAt(x, y[2] + 1) : x \in y[1]}]
           Is(f) == f = [i \in 0 .. n |-> IF i = 0 THEN {s} ELSE {ConvAt(t, i) : t \in f[i - 1]}]
           f == CHOOSE f : Is(f)
<1>1. \A X \in SS : \A i \in Nat \ {0} : {ConvAt(x, i) : x \in X} \in SS
  <2>1. ASSUME NEW x \in S, NEW i \in Nat \ {0}
        PROVE  {ConvAt(y, i) : y \in {x}} = {ConvAt(x, i)} /\ {ConvAt(x, i)} \in SS
    OBVIOUS
  <2> QED BY <2>1
<1>2. {s} \in SS /\ n \in Nat
  OBVIOUS
<1> HIDE DEF SS, n
<1>3. Rounds(G, SS, n)
  <2>1. \A k \in 0 .. n - 1 : k + 1 \in Nat \ {0}
    BY <1>2
  <2> QED BY <1>1, <2>1 DEF Rounds
<1>4. PICK g : Runs(g, G, SS, {s}, n)
  BY <1>2, <1>3, LoopExists
<1>5. Is(g)
  <2>1. /\ g \in [0 .. n -> SS] /\ g[0] = {s}
        /\ \A k \in 1 .. n : g[k] = G[<<g[k - 1], k - 1>>]
    BY <1>4 DEF Runs
  <2>2. ASSUME NEW k \in 1 .. n PROVE g[k] = {ConvAt(x, k) : x \in g[k - 1]}
    <3>1. g[k - 1] \in SS /\ k - 1 \in 0 .. n - 1 /\ (k - 1) + 1 = k
      BY <1>2, <2>1
    <3>2. PICK X \in SS, j \in 0 .. n - 1 : X = g[k - 1] /\ j = k - 1
      BY <3>1
    <3>3. G[<<X, j>>] = {ConvAt(x, j + 1) : x \in X}
      OBVIOUS
    <3>4. j + 1 = k
      BY <3>2, <3>1
    <3>5. {ConvAt(x, j + 1) : x \in X} = {ConvAt(x, k) : x \in X}
      BY <3>4
    <3> QED BY <2>1, <3>2, <3>3, <3>5
  <2>3. ASSUME NEW k \in 0 .. n
        PROVE  g[k] = IF k = 0 THEN {s} ELSE {ConvAt(x, k) : x \in g[k - 1]}
    <3>1. k = 0 \/ (k \in 1 .. n /\ k # 0)
      BY <1>2
    <3> QED BY <2>1, <2>2, <3>1
  <2> QED BY <2>1, <2>3
<1>6. Is(f)
  <2> HIDE DEF Is
  <2> QED BY <1>5
<1> HIDE DEF f
<1>7. \A k \in 0 .. n : f[k] = IF k = 0 THEN {s} ELSE {ConvAt(x, k) : x \in f[k - 1]}
  BY <1>6
<1> HIDE DEF Is
<1>8. f[0] \in SS /\ \A k \in 1 .. n : f[k - 1] \in SS => f[k] \in SS
  <2>1. f[0] = {s}
    <3>1. 0 \in 0 .. n
      BY <1>2
    <3> QED BY <1>7, <3>1
  <2>2. \A k \in 1 .. n : k \in 0 .. n /\ k # 0 /\ k \in Nat \ {0}
    BY <1>2
  <2> QED BY <1>1, <1>2, <1>7, <2>1, <2>2
<1>9. f[n] \in SS
  BY <1>2, <1>8, LoopStays
<1>10. ConvAll(s) = CHOOSE x \in f[n] : TRUE
  BY DEF ConvAll, f, Is, n
<1>11. PICK x \in S : f[n] = {x}
  BY <1>9 DEF SS
<1> QED BY <1>10, <1>11

\* A set that holds s and, with each state of the vault, what the conversion of a
\* packet with room makes of it, holds ConvAll(s).
LEMMA ConversionsStay ==
  ASSUME NEW S \in SUBSET VaultSet, NEW s \in S,
         \A x \in S : \A i \in 1 .. Len(x.down) :
             AvailableSpace(x, Requests[x.down[i]].bank, Requests[x.down[i]].cmds + 1)
                 => ConvPacketIntoCMDs(x, i) \in S
  PROVE  ConvAll(s) \in S
<1>1. \A x \in S : x.down \in Seq(Tags)
  BY VaultSetIs DEF VaultHas
<1>2. ASSUME NEW x \in S, NEW i \in Nat \ {0} PROVE ConvAt(x, i) \in S
  <2>1. CASE i <= Len(x.down) /\ AvailableSpace(x, Requests[x.down[i]].bank, Requests[x.down[i]].cmds + 1)
    <3>1. i \in 1 .. Len(x.down)
      BY <1>1, <2>1
    <3>2. ConvPacketIntoCMDs(x, i) \in S
      BY <2>1, <3>1
    <3>3. ConvAt(x, i) = ConvPacketIntoCMDs(x, i)
      BY <2>1 DEF ConvAt
    <3> QED BY <3>2, <3>3
  <2>2. CASE ~(i <= Len(x.down)
               /\ AvailableSpace(x, Requests[x.down[i]].bank, Requests[x.down[i]].cmds + 1))
    <3>1. ConvAt(x, i) = x
      BY <2>2 DEF ConvAt
    <3> QED BY <3>1
  <2> QED BY <2>1, <2>2
<1>3. Len(s.down) \in Nat
  BY <1>1
<1> QED BY <1>2, <1>3, ConvAllStays
-----------------------------------------------------------------------------
(* CmdPop.                                                                 *)

LEMMA LeastOf ==
  ASSUME NEW N \in SUBSET Nat, N # {}
  PROVE  Min(N) \in N /\ \A x \in N : Min(N) <= x
<1>1. \E x \in N : \A y \in N : x <= y
  BY LeastNatural
<1> QED BY <1>1 DEF Min

LEMMA FirstBankIs ==
  ASSUME NEW B \in SUBSET Banks, NEW b, b = FirstBank(B)
  PROVE  (b = -1 <=> B = {}) /\ (b # -1 => b \in B /\ b \in Banks)
<1>1. B \in SUBSET Nat
  BY BankNumbers
<1>2. CASE B = {}
  BY <1>2 DEF FirstBank
<1>3. CASE B # {}
  <2>1. b \in B
    BY <1>1, <1>3, LeastOf DEF FirstBank
  <2>2. b # -1
    BY <1>1, <2>1
  <2> QED BY <1>3, <2>1, <2>2
<1> QED BY <1>2, <1>3

LEMMA CountFAWFrame ==
  ASSUME NEW s \in VaultSet, NEW t, t = CountFAW(s)
  PROVE  Same(s, t, {"tFAW"}) /\ t.tFAW \in Seq(Int) /\ Len(t.tFAW) <= Len(s.tFAW)
<1>1. IsVault(s) /\ s.tFAW \in Seq(Int)
  BY VaultSetIs DEF VaultHas
<1> DEFINE left == [i \in DOMAIN s.tFAW |-> s.tFAW[i] - 1]
<1>2. left \in Seq(Int) /\ Len(left) = Len(s.tFAW)
  <2>1. left = [i \in 1 .. Len(s.tFAW) |-> s.tFAW[i] - 1]
    BY <1>1
  <2> HIDE DEF left
  <2>2. left \in [1 .. Len(s.tFAW) -> Int] /\ Len(s.tFAW) \in Nat
    BY <1>1, <2>1
  <2> QED BY <2>2
<1>3. t = [s EXCEPT !.tFAW = IF left # <<>> /\ left[1] = 0 THEN Tail(left) ELSE left]
  BY DEF CountFAW
<1> HIDE DEF left
<1>4. CASE left # <<>> /\ left[1] = 0
  <2>1. Tail(left) \in Seq(Int) /\ Len(Tail(left)) <= Len(left)
    BY <1>2, <1>4
  <2>2. Same(s, t, {"tFAW"}) /\ t.tFAW = Tail(left)
    BY <1>1, <1>3, <1>4 DEF Same, Fields, IsVault
  <2> QED BY <1>2, <2>1, <2>2
<1>5. CASE ~(left # <<>> /\ left[1] = 0)
  <2>2. Same(s, t, {"tFAW"}) /\ t.tFAW = left
    BY <1>1, <1>3, <1>5 DEF Same, Fields, IsVault
  <2> QED BY <1>1, <1>2, <2>2
<1> QED BY <1>4, <1>5

\* Who holds the lock of bank b after command c was taken.
Holder(s, b, c) ==
    IF s.lock[b] # NoTag /\ c.type \in Writes THEN NoTag
    ELSE IF s.lock[b] = NoTag /\ Locking(c) THEN c.tag ELSE s.lock[b]

Taken(s, t, b, i, rest) ==
    /\ t.popped = s.queue[Q(b)][i]
    /\ t.queue = [s.queue EXCEPT ![Q(b)] = rest]
    /\ t.lock = [s.lock EXCEPT ![b] = Holder(s, b, s.queue[Q(b)][i])]

LEMMA TakeFrame ==
  ASSUME OPEN_PAGE, NEW s, IsVault(s), NEW b, NEW i, NEW t, t = Take(s, b, i),
         NEW rest, rest = RemoveAt(s.queue[Q(b)], i)
  PROVE  Same(s, t, {"popped", "queue", "lock"}) /\ Taken(s, t, b, i, rest)
<1> DEFINE c == s.queue[Q(b)][i]
<1>1. Holder(s, b, c) = CASE s.lock[b] # NoTag /\ c.type \in Writes -> NoTag
                    [] s.lock[b] = NoTag /\ Locking(c) -> c.tag
                    [] OTHER -> s.lock[b]
  <2> HIDE DEF c
  <2>1. CASE s.lock[b] # NoTag /\ c.type \in Writes
    BY <2>1 DEF Holder
  <2>2. CASE s.lock[b] = NoTag /\ Locking(c)
    BY <2>2 DEF Holder
  <2>3. CASE ~(s.lock[b] # NoTag /\ c.type \in Writes) /\ ~(s.lock[b] = NoTag /\ Locking(c))
    BY <2>3, Zenon DEF Holder
  <2> QED BY <2>1, <2>2, <2>3
<1>2. t = [s EXCEPT !.popped = c, !.queue[Q(b)] = RemoveAt(@, i),
                    !.lock[b] = CASE s.lock[b] # NoTag /\ c.type \in Writes -> NoTag
                                  [] s.lock[b] = NoTag /\ Locking(c) -> c.tag
                                  [] OTHER -> @]
  BY DEF Take
<1>3. t = [s EXCEPT !.popped = c, !.queue[Q(b)] = rest, !.lock[b] = Holder(s, b, c)]
  BY <1>1, <1>2, Zenon
<1> QED BY <1>3 DEF IsVault, Same, Fields, Taken

\* What is left of queue q when command i and the ACTIVATE in front of it are taken.
Rest(q, i) ==
    IF i > 1 /\ q[i - 1].type = "ACTIVATE" THEN RemoveAt(RemoveAt(q, i), i - 1) ELSE RemoveAt(q, i)

LEMMA TakeAccessFrame ==
  ASSUME OPEN_PAGE, NEW s \in VaultSet, NEW b \in Banks, NEW i \in 1 .. Len(s.queue[Q(b)]),
         s.lock[b] # NoTag => i = 1, NEW t, t = TakeAccess(s, b, i)
  PROVE  /\ Same(s, t, {"popped", "queue", "lock", "rowAccess"})
         /\ Taken(s, t, b, i, Rest(s.queue[Q(b)], i)) /\ t.rowAccess \in [Banks -> Nat]
<1>0. IsVault(s) /\ VaultHas(s)
  BY VaultSetIs
<1>00. s.queue \in [Queues -> Seq(Asked)] /\ s.rowAccess \in [Banks -> Nat] /\ Q(b) \in Queues /\ i \in Nat
  BY <1>0, QIs DEF VaultHas
<1>1. PICK q \in Seq(Asked) : q = s.queue[Q(b)]
  BY <1>00
<1>2. PICK m : m = Take(s, b, i)
  OBVIOUS
<1>3. Same(s, m, {"popped", "queue", "lock"}) /\ Taken(s, m, b, i, RemoveAt(s.queue[Q(b)], i))
  BY <1>0, <1>2, TakeFrame
<1>4. m.queue[Q(b)] = RemoveAt(q, i)
  BY <1>00, <1>1, <1>3 DEF Taken
<1>5. CASE s.lock[b] = NoTag /\ i > 1 /\ q[i - 1].type = "ACTIVATE"
  <2>1. t = [m EXCEPT !.queue[Q(b)] = RemoveAt(@, i - 1), !.rowAccess[b] = @ + 1]
    BY <1>1, <1>2, <1>5 DEF TakeAccess
  <2>2. /\ Same(m, t, {"queue", "rowAccess"})
        /\ t.queue = [m.queue EXCEPT ![Q(b)] = RemoveAt(m.queue[Q(b)], i - 1)]
        /\ t.rowAccess = [m.rowAccess EXCEPT ![b] = m.rowAccess[b] + 1]
    BY <1>3, <2>1 DEF Same, IsVault, Fields
  <2>3. m.rowAccess = s.rowAccess /\ t.popped = m.popped /\ t.lock = m.lock
    BY <1>3, <2>2 DEF Same, Fields
  <2>4. t.queue = [m.queue EXCEPT ![Q(b)] = RemoveAt(RemoveAt(q, i), i - 1)]
    BY <1>4, <2>2
  <2>5. Rest(q, i) = RemoveAt(RemoveAt(q, i), i - 1)
    BY <1>5 DEF Rest
  <2>6. t.queue = [s.queue EXCEPT ![Q(b)] = Rest(q, i)]
    BY <1>00, <1>3, <2>4, <2>5 DEF Taken
  <2>7. Taken(s, t, b, i, Rest(s.queue[Q(b)], i))
    BY <1>1, <1>3, <2>3, <2>6 DEF Taken
  <2>8. Same(s, t, {"popped", "queue", "lock", "rowAccess"})
    BY <1>3, <2>2 DEF Same, Fields
  <2>9. t.rowAccess \in [Banks -> Nat]
    BY <1>00, <2>2, <2>3
  <2> QED BY <2>7, <2>8, <2>9
<1>6. CASE ~(s.lock[b] = NoTag /\ i > 1 /\ q[i - 1].type = "ACTIVATE")
  <2>1. t = m
    BY <1>1, <1>2, <1>6 DEF TakeAccess
  <2>2. Rest(q, i) = RemoveAt(q, i)
    BY <1>6 DEF Rest
  <2>3. t.rowAccess = s.rowAccess
    BY <1>3, <2>1 DEF Same, Fields
  <2> QED BY <1>00, <1>1, <1>3, <2>1, <2>2, <2>3 DEF Same, Fields
<1> QED BY <1>5, <1>6

\* What a command finds when it is issued.
Ready(s, c) ==
    LET k == s.bank[c.bank] IN
    /\ c.type = "ACTIVATE" => k.state \in {"IDLE", "REFRESHING"} /\ k.nextActivate = 0
    /\ c.type \in {"READ", "WRITE"} => k.state = "ROW_ACTIVE" /\ k.row = c.row
    /\ c.type = "READ" => k.nextRead = 0 /\ RoomForResponse(s, c)
    /\ c.type = "WRITE" => /\ k.nextWrite = 0
                           /\ Atomic(c) \/ Requests[c.tag].posted \/ RoomForResponse(s, c)

LEMMA IssuableIs ==
  ASSUME NEW s, NEW c \in Asked, IsIssuable(s, c)
  PROVE  Ready(s, c) /\ (c.type = "ACTIVATE" => Len(s.tFAW) < 4)
<1>1. CASE c.type = "ACTIVATE"
  <2>1. c.type \notin Reads /\ c.type \notin Writes
    BY <1>1 DEF Reads, Writes
  <2>2. /\ s.bank[c.bank].state \in {"IDLE", "REFRESHING"} /\ s.bank[c.bank].nextActivate = 0
        /\ Len(s.tFAW) < 4
    BY <1>1, <2>1 DEF IsIssuable
  <2> QED BY <1>1, <2>2 DEF Ready
<1>2. CASE c.type = "READ"
  <2>1. c.type \in Reads /\ c.type \notin Writes /\ c.type # "ACTIVATE"
    BY <1>2 DEF Reads, Writes
  <2> QED BY <1>2, <2>1 DEF IsIssuable, Ready
<1>3. CASE c.type = "WRITE"
  <2>1. c.type \notin Reads /\ c.type \in Writes /\ c.type # "ACTIVATE"
    BY <1>3 DEF Reads, Writes
  <2> QED BY <1>3, <2>1 DEF IsIssuable, Ready
<1> QED BY <1>1, <1>2, <1>3, AskedHas

\* Each ACTIVATE is followed by an access of its request.
Chain(q) ==
    \A i \in 1 .. Len(q) : q[i].type = "ACTIVATE" =>
        i < Len(q) /\ q[i + 1].type # "ACTIVATE" /\ q[i + 1].tag = q[i].tag

\* Why command i of bank b's queue may be taken.
Permitted(s, b, i) ==
    LET q == s.queue[Q(b)] IN
    \/ s.lock[b] # NoTag /\ i = 1 /\ q[1].tag = s.lock[b]
    \/ /\ s.lock[b] = NoTag /\ ~DependencyFound(q, i)
       /\ Q(b) \notin s.fresh \/ s.bank[b].state = "ROW_ACTIVE"

\* What CmdPop makes of s: t.
PopsAccess(s, t, b, i) ==
    /\ b \in Banks /\ i \in 1 .. Len(s.queue[Q(b)])
    /\ Same(s, t, {"tFAW", "issuedBank", "popped", "queue", "lock", "rowAccess"})
    /\ Taken(s, t, b, i, Rest(s.queue[Q(b)], i))
    /\ Ready(s, s.queue[Q(b)][i]) /\ Permitted(s, b, i)
PopsPrecharge(s, t, b) ==
    /\ b \in Banks /\ Same(s, t, {"tFAW", "issuedBank", "popped", "rowAccess"})
    /\ t.popped = Closer(b) /\ s.lock[b] = NoTag
    /\ s.bank[b].state = "ROW_ACTIVE" /\ s.bank[b].nextPrecharge = 0
PopsRefresh(s, t) ==
    /\ Same(s, t, {"tFAW", "issuedBank", "popped", "refreshWaiting"})
    /\ t.popped = Refresher /\ s.refreshWaiting /\ t.refreshWaiting = FALSE
    /\ \A b \in Banks : /\ s.lock[b] = NoTag
                        /\ s.bank[b].state # "ROW_ACTIVE" /\ s.bank[b].nextActivate = 0
    /\ s.bank[0].state # "POWERDOWN"
Pops(s, t) ==
    \/ Same(s, t, {"tFAW", "issuedBank"})
    \/ \E b \in Banks : \E i \in 1 .. Len(s.queue[Q(b)]) : PopsAccess(s, t, b, i)
    \/ \E b \in Banks : PopsPrecharge(s, t, b)
    \/ PopsRefresh(s, t)
\* The counts CmdPop keeps.
Counts(s, t) ==
    /\ t.issuedBank \in Banks /\ t.rowAccess \in [Banks -> Nat] /\ t.tFAW = s.tFAW
    /\ t.popped.type = "ACTIVATE" => Len(s.tFAW) < 4

LEMMA CloseRowPops ==
  ASSUME OPEN_PAGE, NEW s \in VaultSet, s.popped = NoCMD, NEW t, t = CloseRow(s)
  PROVE  Pops(s, t) /\ Counts(s, t)
<1>0. IsVault(s) /\ VaultHas(s)
  BY VaultSetIs
<1>1. PICK B \in SUBSET Banks : B = {x \in Banks : Closable(s, x)}
  OBVIOUS
<1>2. PICK b : b = FirstBank(B)
  OBVIOUS
<1>3. t = IF b = -1 THEN s ELSE PrechargeBank(s, b)
  BY <1>1, <1>2 DEF CloseRow
<1>4. s.issuedBank \in Banks /\ s.rowAccess \in [Banks -> Nat]
  BY <1>0 DEF VaultHas
<1>5. CASE b = -1
  <2>1. t = s
    BY <1>3, <1>5
  <2>2. Same(s, t, {"tFAW", "issuedBank"})
    BY <1>0, <2>1 DEF Same
  <2>3. t.popped.type = "NONE"
    BY <2>1, CloserHas
  <2> QED BY <1>4, <2>1, <2>2, <2>3 DEF Pops, Counts
<1>6. CASE b # -1
  <2>1. b \in Banks /\ Closable(s, b)
    BY <1>1, <1>2, <1>6, FirstBankIs
  <2>2. t = [s EXCEPT !.popped = Closer(b), !.rowAccess[b] = 0]
    BY <1>3, <1>6 DEF PrechargeBank, Closer
  <2>3. /\ Same(s, t, {"popped", "rowAccess"}) /\ t.popped = Closer(b)
        /\ t.rowAccess = [s.rowAccess EXCEPT ![b] = 0]
    BY <1>0, <2>2 DEF Same, IsVault, Fields
  <2>4. PopsPrecharge(s, t, b)
    BY <2>1, <2>3 DEF PopsPrecharge, Closable, Same, Fields
  <2>5. t.popped.type # "ACTIVATE"
    BY <2>1, <2>3, CloserHas
  <2>6. t.issuedBank = s.issuedBank /\ t.tFAW = s.tFAW
    BY <2>3 DEF Same, Fields
  <2> QED BY <1>4, <2>1, <2>3, <2>4, <2>5, <2>6 DEF Pops, Counts
<1> QED BY <1>5, <1>6

LEMMA ArbitratePops ==
  ASSUME OPEN_PAGE, NEW s \in VaultSet, s.popped = NoCMD, NEW t, t = Arbitrate(s)
  PROVE  Pops(s, t) /\ Counts(s, t) /\ (t.popped = NoCMD => Same(s, t, {"issuedBank"}))
<1>0. IsVault(s) /\ VaultHas(s)
  BY VaultSetIs
<1> DEFINE At(n) == (s.issuedBank + n) % NUM_BANKS
           found == {n \in 0 .. NUM_BANKS - 1 : Candidates(s, At(n)) # {}}
           stays == {n \in 0 .. NUM_BANKS - 1 :
                     ~OPEN_PAGE /\ s.lock[At(n)] # NoTag /\ Q(At(n)) \notin s.fresh}
           n == IF found = {} THEN 0 ELSE Min(found)
<1>1. stays = {}
  OBVIOUS
<1>2. \A k \in Nat : At(k) \in Banks
  <2>1. s.issuedBank \in Nat
    BY <1>0, BankNumbers DEF VaultHas
  <2>2. ASSUME NEW k \in Nat, NEW N \in Nat \ {0} PROVE (s.issuedBank + k) % N \in 0 .. N - 1
    BY <2>1
  <2> QED BY <2>2, BankNumbers
<1>3. s.issuedBank \in Banks /\ s.rowAccess \in [Banks -> Nat] /\ s.queue \in [Queues -> Seq(Asked)]
  BY <1>0 DEF VaultHas
<1>4. t = LET u == IF n \in found THEN TakeAccess(s, At(n), Min(Candidates(s, At(n)))) ELSE s
          IN  IF n \in found THEN [u EXCEPT !.issuedBank = (At(n) + 1) % NUM_BANKS]
              ELSE [u EXCEPT !.issuedBank = At(n)]
  BY <1>1 DEF Arbitrate
<1>5. found \in SUBSET Nat
  BY BankNumbers
<1>6. CASE found = {}
  <2>1. t = [s EXCEPT !.issuedBank = At(0)]
    BY <1>4, <1>6
  <2>2. At(0) \in Banks
    BY <1>2
  <2> HIDE DEF At
  <2>3. Same(s, t, {"issuedBank"}) /\ t.issuedBank = At(0)
    BY <1>0, <2>1 DEF Same, IsVault, Fields
  <2>4. t.popped = NoCMD /\ t.rowAccess = s.rowAccess /\ t.tFAW = s.tFAW
    BY <2>3 DEF Same, Fields
  <2>5. Same(s, t, {"tFAW", "issuedBank"})
    BY <2>3 DEF Same
  <2> QED BY <1>3, <2>2, <2>3, <2>4, <2>5, CloserHas DEF Pops, Counts
<1>7. CASE found # {}
  <2>1. n \in found
    BY <1>5, <1>7, LeastOf
  <2>2. PICK b \in Banks : b = At(n)
    BY <1>2, <1>5, <2>1
  <2>3. PICK j \in Banks : j = (At(n) + 1) % NUM_BANKS
    <3>1. ASSUME NEW k \in Nat, NEW N \in Nat \ {0} PROVE (k + 1) % N \in 0 .. N - 1
      OBVIOUS
    <3>2. b \in Nat
      BY BankNumbers
    <3>3. (b + 1) % NUM_BANKS \in Banks
      BY <3>1, <3>2, BankNumbers
    <3> QED BY <2>2, <3>3
  <2>4. PICK C : C = Candidates(s, b)
    OBVIOUS
  <2>5. PICK q \in Seq(Asked) : q = s.queue[Q(b)]
    BY <1>3, QIs
  <2>6. C # {} /\ t = [TakeAccess(s, b, Min(C)) EXCEPT !.issuedBank = j]
    BY <1>4, <2>1, <2>2, <2>3, <2>4
  <2> HIDE DEF At, found, n, stays
  <2>7. Q(b) \notin s.fresh
    BY <2>4, <2>6 DEF Candidates
  <2>8. C \in SUBSET (1 .. Len(q)) /\ \A i \in C : IsIssuable(s, q[i]) /\ Permitted(s, b, i)
    <3>1. DOMAIN q = 1 .. Len(q)
      OBVIOUS
    <3>2. CASE s.lock[b] # NoTag
      BY <2>4, <2>5, <2>7, <3>1, <3>2 DEF Candidates, Permitted
    <3>3. CASE s.lock[b] = NoTag
      BY <2>4, <2>5, <2>7, <3>1, <3>3 DEF Candidates, Permitted
    <3> QED BY <3>2, <3>3
  <2>9. PICK i \in C : i = Min(C)
    <3>1. C \in SUBSET Nat
      BY <2>8
    <3> QED BY <2>6, <3>1, LeastOf
  <2>10. i \in 1 .. Len(q) /\ IsIssuable(s, q[i]) /\ Permitted(s, b, i) /\ (s.lock[b] # NoTag => i = 1)
    BY <2>8 DEF Permitted
  <2>11. PICK u : u = TakeAccess(s, b, i)
    OBVIOUS
  <2>12. /\ Same(s, u, {"popped", "queue", "lock", "rowAccess"})
         /\ Taken(s, u, b, i, Rest(s.queue[Q(b)], i)) /\ u.rowAccess \in [Banks -> Nat]
    BY <2>5, <2>10, <2>11, TakeAccessFrame
  <2>13. t = [u EXCEPT !.issuedBank = j]
    BY <2>6, <2>9, <2>11
  <2>14. Same(u, t, {"issuedBank"}) /\ t.issuedBank = j
    BY <2>12, <2>13 DEF Same, IsVault, Fields
  <2>15. Same(s, t, {"tFAW", "issuedBank", "popped", "queue", "lock", "rowAccess"})
         /\ t.tFAW = s.tFAW /\ t.rowAccess = u.rowAccess /\ t.queue = u.queue /\ t.lock = u.lock
         /\ t.popped = u.popped
    BY <2>12, <2>14 DEF Same, Fields
  <2>16. q[i] \in Asked
    BY <2>5, <2>10
  <2>17. Ready(s, q[i]) /\ (q[i].type = "ACTIVATE" => Len(s.tFAW) < 4)
    BY <2>10, <2>16, IssuableIs
  <2>18. Taken(s, t, b, i, Rest(s.queue[Q(b)], i)) /\ t.popped = q[i]
    BY <2>5, <2>12, <2>15 DEF Taken
  <2>19. PopsAccess(s, t, b, i)
    BY <2>5, <2>10, <2>15, <2>17, <2>18 DEF PopsAccess
  <2>20. t.popped # NoCMD
    BY <2>16, <2>18, AskedHas
  <2>21. Counts(s, t)
    BY <2>12, <2>14, <2>15, <2>17, <2>18 DEF Counts
  <2> QED BY <2>5, <2>10, <2>19, <2>20, <2>21 DEF Pops
<1> QED BY <1>6, <1>7

Chains(s) == \A q \in Queues : Chain(s.queue[q])

LEMMA RefreshScanPops ==
  ASSUME OPEN_PAGE, NEW s \in VaultSet, Chains(s), s.popped = NoCMD, s.refreshWaiting,
         NEW t, t = RefreshScan(s)
  PROVE  t = s \/ (Pops(s, t) /\ Counts(s, t) /\ t.popped # NoCMD)
<1>0. IsVault(s) /\ VaultHas(s)
  BY VaultSetIs
<1>1. s.issuedBank \in Banks /\ s.rowAccess \in [Banks -> Nat] /\ s.queue \in [Queues -> Seq(Asked)]
  BY <1>0 DEF VaultHas
<1> DEFINE B == {x \in Banks : \/ s.lock[x] # NoTag
                               \/ s.bank[x].state = "ROW_ACTIVE"
                               \/ s.bank[x].nextActivate > 0}
<1>2. PICK b : b = FirstBank(B)
  OBVIOUS
<1> DEFINE q == s.queue[Q(b)]
           toRow == {i \in DOMAIN q : q[i].bank = b /\ q[i].row = s.bank[b].row}
           first == Min(toRow)
           pending == toRow # {} /\ q[first].type # "ACTIVATE"
<1>3. t = CASE b = -1 ->
              IF s.bank[0].state = "POWERDOWN" THEN s
              ELSE [s EXCEPT !.popped = Command("REFRESH", NoTag, 0, 0, TRUE),
                             !.refreshWaiting = FALSE]
         [] b # -1 /\ s.lock[b] # NoTag ->
              IF Q(s.issuedBank) \notin s.fresh /\ q # <<>> /\ q[1].tag = s.lock[b]
                 /\ IsIssuable(s, q[1])
              THEN Take(s, b, 1) ELSE s
         [] b # -1 /\ s.lock[b] = NoTag /\ s.bank[b].state = "ROW_ACTIVE" ->
              IF pending /\ IsIssuable(s, q[first]) THEN Take(s, b, first)
              ELSE IF OPEN_PAGE /\ ~pending /\ s.bank[b].nextPrecharge = 0
                   THEN PrechargeBank(s, b) ELSE s
         [] OTHER -> s
  BY <1>2, Zenon DEF RefreshScan
<1>4. (b = -1 <=> B = {}) /\ (b # -1 => b \in B /\ b \in Banks)
  <2>1. PICK BB \in SUBSET Banks : BB = B
    OBVIOUS
  <2>2. b = FirstBank(BB)
    BY <1>2, <2>1
  <2>3. (b = -1 <=> BB = {}) /\ (b # -1 => b \in BB /\ b \in Banks)
    BY <2>2, FirstBankIs
  <2> HIDE DEF B
  <2> QED BY <2>1, <2>3
<1>5. CASE b = -1
  <2>1. t = IF s.bank[0].state = "POWERDOWN" THEN s
            ELSE [s EXCEPT !.popped = Refresher, !.refreshWaiting = FALSE]
    BY <1>3, <1>5, Zenon DEF Refresher
  <2>2. CASE s.bank[0].state # "POWERDOWN"
    <3>1. t = [s EXCEPT !.popped = Refresher, !.refreshWaiting = FALSE]
      BY <2>1, <2>2
    <3>2. Same(s, t, {"popped", "refreshWaiting"}) /\ t.popped = Refresher /\ t.refreshWaiting = FALSE
      BY <1>0, <3>1 DEF Same, IsVault, Fields
    <3>3. \A x \in Banks : s.lock[x] = NoTag /\ s.bank[x].state # "ROW_ACTIVE" /\ ~(s.bank[x].nextActivate > 0)
      BY <1>4, <1>5
    <3>4. \A x \in Banks : s.bank[x].nextActivate \in Nat
      <4>1. \A x \in Banks : s.bank[x] \in BankType
        BY <1>0 DEF VaultHas
      <4> QED BY <4>1, BankHas DEF BankFields
    <3>5. PopsRefresh(s, t)
      BY <2>2, <3>2, <3>3, <3>4 DEF PopsRefresh, Same
    <3>6. t.popped # NoCMD /\ t.popped.type # "ACTIVATE"
      BY <3>2, CloserHas
    <3>7. Counts(s, t)
      BY <1>1, <3>2, <3>6 DEF Counts, Same, Fields
    <3> QED BY <3>5, <3>6, <3>7 DEF Pops
  <2> QED BY <2>1, <2>2
<1>6. CASE b # -1 /\ s.lock[b] # NoTag
  <2>0. b \in Banks /\ q \in Seq(Asked)
    BY <1>1, <1>4, <1>6, QIs
  <2>1. t = IF Q(s.issuedBank) \notin s.fresh /\ q # <<>> /\ q[1].tag = s.lock[b]
                 /\ IsIssuable(s, q[1])
            THEN Take(s, b, 1) ELSE s
    BY <1>3, <1>6, Zenon
  <2>2. CASE q # <<>> /\ q[1].tag = s.lock[b] /\ IsIssuable(s, q[1]) /\ t = Take(s, b, 1)
    <3>1. 1 \in 1 .. Len(q) /\ q[1] \in Asked
      BY <2>0, <2>2
    <3>2. Same(s, t, {"popped", "queue", "lock"}) /\ Taken(s, t, b, 1, RemoveAt(q, 1))
      BY <1>0, <2>2, TakeFrame
    <3>3. Rest(q, 1) = RemoveAt(q, 1)
      BY DEF Rest
    <3>4. Ready(s, q[1]) /\ (q[1].type = "ACTIVATE" => Len(s.tFAW) < 4)
      BY <2>2, <3>1, IssuableIs
    <3>5. Permitted(s, b, 1)
      BY <1>6, <2>2 DEF Permitted
    <3>6. PopsAccess(s, t, b, 1)
      BY <2>0, <3>1, <3>2, <3>3, <3>4, <3>5 DEF PopsAccess, Same
    <3>7. t.popped = q[1]
      BY <3>2 DEF Taken
    <3>8. t.popped # NoCMD
      BY <3>1, <3>7, AskedHas
    <3>9. Counts(s, t)
      BY <1>1, <3>2, <3>4, <3>7 DEF Counts, Same, Fields
    <3> QED BY <2>0, <3>1, <3>6, <3>8, <3>9 DEF Pops
  <2> QED BY <2>1, <2>2
<1>7. CASE b # -1 /\ s.lock[b] = NoTag /\ s.bank[b].state = "ROW_ACTIVE"
  <2>0. b \in Banks /\ q \in Seq(Asked) /\ Q(b) \in Queues
    BY <1>1, <1>4, <1>7, QIs
  <2>1. t = IF pending /\ IsIssuable(s, q[first]) THEN Take(s, b, first)
            ELSE IF OPEN_PAGE /\ ~pending /\ s.bank[b].nextPrecharge = 0
                 THEN PrechargeBank(s, b) ELSE s
    BY <1>3, <1>7, Zenon
  <2>2. CASE pending /\ IsIssuable(s, q[first])
    <3>0. toRow \in SUBSET (1 .. Len(q)) /\ toRow \in SUBSET Nat
      BY <2>0
    <3>20. PICK F \in SUBSET (1 .. Len(q)) : F = toRow
      BY <3>0
    <3>1. first \in F /\ \A j \in F : first <= j
      <4>1. F # {} /\ F \in SUBSET Nat /\ first = Min(F)
        BY <2>2, <3>0, <3>20
      <4> HIDE DEF first, toRow
      <4> QED BY <4>1, LeastOf
    <3>2. PICK i \in 1 .. Len(q) : i = first
      BY <3>0, <3>1
    <3>21. IsIssuable(s, q[first]) /\ q[first].type # "ACTIVATE"
      BY <2>2
    <3>22. \A j \in 1 .. Len(q) : j \in F <=> q[j].bank = b /\ q[j].row = s.bank[b].row
      BY <2>0, <3>20
    <3> HIDE DEF first, toRow
    <3>3. q[i].bank = b /\ q[i].row = s.bank[b].row /\ q[i].type # "ACTIVATE" /\ IsIssuable(s, q[i])
          /\ q[i] \in Asked
      BY <2>0, <3>1, <3>2, <3>21, <3>22
    <3>4. ASSUME NEW j \in 1 .. i - 1, q[j].bank = q[i].bank, q[j].row = q[i].row PROVE FALSE
      <4>1. j \in 1 .. Len(q) /\ j < i
        BY <2>0
      <4>2. j \in F
        BY <3>3, <3>4, <3>22, <4>1
      <4> QED BY <3>1, <3>2, <4>1, <4>2
    <3>5. ~DependencyFound(q, i)
      BY <3>4 DEF DependencyFound
    <3>6. t = Take(s, b, i)
      BY <2>1, <2>2, <3>2
    <3>7. Same(s, t, {"popped", "queue", "lock"}) /\ Taken(s, t, b, i, RemoveAt(q, i))
      BY <1>0, <3>6, TakeFrame
    <3>8. Rest(q, i) = RemoveAt(q, i)
      <4>1. CASE i > 1 /\ q[i - 1].type = "ACTIVATE"
        <5>1. i - 1 \in 1 .. Len(q) /\ i - 1 \in 1 .. i - 1 /\ (i - 1) + 1 = i
          BY <4>1
        <5>2. Chain(q)
          BY <2>0 DEF Chains
        <5>3. q[(i - 1) + 1].tag = q[i - 1].tag
          BY <4>1, <5>1, <5>2 DEF Chain
        <5>4. q[i - 1] \in Asked /\ q[i - 1].tag = q[i].tag
          BY <2>0, <5>1, <5>3
        <5>5. q[i - 1].bank = q[i].bank /\ q[i - 1].row = q[i].row
          <6>1. PICK c \in Asked, d \in Asked : c = q[i] /\ d = q[i - 1]
            BY <3>3, <5>4
          <6>2. c.bank = Requests[c.tag].bank /\ c.row = Requests[c.tag].row
            BY AskedHas
          <6>3. d.bank = Requests[d.tag].bank /\ d.row = Requests[d.tag].row
            BY AskedHas
          <6>4. d.tag = c.tag
            BY <5>4, <6>1
          <6> QED BY <6>1, <6>2, <6>3, <6>4
        <5> QED BY <3>4, <5>1, <5>5
      <4>2. CASE ~(i > 1 /\ q[i - 1].type = "ACTIVATE")
        BY <4>2 DEF Rest
      <4> QED BY <4>1, <4>2
    <3>9. Ready(s, q[i])
      BY <3>3, IssuableIs
    <3>10. Permitted(s, b, i)
      BY <1>7, <3>5 DEF Permitted
    <3>11. PopsAccess(s, t, b, i)
      BY <2>0, <3>7, <3>8, <3>9, <3>10 DEF PopsAccess, Same
    <3>12. t.popped = q[i]
      BY <3>7 DEF Taken
    <3>13. t.popped # NoCMD
      BY <3>3, <3>12, AskedHas
    <3>14. Counts(s, t)
      BY <1>1, <3>3, <3>7, <3>12 DEF Counts, Same, Fields
    <3> QED BY <2>0, <3>11, <3>13, <3>14 DEF Pops
  <2>3. CASE ~(pending /\ IsIssuable(s, q[first])) /\ s.bank[b].nextPrecharge = 0 /\ ~pending
    <3>1. t = [s EXCEPT !.popped = Closer(b), !.rowAccess[b] = 0]
      BY <2>1, <2>3 DEF PrechargeBank, Closer
    <3>2. /\ Same(s, t, {"popped", "rowAccess"}) /\ t.popped = Closer(b)
          /\ t.rowAccess = [s.rowAccess EXCEPT ![b] = 0]
      BY <1>0, <3>1 DEF Same, IsVault, Fields
    <3>3. PopsPrecharge(s, t, b)
      BY <1>7, <2>0, <2>3, <3>2 DEF PopsPrecharge, Same, Fields
    <3>4. t.popped.type # "ACTIVATE" /\ t.popped # NoCMD
      BY <2>0, <3>2, CloserHas
    <3>5. Counts(s, t)
      <4>1. t.issuedBank = s.issuedBank /\ t.tFAW = s.tFAW
        BY <3>2 DEF Same, Fields
      <4>2. t.rowAccess \in [Banks -> Nat]
        BY <1>1, <2>0, <3>2
      <4> QED BY <1>1, <3>4, <4>1, <4>2 DEF Counts
    <3> QED BY <2>0, <3>3, <3>4, <3>5 DEF Pops
  <2> HIDE DEF pending, first, q
  <2>4. CASE ~(pending /\ IsIssuable(s, q[first])) /\ ~(s.bank[b].nextPrecharge = 0 /\ ~pending)
    BY <2>1, <2>4
  <2> QED BY <2>2, <2>3, <2>4
<1>8. CASE ~(b = -1) /\ ~(b # -1 /\ s.lock[b] # NoTag)
           /\ ~(b # -1 /\ s.lock[b] = NoTag /\ s.bank[b].state = "ROW_ACTIVE")
  <2> HIDE DEF q, toRow, first, pending
  <2> QED BY <1>3, <1>8, Zenon
<1> QED BY <1>5, <1>6, <1>7, <1>8

\* tFAW holds the times of the last four ACTIVATEs at most.
FourWindows(s, t) == t.tFAW \in Seq(Int) /\ (Len(s.tFAW) <= 4 => Len(t.tFAW) <= 4)

\* Pops looks at neither tFAW nor issuedBank.
LEMMA PopsIgnores ==
  ASSUME NEW s, NEW m, NEW t, IsVault(s), Same(s, m, {"tFAW", "issuedBank"}), Pops(m, t)
  PROVE  Pops(s, t)
<1>1. /\ m.queue = s.queue /\ m.lock = s.lock /\ m.bank = s.bank /\ m.fresh = s.fresh
      /\ m.refreshWaiting = s.refreshWaiting /\ m.pendingDataSize = s.pendingDataSize /\ m.up = s.up
  BY DEF Same, Fields
<1>2. CASE Same(m, t, {"tFAW", "issuedBank"})
  <2>1. Same(s, t, {"tFAW", "issuedBank"})
    BY <1>2 DEF Same, Fields
  <2> QED BY <2>1 DEF Pops
<1>3. ASSUME NEW b \in Banks, NEW i \in 1 .. Len(m.queue[Q(b)]), PopsAccess(m, t, b, i)
      PROVE  PopsAccess(s, t, b, i) /\ i \in 1 .. Len(s.queue[Q(b)])
  <2>1. Same(s, t, {"tFAW", "issuedBank", "popped", "queue", "lock", "rowAccess"})
    BY <1>3 DEF PopsAccess, Same, Fields
  <2>2. Taken(s, t, b, i, Rest(s.queue[Q(b)], i))
    BY <1>1, <1>3 DEF PopsAccess, Taken, Holder
  <2>3. Ready(s, s.queue[Q(b)][i])
    BY <1>1, <1>3 DEF PopsAccess, Ready, RoomForResponse
  <2>4. Permitted(s, b, i)
    BY <1>1, <1>3 DEF PopsAccess, Permitted
  <2>5. i \in 1 .. Len(s.queue[Q(b)])
    BY <1>1
  <2> QED BY <2>1, <2>2, <2>3, <2>4, <2>5 DEF PopsAccess
<1>4. ASSUME NEW b \in Banks, PopsPrecharge(m, t, b) PROVE PopsPrecharge(s, t, b)
  <2>1. Same(s, t, {"tFAW", "issuedBank", "popped", "rowAccess"})
    BY <1>4 DEF PopsPrecharge, Same, Fields
  <2> QED BY <1>1, <1>4, <2>1 DEF PopsPrecharge
<1>5. ASSUME PopsRefresh(m, t) PROVE PopsRefresh(s, t)
  <2>1. Same(s, t, {"tFAW", "issuedBank", "popped", "refreshWaiting"})
    BY <1>5 DEF PopsRefresh, Same, Fields
  <2> QED BY <1>1, <1>5, <2>1 DEF PopsRefresh
<1>6. CASE \E b \in Banks : \E i \in 1 .. Len(m.queue[Q(b)]) : PopsAccess(m, t, b, i)
  BY <1>3, <1>6 DEF Pops
<1>7. CASE \E b \in Banks : PopsPrecharge(m, t, b)
  BY <1>4, <1>7 DEF Pops
<1>8. CASE PopsRefresh(m, t)
  BY <1>5, <1>8 DEF Pops
<1> QED BY <1>2, <1>6, <1>7, <1>8 DEF Pops

LEMMA CmdPopPops ==
  ASSUME OPEN_PAGE, NEW s \in VaultSet, Chains(s), s.popped = NoCMD, NEW t, t = CmdPop(s)
  PROVE  /\ Pops(s, t) /\ FourWindows(s, t)
         /\ t.issuedBank \in Banks /\ t.rowAccess \in [Banks -> Nat]
<1>1. IsVault(s) /\ VaultHas(s)
  BY VaultSetIs
<1>2. PICK s0 : s0 = CountFAW(s)
  OBVIOUS
<1>3. Same(s, s0, {"tFAW"}) /\ s0.tFAW \in Seq(Int) /\ Len(s0.tFAW) <= Len(s.tFAW)
  BY <1>2, CountFAWFrame
<1>4. s0 \in VaultSet
  <2>1. VaultHas(s0)
    BY <1>1, <1>3 DEF VaultHas, Same, Fields
  <2> QED BY <1>3, <2>1, VaultSetIs DEF Same
<1>5. s0.popped = NoCMD /\ s0.queue = s.queue /\ s.tFAW \in Seq(Int)
  BY <1>1, <1>3 DEF Same, Fields, VaultHas
<1>6. Chains(s0)
  BY <1>5 DEF Chains
<1>7. PICK s1 : s1 = IF s0.refreshWaiting THEN RefreshScan(s0) ELSE s0
  OBVIOUS
<1>8. s1 = s0 \/ (Pops(s0, s1) /\ Counts(s0, s1) /\ s1.popped # NoCMD)
  BY <1>4, <1>5, <1>6, <1>7, RefreshScanPops
<1>9. PICK s2 : s2 = IF s1.popped # NoCMD THEN s1 ELSE Arbitrate(s1)
  OBVIOUS
<1>10. PICK s3 : s3 = IF s2.popped # NoCMD THEN s2 ELSE CloseRow(s2)
  OBVIOUS
<1>11. t = IF s3.popped.type = "ACTIVATE" THEN [s3 EXCEPT !.tFAW = Append(@, tFAW)] ELSE s3
  <2>1. s1 = IF s0.refreshWaiting THEN RefreshScan(s0) ELSE s0
    BY <1>7
  <2>2. s2 = IF s1.popped # NoCMD \/ (s0.refreshWaiting /\ ~OPEN_PAGE) THEN s1 ELSE Arbitrate(s1)
    BY <1>9
  <2>3. s3 = IF s2.popped # NoCMD \/ ~OPEN_PAGE THEN s2 ELSE CloseRow(s2)
    BY <1>10
  <2> QED BY <1>2, <2>1, <2>2, <2>3, Zenon DEF CmdPop
<1>12. Pops(s0, s3) /\ Counts(s0, s3)
  <2>1. CASE s1 # s0
    <3>1. s3 = s1
      BY <1>8, <1>9, <1>10, <2>1
    <3> QED BY <1>8, <2>1, <3>1
  <2>2. CASE s1 = s0
    <3>1. s2 = Arbitrate(s0)
      BY <1>5, <1>9, <2>2
    <3>2. Pops(s0, s2) /\ Counts(s0, s2) /\ (s2.popped = NoCMD => Same(s0, s2, {"issuedBank"}))
      BY <1>4, <1>5, <3>1, ArbitratePops
    <3>3. CASE s2.popped # NoCMD
      BY <1>10, <3>2, <3>3
    <3>4. CASE s2.popped = NoCMD
      <4>1. s3 = CloseRow(s2) /\ Same(s0, s2, {"issuedBank"})
        BY <1>10, <3>2, <3>4
      <4>2. s2 \in VaultSet
        <5>1. s2.issuedBank \in Banks
          BY <3>2 DEF Counts
        <5>2. VaultHas(s0)
          BY <1>4, VaultSetIs
        <5>3. VaultHas(s2)
          BY <4>1, <5>1, <5>2 DEF VaultHas, Same, Fields
        <5> QED BY <4>1, <5>3, VaultSetIs DEF Same
      <4>3. Pops(s2, s3) /\ Counts(s2, s3)
        BY <3>4, <4>1, <4>2, CloseRowPops
      <4>4. Same(s0, s2, {"tFAW", "issuedBank"}) /\ s2.tFAW = s0.tFAW
        BY <4>1 DEF Same, Fields
      <4>5. IsVault(s0)
        BY <1>3 DEF Same
      <4>6. Pops(s0, s3)
        BY <4>3, <4>4, <4>5, PopsIgnores
      <4>7. Counts(s0, s3)
        BY <4>3, <4>4 DEF Counts
      <4> QED BY <4>6, <4>7
    <3> QED BY <3>3, <3>4
  <2> QED BY <2>1, <2>2
<1>13. Pops(s, s3)
  <2>1. Same(s, s0, {"tFAW", "issuedBank"})
    BY <1>3 DEF Same
  <2> QED BY <1>1, <1>12, <2>1, PopsIgnores
<1>14. s3.tFAW = s0.tFAW /\ IsVault(s3)
       /\ s3.issuedBank \in Banks /\ s3.rowAccess \in [Banks -> Nat]
       /\ (s3.popped.type = "ACTIVATE" => Len(s0.tFAW) < 4)
  <2>1. IsVault(s3)
    BY <1>13 DEF Pops, PopsAccess, PopsPrecharge, PopsRefresh, Same
  <2> QED BY <1>12, <2>1 DEF Counts
<1>15. CASE s3.popped.type # "ACTIVATE"
  BY <1>3, <1>5, <1>11, <1>13, <1>14, <1>15 DEF FourWindows
<1>16. CASE s3.popped.type = "ACTIVATE"
  <2>1. t = [s3 EXCEPT !.tFAW = Append(s3.tFAW, tFAW)]
    BY <1>11, <1>16
  <2>2. Same(s3, t, {"tFAW"}) /\ t.tFAW = Append(s0.tFAW, tFAW)
    BY <1>14, <2>1 DEF Same, IsVault, Fields
  <2>3. t.tFAW \in Seq(Int) /\ Len(t.tFAW) <= 4
    BY <1>3, <1>14, <1>16, <2>2, Times
  <2>4. FourWindows(s, t)
    BY <2>3 DEF FourWindows
  <2>5. t.issuedBank = s3.issuedBank /\ t.rowAccess = s3.rowAccess
    BY <2>2 DEF Same, Fields
  <2>6. PICK b \in Banks : \E i \in 1 .. Len(s.queue[Q(b)]) : PopsAccess(s, s3, b, i)
    <3>1. ~Same(s, s3, {"tFAW", "issuedBank"})
      <4>1. ASSUME Same(s, s3, {"tFAW", "issuedBank"}) PROVE s3.popped = NoCMD
        BY <4>1 DEF Same, Fields
      <4> QED BY <1>16, <4>1, CloserHas
    <3>2. \A b \in Banks : ~PopsPrecharge(s, s3, b)
      BY <1>16, CloserHas DEF PopsPrecharge
    <3>3. ~PopsRefresh(s, s3)
      BY <1>16, CloserHas DEF PopsRefresh
    <3> QED BY <1>13, <3>1, <3>2, <3>3 DEF Pops
  <2>7. PICK i \in 1 .. Len(s.queue[Q(b)]) : PopsAccess(s, s3, b, i)
    BY <2>6
  <2>8. Same(s, t, {"tFAW", "issuedBank", "popped", "queue", "lock", "rowAccess"})
        /\ t.popped = s3.popped /\ t.queue = s3.queue /\ t.lock = s3.lock
    BY <2>2, <2>7 DEF PopsAccess, Same, Fields
  <2>9. PopsAccess(s, t, b, i)
    BY <2>7, <2>8 DEF PopsAccess, Taken
  <2>10. Pops(s, t)
    BY <2>7, <2>9 DEF Pops
  <2> QED BY <1>14, <2>4, <2>5, <2>10
<1> QED BY <1>15, <1>16

\* r is q without the commands lo to hi: one access, and the ACTIVATE in front of it.
Cut(q, r, lo, hi) ==
    /\ lo \in 1 .. Len(q) /\ hi \in lo .. Len(q) /\ (hi = lo \/ hi = lo + 1)
    /\ Len(r) = Len(q) - (hi - lo + 1)
    /\ \A k \in 1 .. Len(r) : r[k] = IF k < lo THEN q[k] ELSE q[k + (hi - lo + 1)]
    /\ lo < hi => q[lo].type = "ACTIVATE"
    /\ lo > 1 => q[lo - 1].type # "ACTIVATE"

LEMMA RestCuts ==
  ASSUME NEW q \in Seq(Asked), Chain(q), NEW i \in 1 .. Len(q), NEW r, r = Rest(q, i)
  PROVE  r \in Seq(Asked) /\ \E lo \in {i - 1, i} : Cut(q, r, lo, i)
<1>1. CASE i > 1 /\ q[i - 1].type = "ACTIVATE"
  <2>1. PICK m : m = RemoveAt(q, i)
    OBVIOUS
  <2>2. /\ m \in Seq(Asked) /\ Len(m) = Len(q) - 1
        /\ \A k \in 1 .. Len(q) - 1 : m[k] = IF k < i THEN q[k] ELSE q[k + 1]
    BY <2>1, RemoveFrom
  <2>3. PICK j : j = i - 1
    OBVIOUS
  <2>4. j \in 1 .. Len(m) /\ i = j + 1 /\ j \in Nat
    BY <1>1, <2>2, <2>3
  <2>5. r = RemoveAt(m, j)
    BY <1>1, <2>1, <2>3 DEF Rest
  <2>6. /\ r \in Seq(Asked) /\ Len(r) = Len(m) - 1
        /\ \A k \in 1 .. Len(m) - 1 : r[k] = IF k < j THEN m[k] ELSE m[k + 1]
    BY <2>2, <2>4, <2>5, RemoveFrom
  <2>7. ASSUME NEW k \in 1 .. Len(r) PROVE r[k] = IF k < j THEN q[k] ELSE q[k + (i - j + 1)]
    <3>1. k \in 1 .. Len(m) - 1 /\ k \in 1 .. Len(q) - 1 /\ k + 1 \in 1 .. Len(q) - 1
      BY <2>2, <2>6
    <3>2. CASE k < j
      BY <2>2, <2>4, <2>6, <3>1, <3>2
    <3>3. CASE ~(k < j)
      <4>1. r[k] = m[k + 1] /\ ~(k + 1 < i)
        BY <2>4, <2>6, <3>1, <3>3
      <4>2. m[k + 1] = q[k + 1 + 1]
        BY <2>2, <3>1, <4>1
      <4>3. k + 1 + 1 = k + (i - j + 1)
        BY <2>4, <3>1
      <4> QED BY <3>3, <4>1, <4>2, <4>3
    <3> QED BY <3>2, <3>3
  <2>8. Len(r) = Len(q) - (i - j + 1)
    BY <2>2, <2>4, <2>6
  <2>9. j > 1 => q[j - 1].type # "ACTIVATE"
    <3>1. ASSUME j > 1, q[j - 1].type = "ACTIVATE" PROVE FALSE
      <4>1. j - 1 \in 1 .. Len(q) /\ (j - 1) + 1 = j
        BY <2>2, <2>4, <3>1
      <4>2. q[(j - 1) + 1].type # "ACTIVATE"
        BY <3>1, <4>1 DEF Chain
      <4> QED BY <1>1, <2>3, <4>1, <4>2
    <3> QED BY <3>1
  <2>10. q[j].type = "ACTIVATE" /\ j \in 1 .. Len(q) /\ i \in j .. Len(q)
    BY <1>1, <2>2, <2>3, <2>4
  <2>11. Cut(q, r, j, i)
    BY <2>4, <2>7, <2>8, <2>9, <2>10 DEF Cut
  <2> QED BY <2>3, <2>6, <2>11
<1>2. CASE ~(i > 1 /\ q[i - 1].type = "ACTIVATE")
  <2>1. r = RemoveAt(q, i)
    BY <1>2 DEF Rest
  <2>2. /\ r \in Seq(Asked) /\ Len(r) = Len(q) - 1
        /\ \A k \in 1 .. Len(q) - 1 : r[k] = IF k < i THEN q[k] ELSE q[k + 1]
    BY <2>1, RemoveFrom
  <2>3. i - i + 1 = 1 /\ i \in i .. Len(q)
    OBVIOUS
  <2>4. Cut(q, r, i, i)
    BY <1>2, <2>2, <2>3 DEF Cut
  <2> QED BY <2>2, <2>4
<1> QED BY <1>1, <1>2

\* What is left of a chain is a chain.
LEMMA CutChain ==
  ASSUME NEW q \in Seq(Asked), Chain(q), NEW r \in Seq(Asked), NEW lo, NEW hi, Cut(q, r, lo, hi)
  PROVE  Chain(r)
<1> SUFFICES ASSUME NEW i \in 1 .. Len(r), r[i].type = "ACTIVATE"
             PROVE  i < Len(r) /\ r[i + 1].type # "ACTIVATE" /\ r[i + 1].tag = r[i].tag
  BY DEF Chain
<1>1. /\ lo \in Nat /\ hi \in Nat /\ lo >= 1 /\ lo <= hi /\ hi <= Len(q) /\ (hi = lo \/ hi = lo + 1)
      /\ Len(r) = Len(q) - (hi - lo + 1) /\ Len(q) \in Nat
  BY DEF Cut
<1>2. \A k \in 1 .. Len(r) : r[k] = IF k < lo THEN q[k] ELSE q[k + (hi - lo + 1)]
  BY DEF Cut
<1>3. CASE i < lo
  <2>1. i \in 1 .. Len(q) /\ q[i].type = "ACTIVATE" /\ r[i] = q[i]
    BY <1>1, <1>2, <1>3
  <2>2. q[i + 1].type # "ACTIVATE" /\ q[i + 1].tag = q[i].tag
    BY <2>1 DEF Chain
  <2>3. i # lo - 1
    BY <1>1, <2>1 DEF Cut
  <2>4. i + 1 < lo
    BY <1>1, <1>3, <2>3
  <2>5. i + 1 \in 1 .. Len(r)
    <3>1. Len(r) >= lo - 1
      BY <1>1
    <3> QED BY <1>1, <2>4, <3>1
  <2>6. r[i + 1] = q[i + 1]
    BY <1>2, <2>4, <2>5
  <2> QED BY <2>1, <2>2, <2>5, <2>6
<1>4. CASE ~(i < lo)
  <2>1. PICK j \in 1 .. Len(q) : j = i + (hi - lo + 1)
    BY <1>1, <1>4
  <2>2. r[i] = q[j] /\ q[j].type = "ACTIVATE"
    BY <1>2, <1>4, <2>1
  <2>3. j < Len(q) /\ q[j + 1].type # "ACTIVATE" /\ q[j + 1].tag = q[j].tag
    BY <2>2 DEF Chain
  <2>4. i + 1 \in 1 .. Len(r) /\ ~(i + 1 < lo) /\ (i + 1) + (hi - lo + 1) = j + 1
    BY <1>1, <1>4, <2>1, <2>3
  <2>5. r[i + 1] = q[j + 1]
    BY <1>2, <2>4
  <2> QED BY <2>2, <2>3, <2>4, <2>5
<1> QED BY <1>3, <1>4

LEMMA CmdPopType ==
  ASSUME OPEN_PAGE, NEW s \in VaultSet, Chains(s), s.popped = NoCMD, NEW t, t = CmdPop(s)
  PROVE  t \in VaultSet
<1>0. IsVault(s) /\ VaultHas(s)
  BY VaultSetIs
<1>1. /\ Pops(s, t) /\ FourWindows(s, t)
      /\ t.issuedBank \in Banks /\ t.rowAccess \in [Banks -> Nat]
  BY CmdPopPops
<1>2. t.tFAW \in Seq(Int)
  BY <1>1 DEF FourWindows
<1>3. CASE Same(s, t, {"tFAW", "issuedBank"})
  <2>1. VaultHas(t)
    BY <1>0, <1>1, <1>2, <1>3 DEF VaultHas, Same, Fields
  <2> QED BY <1>3, <2>1, VaultSetIs DEF Same
<1>4. ASSUME NEW b \in Banks, NEW i \in 1 .. Len(s.queue[Q(b)]), PopsAccess(s, t, b, i) PROVE t \in VaultSet
  <2>1. s.queue \in [Queues -> Seq(Asked)] /\ Q(b) \in Queues /\ s.lock \in [Banks -> Tags \cup {NoTag}]
    BY <1>0, QIs DEF VaultHas
  <2>2. PICK q \in Seq(Asked) : q = s.queue[Q(b)]
    BY <2>1
  <2>3. PICK r : r = Rest(q, i)
    OBVIOUS
  <2>4. r \in Seq(Asked)
    BY <2>1, <2>2, <2>3, RestCuts DEF Chains
  <2>5. PICK c \in Asked : c = q[i]
    BY <2>2
  <2>6. Same(s, t, {"tFAW", "issuedBank", "popped", "queue", "lock", "rowAccess"})
        /\ t.popped = c /\ t.queue = [s.queue EXCEPT ![Q(b)] = r]
        /\ t.lock = [s.lock EXCEPT ![b] = Holder(s, b, c)]
    BY <1>4, <2>2, <2>3, <2>5 DEF PopsAccess, Taken
  <2>7. Holder(s, b, c) \in Tags \cup {NoTag}
    BY <2>1, AskedHas DEF Holder
  <2>8. t.popped \in Issued /\ t.queue \in [Queues -> Seq(Asked)] /\ t.lock \in [Banks -> Tags \cup {NoTag}]
    BY <2>1, <2>4, <2>6, <2>7 DEF Issued
  <2>9. VaultHas(t)
    BY <1>0, <1>1, <1>2, <2>6, <2>8 DEF VaultHas, Same, Fields
  <2> QED BY <2>6, <2>9, VaultSetIs DEF Same
<1>5. ASSUME NEW b \in Banks, PopsPrecharge(s, t, b) PROVE t \in VaultSet
  <2>1. Same(s, t, {"tFAW", "issuedBank", "popped", "rowAccess"}) /\ t.popped \in Issued
    BY <1>5 DEF PopsPrecharge, Issued
  <2>2. VaultHas(t)
    BY <1>0, <1>1, <1>2, <2>1 DEF VaultHas, Same, Fields
  <2> QED BY <2>1, <2>2, VaultSetIs DEF Same
<1>6. ASSUME PopsRefresh(s, t) PROVE t \in VaultSet
  <2>1. /\ Same(s, t, {"tFAW", "issuedBank", "popped", "refreshWaiting"}) /\ t.popped \in Issued
        /\ t.refreshWaiting = FALSE
    BY <1>6 DEF PopsRefresh, Issued
  <2>2. t.refreshWaiting \in BOOLEAN
    BY <2>1, Zenon
  <2>3. VaultHas(t)
    BY <1>0, <1>1, <1>2, <2>1, <2>2 DEF VaultHas, Same, Fields
  <2> QED BY <2>1, <2>3, VaultSetIs DEF Same
<1> QED BY <1>1, <1>3, <1>4, <1>5, <1>6 DEF Pops

\* A Cycle, stage by stage.
LEMMA ConvAllType ==
  ASSUME OPEN_PAGE, NEW s \in VaultSet
  PROVE  ConvAll(s) \in VaultSet
<1>1. ASSUME NEW x \in VaultSet, NEW i \in 1 .. Len(x.down) PROVE ConvPacketIntoCMDs(x, i) \in VaultSet
  BY ConvType
<1>2. VaultSet \in SUBSET VaultSet
  OBVIOUS
<1> HIDE DEF VaultSet
<1> QED BY <1>1, <1>2, ConversionsStay

-----------------------------------------------------------------------------
(* A Cycle, stage by stage.                                                *)

\* The crossbar takes the response it is offered.
Sent(s, taken) == IF taken /\ s.up # <<>> THEN [s EXCEPT !.up = Tail(@)] ELSE s

\* s to the vault before CmdPop, and from there to the next Cycle.
Filled(s, taken, due) == Sent(ConvAll(UpdateCountdown(s, due)), taken)
Advanced(s) == Begun(Ended(Clocked(s)))

LEMMA CycleIs ==
  ASSUME NEW taken \in BOOLEAN, NEW due \in BOOLEAN, Cycle(taken, due)
  PROVE  /\ ~vault.error
         /\ vault' = Advanced(EnablePowerdown(AtomicOperation(IssuePopped(CmdPop(Filled(vault, taken, due))))))
         /\ Serve /\ Age
<1>1. ASSUME NEW s PROVE DRAMUpdate(s) = Advanced(s)
  BY DRAMStages DEF Advanced
<1>2. PICK s1 : s1 = ConvAll(UpdateCountdown(vault, due))
  OBVIOUS
<1>3. PICK sent \in BOOLEAN : sent = (taken /\ s1.up # <<>>)
  OBVIOUS
<1>4. vault' = DRAMUpdate(EnablePowerdown(AtomicOperation(IssuePopped(CmdPop(
          IF sent THEN [s1 EXCEPT !.up = Tail(@)] ELSE s1)))))
  BY <1>2, <1>3, Zenon DEF Cycle
<1>5. (IF sent THEN [s1 EXCEPT !.up = Tail(@)] ELSE s1) = Filled(vault, taken, due)
  BY <1>2, <1>3, Zenon DEF Filled, Sent
<1>6. vault' = DRAMUpdate(EnablePowerdown(AtomicOperation(IssuePopped(CmdPop(Filled(vault, taken, due))))))
  BY <1>4, <1>5, Zenon
<1>7. ~vault.error /\ Serve /\ Age
  BY Zenon DEF Cycle
<1> QED BY <1>1, <1>6, <1>7, Zenon

LEMMA CountdownIs ==
  ASSUME NEW s \in VaultSet, s.cmdBus # NoCMD => s.cmdLeft = 1, NEW due \in BOOLEAN,
         s.cmdBus # NoCMD => ReceiveCMD(s.bank, s.cmdBus) \in [Banks -> BankType],
         NEW t, t = UpdateCountdown(s, due)
  PROVE  /\ t \in VaultSet
         /\ Same(s, t, {"cmdBus", "cmdLeft", "bank", "reads", "dataBus", "dataLeft", "writeData", "up",
                        "pendingDataSize", "error", "refreshWaiting", "refreshes"})
         /\ t.cmdBus = NoCMD
         /\ t.bank = IF s.cmdBus = NoCMD THEN s.bank ELSE ReceiveCMD(s.bank, s.cmdBus)
         /\ ~due => t.refreshWaiting = s.refreshWaiting
         /\ s.refreshWaiting => t.refreshWaiting
<1>1. PICK s1 : s1 = CommandOut(s)
  OBVIOUS
<1>2. PICK s2 : s2 = DataOut(s1)
  OBVIOUS
<1>3. PICK s3 : s3 = WriteDataOut(s2)
  OBVIOUS
<1>4. t = Timer(s3, due)
  BY <1>1, <1>2, <1>3, Zenon DEF UpdateCountdown, Timer
<1>5. IsVault(s)
  BY VaultSetIs
<1>6. s1 \in VaultSet
  BY <1>1, CommandOutType
<1>7. s2 \in VaultSet
  BY <1>2, <1>6, DataOutType
<1>8. s3 \in VaultSet
  BY <1>3, <1>7, WriteDataOutType
<1>9. t \in VaultSet
  BY <1>4, <1>8, TimerType
<1>10. /\ Same(s, s1, {"cmdBus", "cmdLeft", "bank", "reads"}) /\ s1.cmdBus = NoCMD
       /\ s1.bank = IF s.cmdBus = NoCMD THEN s.bank ELSE ReceiveCMD(s.bank, s.cmdBus)
  BY <1>1, <1>5, CommandOutFrame
<1>11. Same(s1, s2, {"dataBus", "dataLeft", "up", "pendingDataSize", "error"})
  <2>1. IsVault(s1)
    BY <1>6, VaultSetIs
  <2> QED BY <1>2, <2>1, DataOutFrame
<1>12. Same(s2, s3, {"dataBus", "dataLeft", "writeData", "error"})
  BY <1>3, <1>11, WriteDataOutFrame DEF Same
<1>13. /\ Same(s3, t, {"refreshWaiting", "refreshes"})
       /\ due => t.refreshWaiting = TRUE /\ t.refreshes = s3.refreshes + 1
       /\ ~due => t = s3
  BY <1>4, <1>12, TimerFrame DEF Same
<1>14. Same(s, t, {"cmdBus", "cmdLeft", "bank", "reads", "dataBus", "dataLeft", "writeData", "up",
                   "pendingDataSize", "error", "refreshWaiting", "refreshes"})
  BY <1>10, <1>11, <1>12, <1>13 DEF Same, Fields
<1>15. t.cmdBus = s1.cmdBus /\ t.bank = s1.bank /\ s3.refreshWaiting = s.refreshWaiting
  BY <1>10, <1>11, <1>12, <1>13 DEF Same, Fields
<1>16. (~due => t.refreshWaiting = s.refreshWaiting) /\ (due => t.refreshWaiting)
  BY <1>13, <1>15
<1>17. s.refreshWaiting => t.refreshWaiting
  BY <1>16
<1> QED BY <1>9, <1>10, <1>14, <1>15, <1>16, <1>17

LEMMA SentIs ==
  ASSUME NEW s \in VaultSet, NEW taken \in BOOLEAN, NEW t, t = Sent(s, taken)
  PROVE  t \in VaultSet /\ Same(s, t, {"up"}) /\ (t.up = s.up \/ (s.up # <<>> /\ t.up = Tail(s.up)))
<1>1. IsVault(s) /\ VaultHas(s)
  BY VaultSetIs
<1>2. CASE taken /\ s.up # <<>>
  <2>1. t = [s EXCEPT !.up = Tail(@)]
    BY <1>2 DEF Sent
  <2>2. Same(s, t, {"up"}) /\ t.up = Tail(s.up)
    BY <1>1, <2>1 DEF Same, IsVault, Fields
  <2>3. t.up \in Seq(Response)
    <3>1. s.up \in Seq(Response)
      BY <1>1 DEF VaultHas
    <3> QED BY <1>2, <2>2, <3>1, TailOf
  <2>4. VaultHas(t)
    BY <1>1, <2>2, <2>3 DEF VaultHas, Same, Fields
  <2> QED BY <1>2, <2>2, <2>4, VaultSetIs DEF Same
<1>3. CASE ~(taken /\ s.up # <<>>)
  <2>1. t = s
    BY <1>3 DEF Sent
  <2> QED BY <1>1, <2>1 DEF Same
<1> QED BY <1>2, <1>3

LEMMA AdvancedIs ==
  ASSUME NEW s \in VaultSet, NEW t, t = Advanced(s)
  PROVE  /\ t \in VaultSet
         /\ Same(s, t, {"bank", "fresh", "readData", "readLeft", "reads", "pendingRead", "atomicCMD",
                        "atomicOperLeft", "up", "pendingDataSize", "error"})
         /\ t.bank = Tick(s.bank) /\ t.fresh = {}
<1>1. PICK s1 : s1 = Clocked(s)
  OBVIOUS
<1>2. PICK s2 : s2 = Ended(s1)
  OBVIOUS
<1>3. t = Begun(s2)
  BY <1>1, <1>2 DEF Advanced
<1>4. s1 \in VaultSet
  BY <1>1, ClockedType
<1>5. s2 \in VaultSet
  BY <1>2, <1>4, EndedType
<1>6. t \in VaultSet
  BY <1>3, <1>5, BegunType
<1>7. IsVault(s)
  BY VaultSetIs
<1>8. Same(s, s1, {"bank", "fresh"}) /\ s1.bank = Tick(s.bank) /\ s1.fresh = {}
  BY <1>1, <1>7, ClockedFrame
<1>9. Same(s1, s2, {"readData", "readLeft", "pendingRead", "atomicCMD", "atomicOperLeft", "up",
                    "pendingDataSize", "error"})
  BY <1>2, <1>8, EndedFrame DEF Same
<1>10. Same(s2, t, {"readData", "readLeft", "reads"})
  BY <1>3, <1>9, BegunFrame DEF Same
<1>11. Same(s, t, {"bank", "fresh", "readData", "readLeft", "reads", "pendingRead", "atomicCMD",
                   "atomicOperLeft", "up", "pendingDataSize", "error"})
  BY <1>8, <1>9, <1>10 DEF Same, Fields
<1>12. t.bank = s1.bank /\ t.fresh = s1.fresh
  BY <1>9, <1>10 DEF Same, Fields
<1> QED BY <1>6, <1>8, <1>11, <1>12

-----------------------------------------------------------------------------
(* The commands that are sent, and the banks that sleep.                   *)

\* Command c may be put on the command bus: it arrives a cycle later.
Sendable(bank, age, c) ==
    /\ c.type = "ACTIVATE" =>
           /\ bank[c.bank].state = "IDLE"
           /\ Old(age["ACTIVATE"][c.bank], tRC) /\ Old(age["PRECHARGE"][c.bank], tRP)
           /\ \A b \in Banks : Old(age["ACTIVATE"][b], tRRD)
    /\ c.type \in {"READ", "WRITE"} =>
           /\ bank[c.bank].state = "ROW_ACTIVE" /\ bank[c.bank].row = c.row
           /\ Old(age["ACTIVATE"][c.bank], tRCD - AL)
    /\ c.type = "READ" =>
           \A b \in Banks : /\ Old(age["READ"][b], Later(tCCD, BL))
                            /\ Old(age["WRITE"][b], WRITE_TO_READ_DELAY_B)
    /\ c.type = "WRITE" =>
           \A b \in Banks : /\ Old(age["WRITE"][b], Later(tCCD, BL))
                            /\ Old(age["READ"][b], READ_TO_WRITE_DELAY)
    /\ c.type = "PRECHARGE" =>
           /\ bank[c.bank].state = "ROW_ACTIVE"
           /\ Old(age["ACTIVATE"][c.bank], tRAS) /\ Old(age["READ"][c.bank], READ_TO_PRE_DELAY)
           /\ Old(age["WRITE"][c.bank], WRITE_TO_PRE_DELAY)
    /\ c.type = "REFRESH" =>
           \A b \in Banks : /\ bank[b].state \notin {"ROW_ACTIVE", "PRECHARGING"}
                            /\ Old(age["PRECHARGE"][b], tRP) /\ Old(age["ACTIVATE"][b], tRC)

LEMMA FarEnough ==
  ASSUME OpenPage
  PROVE  /\ tRC \in Int /\ tRC + 1 <= HORIZON /\ tRP \in Int /\ tRP + 1 <= HORIZON
         /\ tRRD \in Int /\ tRRD + 1 <= HORIZON /\ tRAS \in Int /\ tRAS + 1 <= HORIZON
         /\ tRCD - AL \in Int /\ tRCD - AL + 1 <= HORIZON
         /\ Later(tCCD, BL) \in Int /\ Later(tCCD, BL) + 1 <= HORIZON
         /\ WRITE_TO_READ_DELAY_B \in Int /\ WRITE_TO_READ_DELAY_B + 1 <= HORIZON
         /\ READ_TO_WRITE_DELAY \in Int /\ READ_TO_WRITE_DELAY + 1 <= HORIZON
         /\ READ_TO_PRE_DELAY \in Int /\ READ_TO_PRE_DELAY + 1 <= HORIZON
         /\ WRITE_TO_PRE_DELAY \in Int /\ WRITE_TO_PRE_DELAY + 1 <= HORIZON
<1>1. /\ tRC + tCMD <= HORIZON /\ tRAS + tCMD <= HORIZON /\ tRCD + tCMD <= HORIZON
      /\ tRRD + tCMD <= HORIZON /\ tRP + tCMD <= HORIZON /\ tCCD + tCMD <= HORIZON /\ BL + tCMD <= HORIZON
  BY HorizonFar
<1>2. /\ READ_TO_PRE_DELAY + tCMD <= HORIZON /\ WRITE_TO_PRE_DELAY + tCMD <= HORIZON
      /\ READ_TO_WRITE_DELAY + tCMD <= HORIZON /\ WRITE_TO_READ_DELAY_B + tCMD <= HORIZON
  BY HorizonFar
<1>3. tCMD = 1 /\ HORIZON \in Nat
  BY HorizonFar DEF OpenPage
<1>4. Later(tCCD, BL) = tCCD \/ Later(tCCD, BL) = BL
  BY DEF Later
<1>5. /\ tRC + 1 <= HORIZON /\ tRP + 1 <= HORIZON /\ tRRD + 1 <= HORIZON /\ tRAS + 1 <= HORIZON
      /\ tRCD - AL + 1 <= HORIZON
  BY <1>1, <1>3, Times
<1>6. Later(tCCD, BL) + 1 <= HORIZON
  BY <1>1, <1>3, <1>4
<1>7. /\ READ_TO_PRE_DELAY + 1 <= HORIZON /\ WRITE_TO_PRE_DELAY + 1 <= HORIZON
      /\ READ_TO_WRITE_DELAY + 1 <= HORIZON /\ WRITE_TO_READ_DELAY_B + 1 <= HORIZON
  BY <1>2, <1>3
<1>8. /\ tRC \in Int /\ tRP \in Int /\ tRRD \in Int /\ tRAS \in Int /\ tRCD - AL \in Int
  BY Times
<1>9. /\ READ_TO_PRE_DELAY \in Int /\ WRITE_TO_PRE_DELAY \in Int
      /\ READ_TO_WRITE_DELAY \in Int /\ WRITE_TO_READ_DELAY_B \in Int /\ Later(tCCD, BL) \in Int
  BY Delays
<1> QED BY <1>5, <1>6, <1>7, <1>8, <1>9

LEMMA SendableArrives ==
  ASSUME OpenPage, NEW bank, NEW age, Timed(bank, age), NEW c \in Arrival, Sendable(bank, age, c)
  PROVE  Arrives(Tick(bank), Older(age), c)
<1>0. bank \in [Banks -> BankType] /\ age \in Ages /\ c.bank \in Banks
  BY DEF Timed, Arrival
<1> DEFINE new == Tick(bank)
           g == Older(age)
<1>1. g \in Ages /\ \A b \in Banks :
        /\ g["ACTIVATE"][b] = Min({age["ACTIVATE"][b] + 1, HORIZON})
        /\ g["PRECHARGE"][b] = Min({age["PRECHARGE"][b] + 1, HORIZON})
        /\ g["READ"][b] = Min({age["READ"][b] + 1, HORIZON})
        /\ g["WRITE"][b] = Min({age["WRITE"][b] + 1, HORIZON})
  BY <1>0, OlderIs DEF Events
<1>2. new \in [Banks -> BankType] /\ \A b \in Banks : Ticked(new[b], bank[b])
  BY <1>0, TickFields
<1>3. ASSUME NEW b \in Banks
      PROVE  /\ bank[b].state = "IDLE" => new[b].state = "IDLE"
             /\ bank[b].state = "ROW_ACTIVE" => new[b].state = "ROW_ACTIVE"
             /\ bank[b].state \notin {"ROW_ACTIVE", "PRECHARGING"}
                  => new[b].state \notin {"ROW_ACTIVE", "PRECHARGING"}
             /\ new[b].row = bank[b].row
  <2>1. Closing(bank[b], age["ACTIVATE"][b], age["PRECHARGE"][b]) /\ Ticked(new[b], bank[b])
    BY <1>2 DEF Timed
  <2> HIDE DEF new
  <2>2. new[b].state = bank[b].state \/ new[b].state = "IDLE"
    BY <2>1 DEF Ticked
  <2>3. bank[b].state = "ROW_ACTIVE" => bank[b].lastCommand \in {"ACTIVATE", "READ", "WRITE"}
    BY <2>1 DEF Closing
  <2>4. bank[b].state = "ROW_ACTIVE" => new[b].state = "ROW_ACTIVE"
    BY <2>1, <2>3 DEF Ticked
  <2>5. new[b].row = bank[b].row
    BY <2>1 DEF Ticked
  <2> QED BY <2>2, <2>4, <2>5
<1> HIDE DEF new, g
<1>4. ASSUME NEW b \in Banks
      PROVE  /\ age["ACTIVATE"][b] \in 0 .. HORIZON /\ age["PRECHARGE"][b] \in 0 .. HORIZON
             /\ age["READ"][b] \in 0 .. HORIZON /\ age["WRITE"][b] \in 0 .. HORIZON
  BY <1>0, AgesOf
<1>5. CASE c.type = "ACTIVATE"
  <2>1. g["ACTIVATE"][c.bank] >= tRC + 1
    BY <1>0, <1>1, <1>4, <1>5, FarEnough, OldEnough DEF Sendable
  <2>2. g["PRECHARGE"][c.bank] >= tRP + 1
    BY <1>0, <1>1, <1>4, <1>5, FarEnough, OldEnough DEF Sendable
  <2>3. ASSUME NEW b \in Banks PROVE g["ACTIVATE"][b] >= tRRD + 1
    BY <1>1, <1>4, <1>5, FarEnough, OldEnough DEF Sendable
  <2>4. new[c.bank].state = "IDLE"
    BY <1>0, <1>3, <1>5 DEF Sendable
  <2> QED BY <1>5, <2>1, <2>2, <2>3, <2>4 DEF Arrives, new, g
<1>6. c.type \in {"READ", "WRITE"} =>
        /\ new[c.bank].state = "ROW_ACTIVE" /\ new[c.bank].row = c.row
        /\ g["ACTIVATE"][c.bank] >= tRCD - AL + 1
  <2>1. ASSUME c.type \in {"READ", "WRITE"} PROVE g["ACTIVATE"][c.bank] >= tRCD - AL + 1
    <3>1. PICK z \in Int : z = tRCD - AL
      BY FarEnough
    <3>2. Old(age["ACTIVATE"][c.bank], z) /\ z + 1 <= HORIZON
      BY <2>1, <3>1, FarEnough DEF Sendable
    <3>3. g["ACTIVATE"][c.bank] >= z + 1
      BY ZenonT(30), <1>0, <1>1, <1>4, <3>2, OldEnough
    <3> QED BY <3>1, <3>3
  <2>2. ASSUME c.type \in {"READ", "WRITE"} PROVE new[c.bank].state = "ROW_ACTIVE" /\ new[c.bank].row = c.row
    BY <1>0, <1>3, <2>2 DEF Sendable
  <2> QED BY <2>1, <2>2
<1>7. CASE c.type = "READ"
  <2>1. ASSUME NEW b \in Banks PROVE g["READ"][b] >= Later(tCCD, BL) + 1
    <3>1. PICK z \in Int : z = Later(tCCD, BL)
      BY FarEnough
    <3>2. Old(age["READ"][b], z) /\ z + 1 <= HORIZON
      BY <1>7, <3>1, FarEnough DEF Sendable
    <3>3. g["READ"][b] >= z + 1
      BY <1>1, <1>4, <3>2, OldEnough
    <3> QED BY <3>1, <3>3
  <2>2. ASSUME NEW b \in Banks PROVE g["WRITE"][b] >= WRITE_TO_READ_DELAY_B + 1
    BY <1>1, <1>4, <1>7, FarEnough, OldEnough DEF Sendable
  <2> QED BY <1>6, <1>7, <2>1, <2>2 DEF Arrives, new, g
<1>8. CASE c.type = "WRITE"
  <2>1. ASSUME NEW b \in Banks PROVE g["WRITE"][b] >= Later(tCCD, BL) + 1
    <3>1. PICK z \in Int : z = Later(tCCD, BL)
      BY FarEnough
    <3>2. Old(age["WRITE"][b], z) /\ z + 1 <= HORIZON
      BY <1>8, <3>1, FarEnough DEF Sendable
    <3>3. g["WRITE"][b] >= z + 1
      BY <1>1, <1>4, <3>2, OldEnough
    <3> QED BY <3>1, <3>3
  <2>2. ASSUME NEW b \in Banks PROVE g["READ"][b] >= READ_TO_WRITE_DELAY + 1
    BY <1>1, <1>4, <1>8, FarEnough, OldEnough DEF Sendable
  <2> QED BY <1>6, <1>8, <2>1, <2>2 DEF Arrives, new, g
<1>9. CASE c.type = "PRECHARGE"
  <2>1. g["ACTIVATE"][c.bank] >= tRAS + 1
    BY <1>0, <1>1, <1>4, <1>9, FarEnough, OldEnough DEF Sendable
  <2>2. g["READ"][c.bank] >= READ_TO_PRE_DELAY + 1
    BY <1>0, <1>1, <1>4, <1>9, FarEnough, OldEnough DEF Sendable
  <2>3. g["WRITE"][c.bank] >= WRITE_TO_PRE_DELAY + 1
    BY <1>0, <1>1, <1>4, <1>9, FarEnough, OldEnough DEF Sendable
  <2>4. new[c.bank].state = "ROW_ACTIVE"
    BY <1>0, <1>3, <1>9 DEF Sendable
  <2> QED BY <1>9, <2>1, <2>2, <2>3, <2>4 DEF Arrives, new, g
<1>10. CASE c.type = "REFRESH"
  <2>1. ASSUME NEW b \in Banks
        PROVE  /\ new[b].state \notin {"ROW_ACTIVE", "PRECHARGING"}
               /\ g["PRECHARGE"][b] >= tRP + 1 /\ g["ACTIVATE"][b] >= tRC
    <3>1. g["PRECHARGE"][b] >= tRP + 1
      BY <1>1, <1>4, <1>10, FarEnough, OldEnough DEF Sendable
    <3>2. g["ACTIVATE"][b] >= tRC + 1
      BY <1>1, <1>4, <1>10, FarEnough, OldEnough DEF Sendable
    <3>3. new[b].state \notin {"ROW_ACTIVE", "PRECHARGING"}
      BY <1>3, <1>10 DEF Sendable
    <3>4. g["ACTIVATE"][b] \in Int
      BY <1>1, AgesOf
    <3> QED BY <3>1, <3>2, <3>3, <3>4, Times
  <2> QED BY <1>10, <2>1 DEF Arrives, new, g
<1> QED BY <1>5, <1>7, <1>8, <1>9, <1>10 DEF Arrival

-----------------------------------------------------------------------------
\* A command that finds what it waits for may be sent.
LEMMA ReadySendable ==
  ASSUME OpenPage, NEW s, NEW age, Timed(s.bank, age), NEW c \in Asked, Ready(s, c)
  PROVE  Sendable(s.bank, age, c)
<1> DEFINE k == s.bank[c.bank]
<1>0. c.type \in {"ACTIVATE", "READ", "WRITE"} /\ c.bank \in Banks
  BY AskedHas
<1>1. /\ Closing(k, age["ACTIVATE"][c.bank], age["PRECHARGE"][c.bank])
      /\ OwnTimes(k, age["ACTIVATE"][c.bank], age["PRECHARGE"][c.bank], age["READ"][c.bank], age["WRITE"][c.bank])
      /\ \A x \in Banks : /\ x # c.bank => Old(age["ACTIVATE"][x], tRRD - k.nextActivate)
                          /\ SharedTimes(k, age["READ"][x], age["WRITE"][x])
      /\ s.bank \in [Banks -> BankType] /\ age \in Ages
  BY <1>0 DEF Timed
<1>2. BankFields(k)
  BY <1>0, <1>1, BankHas
<1>3. CASE c.type = "ACTIVATE"
  <2>1. k.state \in {"IDLE", "REFRESHING"} /\ k.nextActivate = 0
    BY <1>3, Zenon DEF Ready
  <2> HIDE DEF k
  <2>2. k.state = "IDLE"
    BY <1>1, <1>2, <2>1 DEF Closing, BankFields
  <2>3. Old(age["ACTIVATE"][c.bank], tRC) /\ Old(age["PRECHARGE"][c.bank], tRP)
    BY <1>1, <2>1, Times DEF OwnTimes
  <2>4. ASSUME NEW b \in Banks
        PROVE  Old(age["ACTIVATE"][b], tRRD)
    <3>1. CASE b = c.bank
      <4>1. age["ACTIVATE"][b] \in Nat
        BY <1>1, AgesOf
      <4> QED BY <2>3, <3>1, <4>1, Times DEF Old, OpenPage
    <3>2. CASE b # c.bank
      BY <1>1, <2>1, <3>2, Times
    <3> QED BY <3>1, <3>2
  <2> QED BY <1>3, <2>2, <2>3, <2>4 DEF Sendable, k
<1>4. CASE c.type = "READ"
  <2>1. k.state = "ROW_ACTIVE" /\ k.row = c.row /\ k.nextRead = 0
    BY <1>4, Zenon DEF Ready
  <2> HIDE DEF k
  <2>2. Old(age["ACTIVATE"][c.bank], tRCD - AL)
    BY <1>1, <2>1, Times DEF OwnTimes
  <2>3. \A b \in Banks : /\ Old(age["READ"][b], Later(tCCD, BL))
                         /\ Old(age["WRITE"][b], WRITE_TO_READ_DELAY_B)
    BY <1>1, <2>1, Delays DEF SharedTimes
  <2> QED BY <1>4, <2>1, <2>2, <2>3 DEF Sendable, k
<1>5. CASE c.type = "WRITE"
  <2>1. k.state = "ROW_ACTIVE" /\ k.row = c.row /\ k.nextWrite = 0
    BY <1>5, Zenon DEF Ready
  <2> HIDE DEF k
  <2>2. Old(age["ACTIVATE"][c.bank], tRCD - AL)
    BY <1>1, <2>1, Times DEF OwnTimes
  <2>3. \A b \in Banks : /\ Old(age["WRITE"][b], Later(tCCD, BL))
                         /\ Old(age["READ"][b], READ_TO_WRITE_DELAY)
    BY <1>1, <2>1, Delays DEF SharedTimes
  <2> QED BY <1>5, <2>1, <2>2, <2>3 DEF Sendable, k
<1> QED BY <1>0, <1>3, <1>4, <1>5

LEMMA CloserSendable ==
  ASSUME OpenPage, NEW bank, NEW age, Timed(bank, age), NEW b \in Banks,
         bank[b].state = "ROW_ACTIVE", bank[b].nextPrecharge = 0
  PROVE  Sendable(bank, age, Closer(b))
<1>1. OwnTimes(bank[b], age["ACTIVATE"][b], age["PRECHARGE"][b], age["READ"][b], age["WRITE"][b])
  BY DEF Timed
<1>2. /\ Old(age["ACTIVATE"][b], tRAS) /\ Old(age["READ"][b], READ_TO_PRE_DELAY)
      /\ Old(age["WRITE"][b], WRITE_TO_PRE_DELAY)
  BY <1>1, Times, Delays DEF OwnTimes
<1>3. Closer(b).type = "PRECHARGE" /\ Closer(b).bank = b
  BY CloserHas
<1> QED BY <1>2, <1>3 DEF Sendable

LEMMA RefresherSendable ==
  ASSUME OpenPage, NEW bank, NEW age, Timed(bank, age),
         \A b \in Banks : bank[b].state # "ROW_ACTIVE" /\ bank[b].nextActivate = 0
  PROVE  Sendable(bank, age, Refresher)
<1>1. ASSUME NEW b \in Banks
      PROVE  /\ bank[b].state \notin {"ROW_ACTIVE", "PRECHARGING"}
             /\ Old(age["PRECHARGE"][b], tRP) /\ Old(age["ACTIVATE"][b], tRC)
  <2>1. /\ OwnTimes(bank[b], age["ACTIVATE"][b], age["PRECHARGE"][b], age["READ"][b], age["WRITE"][b])
        /\ Closing(bank[b], age["ACTIVATE"][b], age["PRECHARGE"][b])
        /\ bank \in [Banks -> BankType]
    BY DEF Timed
  <2>2. BankFields(bank[b])
    BY <2>1, BankHas
  <2>3. bank[b].state # "PRECHARGING"
    BY <2>1, <2>2 DEF Closing, BankFields
  <2>4. Old(age["PRECHARGE"][b], tRP)
    BY <2>1, <2>3 DEF Closing
  <2>5. Old(age["ACTIVATE"][b], tRC)
    BY <2>1, Times DEF OwnTimes
  <2> QED BY <2>3, <2>4, <2>5
<1>2. Refresher.type = "REFRESH"
  BY CloserHas
<1> QED BY <1>1, <1>2 DEF Sendable

-----------------------------------------------------------------------------
\* The refresh of banks that sleep.
LEMMA RefreshAsleep ==
  ASSUME OpenPage, NEW bank, NEW age, Timed(bank, age), NEW calm, Asleep(bank, age, calm), NEW any \in BOOLEAN
  PROVE  Asleep(ReceiveCMD(bank, Refresher), Happened(age, Refresher), any)
<1> DEFINE new == Refresh(bank)
           g == Happened(age, Refresher)
<1>1. bank \in [Banks -> BankType] /\ age \in Ages
  BY DEF Timed
<1>2. ReceiveCMD(bank, Refresher) = new
  BY CloserHas DEF ReceiveCMD
<1>3. \A b \in Banks : g["ACTIVATE"][b] = age["ACTIVATE"][b]
  BY <1>1, CloserHas, HappenedIs DEF Events
<1>4. \A b \in Banks : /\ new[b].state = "REFRESHING" /\ new[b].left = tRFC
                       /\ new[b].nextPowerUp = bank[b].nextPowerUp
  BY <1>1, RefreshFields
<1>5. \A b \in Banks : bank[b].nextPowerUp \in Nat
  BY <1>1, BankHas DEF BankFields
<1> HIDE DEF new, g
<1>6. \A b \in Banks : /\ bank[b].nextPowerUp = bank[0].nextPowerUp /\ bank[b].nextPowerUp <= tCKE
                       /\ Old(age["ACTIVATE"][b], tRC - tXP - bank[b].nextPowerUp)
  BY DEF Asleep
<1>7. \A b \in Banks : new[b].nextPowerUp < new[b].left
  BY <1>4, <1>5, <1>6, Times DEF OpenPage
<1>8. 0 \in Banks
  BY BankNumbers
<1> QED BY <1>2, <1>3, <1>4, <1>6, <1>7, <1>8 DEF Asleep, g

\* A command wakes nobody and puts nobody to sleep.
LEMMA ArrivalAwake ==
  ASSUME NEW bank \in [Banks -> BankType], NEW c \in Arrival, NEW b \in Banks,
         bank[b].state # "POWERDOWN"
  PROVE  ReceiveCMD(bank, c)[b].state # "POWERDOWN"
<1>1. CASE c.type = "ACTIVATE"
  <2>1. ReceiveCMD(bank, c) = Activate(bank, c)
    BY <1>1 DEF ReceiveCMD
  <2> QED BY <2>1, <1>1, ActivateFields DEF Unmoved
<1>2. CASE c.type \in {"READ", "WRITE"}
  <2>1. Accessed(ReceiveCMD(bank, c)[b], bank[b], c, b)
    BY <1>2, ColumnFields
  <2> QED BY <2>1 DEF Accessed
<1>3. CASE c.type = "PRECHARGE"
  <2>1. ReceiveCMD(bank, c) = Precharge(bank, c)
    BY <1>3 DEF ReceiveCMD
  <2>2. c.bank \in Banks /\ bank[b] \in BankType
    BY DEF Arrival
  <2> QED BY <2>1, <2>2 DEF Precharge, BankType
<1>4. CASE c.type = "REFRESH"
  <2>1. ReceiveCMD(bank, c) = Refresh(bank)
    BY <1>4 DEF ReceiveCMD
  <2> QED BY <2>1, RefreshFields
<1> QED BY <1>1, <1>2, <1>3, <1>4 DEF Arrival

LEMMA TickAsleep ==
  ASSUME OpenPage, NEW bank, NEW age, Timed(bank, age), Asleep(bank, age, FALSE), NEW calm \in BOOLEAN,
         calm \/ bank[0].nextPowerUp > 0
  PROVE  Asleep(Tick(bank), Older(age), calm)
<1> DEFINE new == Tick(bank)
           g == Older(age)
<1>1. bank \in [Banks -> BankType] /\ age \in Ages /\ 0 \in Banks
  BY BankNumbers DEF Timed
<1>2. \A b \in Banks : g["ACTIVATE"][b] = Min({age["ACTIVATE"][b] + 1, HORIZON})
  BY <1>1, OlderIs DEF Events
<1>3. \A b \in Banks : Ticked(new[b], bank[b])
  BY <1>1, TickFields
<1>4. \A b \in Banks : BankFields(bank[b]) /\ Closing(bank[b], age["ACTIVATE"][b], age["PRECHARGE"][b])
                       /\ age["ACTIVATE"][b] \in 0 .. HORIZON
  BY <1>1, BankHas, AgesOf DEF Timed, Ages, Events
<1> HIDE DEF new, g
<1>5. \A b \in Banks : /\ bank[b].nextPowerUp = bank[0].nextPowerUp /\ bank[b].nextPowerUp <= tCKE
                       /\ Old(age["ACTIVATE"][b], tRC - tXP - bank[b].nextPowerUp)
  BY DEF Asleep
<1>6. ASSUME NEW b \in Banks
      PROVE  /\ new[b].nextPowerUp = new[0].nextPowerUp /\ new[b].nextPowerUp <= tCKE
             /\ Old(g["ACTIVATE"][b], tRC - tXP - new[b].nextPowerUp)
  <2>1. PICK n : n = bank[b].nextPowerUp
    OBVIOUS
  <2>2. n \in Nat /\ n = bank[0].nextPowerUp /\ n <= tCKE
    BY <1>4, <1>5, <2>1 DEF BankFields
  <2>3. new[b].nextPowerUp = Later(n - 1, 0) /\ new[0].nextPowerUp = Later(n - 1, 0)
    BY <1>1, <1>3, <2>1, <2>2 DEF Ticked
  <2>4. Later(n - 1, 0) <= tCKE
    BY <2>2, Times DEF Later
  <2>5. tRC - tXP \in Int /\ Old(age["ACTIVATE"][b], (tRC - tXP) - n)
    BY <1>5, <2>1, Times
  <2>6. Old(g["ACTIVATE"][b], (tRC - tXP) - Later(n - 1, 0))
    <3>1. PICK x, m : x = age["ACTIVATE"][b] /\ m = tRC - tXP
      OBVIOUS
    <3>2. Old(Min({x + 1, HORIZON}), m - Later(n - 1, 0))
      BY <1>4, <2>2, <2>5, <3>1, OldAges
    <3> QED BY <1>2, <3>1, <3>2
  <2> QED BY <2>3, <2>4, <2>6
<1>7. CASE \A b \in Banks : bank[b].state = "POWERDOWN"
  <2>1. \A b \in Banks : new[b].state = "POWERDOWN"
    BY <1>3, <1>4, <1>7 DEF Ticked, Closing
  <2> QED BY <1>6, <2>1 DEF Asleep, new, g
<1>8. CASE \A b \in Banks : /\ bank[b].state = "REFRESHING" /\ bank[b].nextPowerUp < bank[b].left
                            /\ bank[b].left = bank[0].left
  <2>0. \A b \in Banks : /\ bank[b].lastCommand = "REFRESH" /\ bank[b].left \in Nat
                         /\ bank[b].nextPowerUp \in Nat
    BY <1>4, <1>8 DEF Closing, BankFields
  <2>1. CASE bank[0].left = 1
    <3>1. bank[0].nextPowerUp = 0 /\ calm
      BY <1>1, <1>8, <2>0, <2>1
    <3>2. ASSUME NEW b \in Banks
          PROVE  new[b].state = "IDLE" /\ new[b].nextPowerUp = 0
      <4>1. bank[b].left = 1 /\ bank[b].nextPowerUp = 0
        BY <1>5, <1>8, <2>1, <3>1
      <4> QED BY <1>3, <2>0, <4>1 DEF Ticked, Later
    <3> QED BY <1>6, <3>1, <3>2 DEF Asleep, new, g
  <2>2. CASE bank[0].left # 1
    <3>1. ASSUME NEW b \in Banks
          PROVE  /\ new[b].state = "REFRESHING" /\ new[b].nextPowerUp < new[b].left
                 /\ new[b].left = new[0].left
      <4>1. Ticked(new[b], bank[b]) /\ Ticked(new[0], bank[0])
        BY <1>1, <1>3
      <4>2. PICK k : k = bank[b].left
        OBVIOUS
      <4>3. k \in Nat /\ k # 1 /\ k = bank[0].left /\ bank[b].nextPowerUp < k /\ bank[b].nextPowerUp \in Nat
            /\ bank[b].state = "REFRESHING"
        BY <1>8, <2>0, <2>2, <4>2
      <4> QED BY <4>1, <4>2, <4>3 DEF Ticked, Later
    <3> QED BY <1>6, <3>1 DEF Asleep, new, g
  <2> QED BY <2>1, <2>2
<1>9. CASE FALSE /\ \A b \in Banks : bank[b].state = "IDLE" /\ bank[b].nextPowerUp = 0
  BY <1>9
<1> QED BY <1>7, <1>8, <1>9 DEF Asleep

\* Who is awake stays awake.
LEMMA TickAwake ==
  ASSUME NEW bank \in [Banks -> BankType], NEW b \in Banks, bank[b].state # "POWERDOWN"
  PROVE  Tick(bank)[b].state # "POWERDOWN"
BY TickFields DEF Ticked

\* An open row stays open.
LEMMA TickOpen ==
  ASSUME NEW bank, NEW age, Timed(bank, age), NEW b \in Banks, bank[b].state = "ROW_ACTIVE"
  PROVE  Tick(bank)[b].state = "ROW_ACTIVE" /\ Tick(bank)[b].row = bank[b].row
<1>1. bank \in [Banks -> BankType] /\ Closing(bank[b], age["ACTIVATE"][b], age["PRECHARGE"][b])
  BY DEF Timed
<1> QED BY <1>1, TickFields DEF Ticked, Closing

-----------------------------------------------------------------------------
(* The commands that reach DRAM: the invariant, and what each stage of a   *)
(* Cycle makes of it.                                                      *)

\* A queue holds the commands of its bank, each ACTIVATE with an access behind it.
Orderly(s) ==
    Chains(s) /\ \A b \in Banks : \A i \in 1 .. Len(s.queue[b]) : s.queue[b][i].bank = b

\* The row of the atomic that holds a lock is open, or its ACTIVATE is under way.
LockRow(s, cmd) ==
    \A b \in Banks : s.lock[b] # NoTag =>
        \/ cmd.type = "ACTIVATE" /\ cmd.tag = s.lock[b] /\ cmd.bank = b
        \/ s.bank[b].state = "ROW_ACTIVE" /\ s.bank[b].row = Requests[s.lock[b]].row
\* What closes rows finds no lock.
LockFree(s, cmd) ==
    /\ cmd.type = "PRECHARGE" => s.lock[cmd.bank] = NoTag
    /\ cmd.type = "REFRESH" => \A b \in Banks : s.lock[b] = NoTag

\* What the parts share.
Common(s, age) ==
    /\ s \in VaultSet /\ s.popped = NoCMD /\ Orderly(s) /\ Timed(s.bank, age)
    /\ (s.powerDown => USE_LOW_POWER) /\ Len(s.tFAW) <= 4
\* The command on the bus, whose time has come by the next Cycle.
OnBus(s) ==
    /\ s.cmdBus # NoCMD => s.cmdLeft = 1
    /\ s.powerDown => s.cmdBus \in {NoCMD, Refresher}
    /\ LockRow(s, s.cmdBus) /\ LockFree(s, s.cmdBus)

\* Between two Cycles.
Base(s, age) ==
    /\ Common(s, age) /\ OnBus(s) /\ s.fresh = {}
    /\ Power(s.bank, age, s.powerDown, AtRest(s))
    /\ s.cmdBus # NoCMD => Arrives(s.bank, age, s.cmdBus)
\* Before CmdPop.
Mid(s, age, calm) ==
    /\ Common(s, age) /\ s.cmdBus = NoCMD /\ LockRow(s, NoCMD)
    /\ Power(s.bank, age, s.powerDown, calm)
    /\ calm => \A q \in Queues : s.queue[q] # <<>> => q \in s.fresh
\* After it.
Popped(s, age, calm) ==
    /\ s \in VaultSet /\ Orderly(s) /\ Timed(s.bank, age) /\ (s.powerDown => USE_LOW_POWER)
    /\ Len(s.tFAW) <= 4 /\ s.cmdBus = NoCMD
    /\ LockRow(s, s.popped) /\ LockFree(s, s.popped) /\ Sendable(s.bank, age, s.popped)
    /\ s.powerDown => s.popped \in {NoCMD, Refresher}
    /\ s.popped.type = "ACTIVATE" => s.queue[s.popped.bank] # <<>>
    /\ Power(s.bank, age, s.powerDown, calm)
\* With the command on the bus.
Sending(s, age, calm) ==
    /\ Common(s, age) /\ OnBus(s) /\ Sendable(s.bank, age, s.cmdBus)
    /\ s.cmdBus.type = "ACTIVATE" => s.queue[s.cmdBus.bank] # <<>>
    /\ Power(s.bank, age, s.powerDown, calm)
\* After EnablePowerdown.
Settled(s, age) ==
    /\ Common(s, age) /\ OnBus(s) /\ Sendable(s.bank, age, s.cmdBus)
    /\ IF s.powerDown
       THEN Asleep(s.bank, age, FALSE) /\ (AtRest(s) \/ s.bank[0].nextPowerUp > 0)
       ELSE \A b \in Banks : s.bank[b].state # "POWERDOWN"

LEMMA OpenPageIs ==
  ASSUME OpenPage
  PROVE  /\ OPEN_PAGE /\ QUE_PER_BANK /\ tCMD = 1 /\ Queues = Banks
         /\ \A b \in Banks : Q(b) = b
<1>1. OPEN_PAGE /\ QUE_PER_BANK /\ tCMD = 1
  BY DEF OpenPage
<1>2. \A b : Q(b) = b
  BY <1>1 DEF Q
<1> QED BY <1>1, <1>2 DEF Queues

\* What the invariant says does not depend on the rest of the state.
LEMMA CommonFrame ==
  ASSUME NEW s, NEW age, NEW t, Common(s, age), t \in VaultSet,
         t.popped = s.popped, t.queue = s.queue, t.bank = s.bank, t.powerDown = s.powerDown, t.tFAW = s.tFAW
  PROVE  Common(t, age)
BY DEF Common, Orderly, Chains

\* The command on the bus arrives.
LEMMA ArrivalMid ==
  ASSUME OpenPage, NEW s, NEW age, Base(s, age), NEW due \in BOOLEAN, NEW t, t = UpdateCountdown(s, due)
  PROVE  /\ \A calm \in BOOLEAN : AtRest(s) = calm =>
              Mid(t, IF s.cmdBus = NoCMD THEN age ELSE Happened(age, s.cmdBus), calm)
<1> DEFINE c == s.cmdBus
           g == IF s.cmdBus = NoCMD THEN age ELSE Happened(age, s.cmdBus)
<1>1. /\ s \in VaultSet /\ s.popped = NoCMD /\ Orderly(s) /\ Timed(s.bank, age) /\ s.fresh = {}
      /\ (s.powerDown => USE_LOW_POWER) /\ Len(s.tFAW) <= 4 /\ (c # NoCMD => s.cmdLeft = 1)
      /\ (s.powerDown => c \in {NoCMD, Refresher}) /\ LockRow(s, c) /\ LockFree(s, c)
      /\ Power(s.bank, age, s.powerDown, AtRest(s)) /\ (c # NoCMD => Arrives(s.bank, age, c))
  BY DEF Base, Common, OnBus
<1>2. c \in Issued /\ s.bank \in [Banks -> BankType] /\ s.lock \in [Banks -> Tags \cup {NoTag}]
      /\ age \in Ages /\ s.powerDown \in BOOLEAN
  BY <1>1, VaultSetIs DEF VaultHas, Timed
<1>3. c # NoCMD => c \in Arrival /\ c.type # "NONE"
  BY <1>2, IssuedHas
<1>4. c # NoCMD => Timed(ReceiveCMD(s.bank, c), Happened(age, c))
  BY <1>1, <1>3, ArrivalKeeps
<1>5. c # NoCMD => ReceiveCMD(s.bank, c) \in [Banks -> BankType]
  BY <1>4 DEF Timed
<1>6. /\ t \in VaultSet
      /\ Same(s, t, {"cmdBus", "cmdLeft", "bank", "reads", "dataBus", "dataLeft", "writeData", "up",
                     "pendingDataSize", "error", "refreshWaiting", "refreshes"})
      /\ t.cmdBus = NoCMD
      /\ t.bank = IF s.cmdBus = NoCMD THEN s.bank ELSE ReceiveCMD(s.bank, s.cmdBus)
  BY <1>1, <1>5, CountdownIs
<1>7. /\ t.popped = NoCMD /\ t.queue = s.queue /\ t.lock = s.lock /\ t.powerDown = s.powerDown
      /\ t.tFAW = s.tFAW /\ t.fresh = {}
  BY <1>1, <1>6 DEF Same, Fields
<1>8. Timed(t.bank, g)
  BY <1>1, <1>4, <1>6
<1>9. Common(t, g)
  BY <1>1, <1>6, <1>7, <1>8 DEF Common, Orderly, Chains
<1>10. LockRow(t, NoCMD)
  <2>1. ASSUME NEW b \in Banks, s.lock[b] # NoTag
        PROVE  t.bank[b].state = "ROW_ACTIVE" /\ t.bank[b].row = Requests[s.lock[b]].row
    <3>0. \/ c.type = "ACTIVATE" /\ c.tag = s.lock[b] /\ c.bank = b
          \/ s.bank[b].state = "ROW_ACTIVE" /\ s.bank[b].row = Requests[s.lock[b]].row
      BY <1>1, <2>1 DEF LockRow
    <3>1. CASE c = NoCMD
      BY <1>6, <3>0, <3>1, CloserHas
    <3>2. CASE c.type = "ACTIVATE"
      <4>0. c # NoCMD /\ c \in Asked
        BY <1>2, <3>2, CloserHas, IssuedHas
      <4>1. t.bank = Activate(s.bank, c)
        BY <1>6, <3>2, <4>0 DEF ReceiveCMD
      <4>2. CASE b = c.bank
        <5>1. t.bank[b].state = "ROW_ACTIVE" /\ t.bank[b].row = c.row
          BY <1>2, <1>3, <4>0, <4>1, <4>2, <3>2, ActivateFields
        <5>2. s.bank[b].state = "IDLE"
          BY <1>1, <3>2, <4>0, <4>2 DEF Arrives
        <5>3. c.tag = s.lock[b]
          BY <3>0, <5>2
        <5> QED BY <4>0, <5>1, <5>3, AskedHas
      <4>3. CASE b # c.bank
        <5>1. Unmoved(t.bank[b], s.bank[b])
          BY <1>2, <1>3, <4>0, <4>1, <4>3, <3>2, ActivateFields
        <5> QED BY <3>0, <4>3, <5>1 DEF Unmoved
      <4> QED BY <4>2, <4>3
    <3>3. CASE c.type \in {"READ", "WRITE"}
      <4>0. c # NoCMD /\ c \in Arrival
        BY <1>3, <3>3, CloserHas
      <4>1. Accessed(ReceiveCMD(s.bank, c)[b], s.bank[b], c, b)
        BY <1>2, <3>3, <4>0, ColumnFields
      <4> QED BY <1>6, <3>0, <3>3, <4>0, <4>1 DEF Accessed
    <3>4. CASE c.type = "PRECHARGE"
      <4>0. c # NoCMD /\ b # c.bank
        BY <1>1, <2>1, <3>4, CloserHas DEF LockFree
      <4>1. t.bank = Precharge(s.bank, c)
        BY <1>6, <3>4, <4>0 DEF ReceiveCMD
      <4> QED BY <3>0, <3>4, <4>0, <4>1 DEF Precharge
    <3>5. CASE c.type = "REFRESH"
      BY <1>1, <2>1, <3>5 DEF LockFree
    <3> QED BY <1>2, <3>1, <3>2, <3>3, <3>4, <3>5, IssuedHas
  <2> QED BY <1>7, <2>1 DEF LockRow
<1>11. ASSUME NEW calm \in BOOLEAN, AtRest(s) = calm
       PROVE  Power(t.bank, g, t.powerDown, calm)
  <2>1. CASE s.powerDown
    <3>1. Asleep(s.bank, age, calm)
      BY <1>1, <1>11, <2>1 DEF Power
    <3>2. CASE c = NoCMD
      BY <1>6, <1>7, <2>1, <3>1, <3>2 DEF Power
    <3>3. CASE c = Refresher /\ c # NoCMD
      <4>1. Asleep(ReceiveCMD(s.bank, c), Happened(age, c), calm)
        BY <1>1, <3>1, <3>3, RefreshAsleep
      <4> QED BY <1>6, <1>7, <2>1, <3>3, <4>1 DEF Power
    <3> QED BY <1>1, <2>1, <3>2, <3>3
  <2>2. CASE ~s.powerDown
    <3>1. \A b \in Banks : s.bank[b].state # "POWERDOWN"
      BY <1>1, <2>2 DEF Power
    <3>2. \A b \in Banks : t.bank[b].state # "POWERDOWN"
      BY <1>2, <1>3, <1>6, <3>1, ArrivalAwake
    <3> QED BY <1>7, <2>2, <3>2 DEF Power
  <2> QED BY <2>1, <2>2
<1>12. ASSUME NEW calm \in BOOLEAN, AtRest(s) = calm, calm
       PROVE  \A q \in Queues : t.queue[q] = <<>>
  BY <1>7, <1>12 DEF AtRest, IsEmpty
<1>13. t.cmdBus = NoCMD
  BY <1>6
<1> HIDE DEF g, c
<1> QED BY <1>9, <1>10, <1>11, <1>12, <1>13 DEF Mid, g

-----------------------------------------------------------------------------
LEMMA ConcatIs ==
  ASSUME NEW S, NEW p \in Seq(S), NEW q \in Seq(S)
  PROVE  /\ p \o q \in Seq(S) /\ Len(p \o q) = Len(p) + Len(q)
         /\ \A i \in 1 .. Len(p) + Len(q) : (p \o q)[i] = IF i <= Len(p) THEN p[i] ELSE q[i - Len(p)]
OBVIOUS

LEMMA JoinChain ==
  ASSUME NEW p \in Seq(Asked), Chain(p), NEW q \in Seq(Asked), Chain(q)
  PROVE  Chain(p \o q)
<1> DEFINE n == Len(p)
           r == p \o q
<1>1. /\ n \in Nat /\ Len(q) \in Nat /\ Len(r) = n + Len(q)
      /\ \A i \in 1 .. n + Len(q) : r[i] = IF i <= n THEN p[i] ELSE q[i - n]
  BY ConcatIs
<1> HIDE DEF n, r
<1>2. ASSUME NEW i \in 1 .. Len(r), r[i].type = "ACTIVATE"
      PROVE  i < Len(r) /\ r[i + 1].type # "ACTIVATE" /\ r[i + 1].tag = r[i].tag
  <2>1. CASE i <= n
    <3>1. r[i] = p[i] /\ i \in 1 .. n
      BY <1>1, <2>1
    <3>2. i < n /\ p[i + 1].type # "ACTIVATE" /\ p[i + 1].tag = p[i].tag
      BY <1>2, <3>1 DEF Chain, n
    <3>3. r[i + 1] = p[i + 1]
      BY <1>1, <3>2
    <3> QED BY <1>1, <3>1, <3>2, <3>3
  <2>2. CASE i > n
    <3>0. PICK j : j = i - n
      OBVIOUS
    <3>1. r[i] = q[j] /\ j \in 1 .. Len(q)
      BY <1>1, <2>2, <3>0
    <3>2. j < Len(q) /\ q[j + 1].type # "ACTIVATE" /\ q[j + 1].tag = q[j].tag
      BY <1>2, <3>1 DEF Chain
    <3>3. r[i + 1] = q[j + 1]
      <4>1. i + 1 \in 1 .. n + Len(q) /\ ~(i + 1 <= n) /\ i + 1 - n = j + 1
        BY <1>1, <2>2, <3>0, <3>2
      <4> QED BY <1>1, <4>1
    <3> QED BY <1>1, <3>0, <3>1, <3>2, <3>3
  <2> QED BY <1>1, <2>1, <2>2
<1>3. Chain(r)
  BY <1>2 DEF Chain
<1> QED BY <1>3 DEF r

\* A request's commands: a chain, for its bank.
LEMMA CommandsChain ==
  ASSUME OPEN_PAGE, NEW tag \in Tags, NEW q, q = Commands(tag)
  PROVE  /\ q \in Seq(Asked) /\ Chain(q) /\ \A i \in 1 .. Len(q) : q[i].bank = Requests[tag].bank
<1>1. /\ q \in Seq(Asked) /\ Len(q) = Requests[tag].cmds + 1 /\ q[1].type = "ACTIVATE"
      /\ \A i \in 1 .. Len(q) : q[i].tag = tag
      /\ \A i \in 2 .. Len(q) : q[i].type = IF Requests[tag].op = "WR" THEN "WRITE" ELSE "READ"
  BY CommandsIs
<1>2. Requests[tag].cmds \in Nat \ {0}
  BY RequestHas
<1>3. ASSUME NEW i \in 1 .. Len(q), q[i].type = "ACTIVATE"
      PROVE  i < Len(q) /\ q[i + 1].type # "ACTIVATE" /\ q[i + 1].tag = q[i].tag
  <2>1. i = 1
    BY <1>1, <1>2, <1>3
  <2> QED BY <1>1, <1>2, <2>1
<1>4. ASSUME NEW i \in 1 .. Len(q)
      PROVE  q[i].bank = Requests[tag].bank
  <2>1. q[i] \in Asked /\ q[i].tag = tag
    BY <1>1
  <2> QED BY <2>1, AskedHas
<1> QED BY <1>1, <1>3, <1>4 DEF Chain

LEMMA ConvKeepsMid ==
  ASSUME OpenPage, NEW s, NEW age, NEW calm \in BOOLEAN, Mid(s, age, calm),
         NEW i \in 1 .. Len(s.down), NEW t, t = ConvPacketIntoCMDs(s, i)
  PROVE  Mid(t, age, calm)
<1>0. OPEN_PAGE /\ Queues = Banks /\ (\A b \in Banks : Q(b) = b)
  BY OpenPageIs
<1>1. s \in VaultSet /\ s.popped = NoCMD /\ Orderly(s)
  BY DEF Mid, Common
<1>2. IsVault(s) /\ VaultHas(s)
  BY <1>1, VaultSetIs
<1>3. PICK tag : tag = s.down[i]
  OBVIOUS
<1>4. PICK b : b = Requests[tag].bank
  OBVIOUS
<1>5. tag \in Tags /\ b \in Banks
  BY <1>2, <1>3, <1>4, RequestHas DEF VaultHas
<1>6. Converts(s, t, i, tag, b)
  BY <1>2, <1>3, <1>4, ConvFrame
<1>7. t \in VaultSet
  BY <1>0, <1>1, ConvType
<1>8. PICK new : new = Commands(tag)
  OBVIOUS
<1>9. new \in Seq(Asked) /\ Chain(new) /\ \A j \in 1 .. Len(new) : new[j].bank = b
  BY <1>0, <1>4, <1>5, <1>8, CommandsChain
<1>10. /\ Same(s, t, {"queue", "fresh", "down", "converted", "pendingRead"})
       /\ t.queue = [s.queue EXCEPT ![b] = s.queue[b] \o new]
       /\ t.fresh = IF s.queue[b] = <<>> THEN s.fresh \cup {b} ELSE s.fresh
  BY <1>0, <1>5, <1>6, <1>8 DEF Converts
<1>11. s.queue \in [Banks -> Seq(Asked)]
  BY <1>0, <1>2 DEF VaultHas
<1>12. ASSUME NEW q \in Banks
       PROVE  Chain(t.queue[q]) /\ \A j \in 1 .. Len(t.queue[q]) : t.queue[q][j].bank = q
  <2>1. Chain(s.queue[q]) /\ \A j \in 1 .. Len(s.queue[q]) : s.queue[q][j].bank = q
    BY <1>0, <1>1 DEF Orderly, Chains
  <2>2. CASE q # b
    BY <1>10, <1>11, <2>1, <2>2
  <2>3. CASE q = b
    <3>1. PICK p : p = s.queue[q]
      OBVIOUS
    <3>2. p \in Seq(Asked) /\ t.queue[q] = p \o new
      BY <1>10, <1>11, <2>3, <3>1
    <3>3. Chain(p \o new)
      BY <1>9, <2>1, <3>1, <3>2, JoinChain
    <3>4. \A j \in 1 .. Len(p \o new) : (p \o new)[j].bank = q
      <4>1. /\ Len(p) \in Nat /\ Len(new) \in Nat /\ Len(p \o new) = Len(p) + Len(new)
            /\ \A j \in 1 .. Len(p) + Len(new) : (p \o new)[j] = IF j <= Len(p) THEN p[j] ELSE new[j - Len(p)]
        BY <1>9, <3>2, ConcatIs
      <4> QED BY <1>9, <2>1, <2>3, <3>1, <4>1
    <3> QED BY <3>2, <3>3, <3>4
  <2> QED BY <2>2, <2>3
<1>13. Orderly(t)
  BY <1>0, <1>12 DEF Orderly, Chains
<1>14. /\ t.popped = s.popped /\ t.bank = s.bank /\ t.powerDown = s.powerDown /\ t.tFAW = s.tFAW
       /\ t.lock = s.lock /\ t.cmdBus = s.cmdBus
  BY <1>10 DEF Same, Fields
<1>15. calm => \A q \in Queues : t.queue[q] # <<>> => q \in t.fresh
  BY <1>0, <1>10, <1>11 DEF Mid
<1> QED BY <1>7, <1>13, <1>14, <1>15 DEF Mid, Common, LockRow

LEMMA FilledMid ==
  ASSUME OpenPage, NEW s, NEW age, Base(s, age), NEW taken \in BOOLEAN, NEW due \in BOOLEAN,
         NEW t, t = Filled(s, taken, due), NEW calm \in BOOLEAN, calm = AtRest(s)
  PROVE  Mid(t, IF s.cmdBus = NoCMD THEN age ELSE Happened(age, s.cmdBus), calm)
<1>1. PICK g : g = IF s.cmdBus = NoCMD THEN age ELSE Happened(age, s.cmdBus)
  OBVIOUS
<1>2. PICK s1 : s1 = UpdateCountdown(s, due)
  OBVIOUS
<1>3. Mid(s1, g, calm)
  BY <1>1, <1>2, ArrivalMid
<1>4. PICK s2 : s2 = ConvAll(s1)
  OBVIOUS
<1>5. Mid(s2, g, calm) /\ s2 \in VaultSet
  <2> DEFINE S == {x \in VaultSet : Mid(x, g, calm)}
  <2>1. s1 \in S
    BY <1>3 DEF Mid, Common
  <2>2. ASSUME NEW x \in S, NEW i \in 1 .. Len(x.down)
        PROVE  ConvPacketIntoCMDs(x, i) \in S
    <3>1. Mid(x, g, calm)
      OBVIOUS
    <3>2. PICK y : y = ConvPacketIntoCMDs(x, i)
      OBVIOUS
    <3>3. Mid(y, g, calm)
      BY <3>1, <3>2, ConvKeepsMid
    <3>4. y \in VaultSet
      BY <3>3 DEF Mid, Common
    <3> QED BY <3>2, <3>3, <3>4
  <2>3. S \in SUBSET VaultSet
    OBVIOUS
  <2> HIDE DEF S
  <2>4. ConvAll(s1) \in S
    BY <2>1, <2>2, <2>3, ConversionsStay
  <2> QED BY <1>4, <2>4 DEF S
<1>6. t = Sent(s2, taken)
  BY <1>2, <1>4 DEF Filled
<1>7. t \in VaultSet /\ Same(s2, t, {"up"})
  BY <1>5, <1>6, SentIs
<1>8. /\ t.popped = s2.popped /\ t.bank = s2.bank /\ t.powerDown = s2.powerDown /\ t.tFAW = s2.tFAW
      /\ t.lock = s2.lock /\ t.cmdBus = s2.cmdBus /\ t.queue = s2.queue /\ t.fresh = s2.fresh
  BY <1>7 DEF Same, Fields
<1> QED BY <1>1, <1>5, <1>7, <1>8, CommonFrame DEF Mid, LockRow

-----------------------------------------------------------------------------
LEMMA SleepersClosed ==
  ASSUME NEW s, NEW age, NEW calm, Power(s.bank, age, s.powerDown, calm), s.powerDown, NEW b \in Banks
  PROVE  s.bank[b].state # "ROW_ACTIVE" /\ (s.bank[b].state = "IDLE" => calm)
<1>1. Asleep(s.bank, age, calm)
  BY DEF Power
<1> QED BY <1>1 DEF Asleep

\* What is left of the queue when a command was taken.
LEMMA CutQueue ==
  ASSUME NEW q \in Seq(Asked), Chain(q), NEW i \in 1 .. Len(q), NEW r, r = Rest(q, i), NEW b,
         \A j \in 1 .. Len(q) : q[j].bank = b
  PROVE  /\ r \in Seq(Asked) /\ Chain(r) /\ \A j \in 1 .. Len(r) : r[j].bank = b
         /\ q[i].type = "ACTIVATE" => r # <<>>
<1>1. r \in Seq(Asked) /\ \E lo \in {i - 1, i} : Cut(q, r, lo, i)
  BY RestCuts
<1>2. PICK lo \in {i - 1, i} : Cut(q, r, lo, i)
  BY <1>1
<1>3. Chain(r)
  BY <1>1, <1>2, CutChain
<1>4. \A j \in 1 .. Len(r) : r[j].bank = b
  BY <1>2 DEF Cut
<1>5. ASSUME q[i].type = "ACTIVATE"
      PROVE  r # <<>>
  <2>1. i < Len(q) /\ Len(q) \in Nat
    BY <1>5 DEF Chain
  <2>2. lo = i
    <3>1. CASE lo = i - 1
      <4>1. q[lo].type = "ACTIVATE" /\ lo \in 1 .. Len(q) /\ lo < i
        BY <1>2, <3>1 DEF Cut
      <4>2. q[lo + 1].type # "ACTIVATE"
        BY <4>1 DEF Chain
      <4> QED BY <1>5, <3>1, <4>1, <4>2
    <3> QED BY <3>1
  <2>3. Len(r) = Len(q) - 1
    BY <1>2, <2>1, <2>2 DEF Cut
  <2> QED BY <2>1, <2>3
<1> QED BY <1>1, <1>3, <1>4, <1>5

LEMMA PopKeeps ==
  ASSUME OpenPage, NEW s, NEW age, NEW calm \in BOOLEAN, Mid(s, age, calm), NEW t, t = CmdPop(s)
  PROVE  Popped(t, age, calm)
<1>0. OPEN_PAGE /\ Queues = Banks /\ (\A b \in Banks : Q(b) = b)
  BY OpenPageIs
<1>1. /\ s \in VaultSet /\ s.popped = NoCMD /\ Orderly(s) /\ Timed(s.bank, age)
      /\ (s.powerDown => USE_LOW_POWER) /\ Len(s.tFAW) <= 4 /\ s.cmdBus = NoCMD
      /\ LockRow(s, NoCMD) /\ Power(s.bank, age, s.powerDown, calm)
      /\ (calm => \A q \in Queues : s.queue[q] # <<>> => q \in s.fresh)
  BY DEF Mid, Common
<1>2. Chains(s) /\ IsVault(s) /\ VaultHas(s)
  BY <1>1, VaultSetIs DEF Orderly
<1>3. Pops(s, t) /\ FourWindows(s, t)
  BY <1>0, <1>1, <1>2, CmdPopPops
<1>4. t \in VaultSet
  BY <1>0, <1>1, <1>2, CmdPopType
<1>5. Len(t.tFAW) <= 4
  BY <1>1, <1>3 DEF FourWindows
<1>6. \A b \in Banks : s.lock[b] # NoTag =>
          s.bank[b].state = "ROW_ACTIVE" /\ s.bank[b].row = Requests[s.lock[b]].row
  BY <1>1, CloserHas DEF LockRow
<1>7. s.queue \in [Banks -> Seq(Asked)] /\ s.lock \in [Banks -> Tags \cup {NoTag}]
  BY <1>0, <1>2 DEF VaultHas
<1>8. CASE Same(s, t, {"tFAW", "issuedBank"})
  <2>1. /\ t.popped = NoCMD /\ t.bank = s.bank /\ t.powerDown = s.powerDown /\ t.lock = s.lock
        /\ t.cmdBus = s.cmdBus /\ t.queue = s.queue
    BY <1>1, <1>8 DEF Same, Fields
  <2>2. Sendable(t.bank, age, NoCMD) /\ LockFree(t, NoCMD)
    BY CloserHas DEF Sendable, LockFree
  <2> QED BY <1>1, <1>4, <1>5, <2>1, <2>2, CloserHas DEF Popped, Orderly, Chains, LockRow
<1>9. ASSUME NEW b \in Banks, NEW i \in 1 .. Len(s.queue[Q(b)]), PopsAccess(s, t, b, i)
      PROVE  Popped(t, age, calm)
  <2>1. PICK q : q = s.queue[b]
    OBVIOUS
  <2>2. PICK c : c = q[i]
    OBVIOUS
  <2>3. PICK r : r = Rest(q, i)
    OBVIOUS
  <2>4. /\ Same(s, t, {"tFAW", "issuedBank", "popped", "queue", "lock", "rowAccess"})
        /\ t.popped = c /\ t.queue = [s.queue EXCEPT ![b] = r]
        /\ t.lock = [s.lock EXCEPT ![b] = Holder(s, b, c)] /\ Ready(s, c)
    BY <1>0, <1>9, <2>1, <2>2, <2>3 DEF PopsAccess, Taken
  <2>5. q \in Seq(Asked) /\ Chain(q) /\ i \in 1 .. Len(q) /\ \A j \in 1 .. Len(q) : q[j].bank = b
    BY <1>0, <1>1, <1>7, <2>1 DEF Orderly, Chains
  <2>6. c \in Asked /\ c.bank = b
    BY <2>2, <2>5
  <2>7. /\ r \in Seq(Asked) /\ Chain(r) /\ \A j \in 1 .. Len(r) : r[j].bank = b
        /\ c.type = "ACTIVATE" => r # <<>>
    BY SMTT(15), <2>2, <2>3, <2>5, CutQueue
  <2>8. /\ t.bank = s.bank /\ t.powerDown = s.powerDown /\ t.cmdBus = s.cmdBus
    BY <2>4 DEF Same, Fields
  <2>9. Sendable(s.bank, age, c)
    BY <1>1, <2>4, <2>6, ReadySendable
  <2>10. Permitted(s, b, i)
    BY <1>9 DEF PopsAccess
  <2>11. c.type \in {"ACTIVATE", "READ", "WRITE"} /\ c.tag \in Tags /\ c.tag # NoTag
         /\ c.row = Requests[c.tag].row
    BY <2>6, AskedHas
  <2>12. c.type = "ACTIVATE" => s.bank[b].state = "IDLE" /\ s.lock[b] = NoTag
    <3>1. c.type = "ACTIVATE" => s.bank[b].state = "IDLE"
      BY <2>6, <2>9 DEF Sendable
    <3> QED BY <1>6, <3>1
  <2>13. c.type # "ACTIVATE" => s.bank[b].state = "ROW_ACTIVE" /\ s.bank[b].row = c.row
    BY <2>6, <2>9, <2>11 DEF Sendable
  <2>14. ~s.powerDown
    <3>1. ASSUME s.powerDown
          PROVE  FALSE
      <4>1. s.bank[b].state # "ROW_ACTIVE" /\ (s.bank[b].state = "IDLE" => calm)
        BY <1>1, <3>1, SleepersClosed
      <4>2. calm /\ s.lock[b] = NoTag
        BY <2>12, <2>13, <4>1
      <4>3. b \notin s.fresh
        BY <1>0, <2>10, <4>1, <4>2 DEF Permitted
      <4>4. s.queue[b] # <<>>
        BY <2>1, <2>5
      <4> QED BY <1>0, <1>1, <4>2, <4>3, <4>4
    <3> QED BY <3>1
  <2>15. Orderly(t)
    BY <1>0, <1>1, <1>7, <2>4, <2>7 DEF Orderly, Chains
  <2>16. ASSUME NEW x \in Banks, t.lock[x] # NoTag
         PROVE  \/ c.type = "ACTIVATE" /\ c.tag = t.lock[x] /\ c.bank = x
                \/ t.bank[x].state = "ROW_ACTIVE" /\ t.bank[x].row = Requests[t.lock[x]].row
    <3>1. CASE x # b
      BY <1>6, <1>7, <2>4, <2>8, <2>16, <3>1
    <3>2. CASE x = b
      <4>1. t.lock[b] = Holder(s, b, c)
        BY <1>7, <2>4
      <4>2. CASE s.lock[b] # NoTag
        <5>1. t.lock[b] = s.lock[b]
          BY <2>16, <3>2, <4>1, <4>2 DEF Holder
        <5> QED BY <1>6, <2>8, <3>2, <4>2, <5>1
      <4>3. CASE s.lock[b] = NoTag
        <5>1. t.lock[b] = c.tag
          BY <2>16, <3>2, <4>1, <4>3 DEF Holder
        <5> QED BY <2>6, <2>8, <2>11, <2>13, <3>2, <5>1
      <4> QED BY <4>2, <4>3
    <3> QED BY <3>1, <3>2
  <2>17. LockFree(t, c)
    BY <2>11 DEF LockFree
  <2>18. c.type = "ACTIVATE" => t.queue[c.bank] # <<>>
    BY <1>7, <2>4, <2>6, <2>7
  <2> QED BY <1>1, <1>4, <1>5, <2>4, <2>8, <2>9, <2>14, <2>15, <2>16, <2>17, <2>18 DEF Popped, LockRow
<1>10. ASSUME NEW b \in Banks, PopsPrecharge(s, t, b)
       PROVE  Popped(t, age, calm)
  <2>1. /\ Same(s, t, {"tFAW", "issuedBank", "popped", "rowAccess"})
        /\ t.popped = Closer(b) /\ s.lock[b] = NoTag
        /\ s.bank[b].state = "ROW_ACTIVE" /\ s.bank[b].nextPrecharge = 0
    BY <1>10 DEF PopsPrecharge
  <2>2. /\ t.bank = s.bank /\ t.powerDown = s.powerDown /\ t.lock = s.lock
        /\ t.cmdBus = s.cmdBus /\ t.queue = s.queue
    BY <2>1 DEF Same, Fields
  <2>3. Sendable(s.bank, age, Closer(b))
    BY <1>1, <2>1, CloserSendable
  <2>4. Closer(b).type = "PRECHARGE" /\ Closer(b).bank = b
    BY CloserHas
  <2>5. ~s.powerDown
    BY <1>1, <2>1, SleepersClosed
  <2>6. LockFree(t, Closer(b)) /\ LockRow(t, Closer(b))
    BY <1>6, <2>1, <2>2, <2>4 DEF LockFree, LockRow
  <2>7. Orderly(t)
    BY <1>1, <2>2 DEF Orderly, Chains
  <2> QED BY <1>1, <1>4, <1>5, <2>1, <2>2, <2>3, <2>4, <2>5, <2>6, <2>7 DEF Popped
<1>11. CASE PopsRefresh(s, t)
  <2>1. /\ Same(s, t, {"tFAW", "issuedBank", "popped", "refreshWaiting"})
        /\ t.popped = Refresher
        /\ \A b \in Banks : /\ s.lock[b] = NoTag
                            /\ s.bank[b].state # "ROW_ACTIVE" /\ s.bank[b].nextActivate = 0
    BY <1>11 DEF PopsRefresh
  <2>2. /\ t.bank = s.bank /\ t.powerDown = s.powerDown /\ t.lock = s.lock
        /\ t.cmdBus = s.cmdBus /\ t.queue = s.queue
    BY <2>1 DEF Same, Fields
  <2>3. Sendable(s.bank, age, Refresher)
    BY <1>1, <2>1, RefresherSendable
  <2>4. Refresher.type = "REFRESH"
    BY CloserHas
  <2>6. LockFree(t, Refresher) /\ LockRow(t, Refresher)
    BY <2>1, <2>2, <2>4 DEF LockFree, LockRow
  <2>7. Orderly(t)
    BY <1>1, <2>2 DEF Orderly, Chains
  <2> QED BY <1>1, <1>4, <1>5, <2>1, <2>2, <2>3, <2>4, <2>6, <2>7 DEF Popped
<1> QED BY <1>3, <1>8, <1>9, <1>10, <1>11 DEF Pops

\* Onto the command bus.
LEMMA IssueSends ==
  ASSUME OpenPage, NEW s, NEW age, NEW calm \in BOOLEAN, Popped(s, age, calm), NEW t, t = IssuePopped(s)
  PROVE  Sending(t, age, calm)
<1>1. s \in VaultSet /\ s.cmdBus = NoCMD /\ IsVault(s)
  BY VaultSetIs DEF Popped
<1>2. /\ Same(s, t, {"writeData", "pendingDataSize", "cmdBus", "cmdLeft", "popped"})
      /\ t.popped = NoCMD /\ t.cmdBus = s.popped
      /\ s.popped = NoCMD => t = s
      /\ s.popped # NoCMD => t.cmdLeft = tCMD
  BY <1>1, IssueFrame
<1>3. t \in VaultSet
  BY <1>1, IssueType
<1>4. /\ t.queue = s.queue /\ t.bank = s.bank /\ t.powerDown = s.powerDown /\ t.tFAW = s.tFAW
      /\ t.lock = s.lock
  BY <1>2 DEF Same, Fields
<1>5. Common(t, age)
  BY <1>2, <1>3, <1>4 DEF Common, Popped, Orderly, Chains
<1>6. t.cmdBus # NoCMD => t.cmdLeft = 1
  BY <1>2 DEF OpenPage
<1>7. LockRow(t, t.cmdBus) /\ LockFree(t, t.cmdBus)
  BY <1>2, <1>4 DEF Popped, LockRow, LockFree
<1> QED BY <1>2, <1>4, <1>5, <1>6, <1>7 DEF Sending, OnBus, Popped

\* The result of an atomic goes in front of its bank's queue.
Prefixed(r, c, q) ==
    /\ r \in Seq(Asked) /\ Chain(r) /\ r # <<>> /\ Len(r) = Len(q) + 1
    /\ r[1] = c /\ \A j \in 2 .. Len(r) : r[j] = q[j - 1]
LEMMA PutFirst ==
  ASSUME NEW c \in Asked, c.type # "ACTIVATE", NEW q \in Seq(Asked), Chain(q), NEW r, r = <<c>> \o q
  PROVE  Prefixed(r, c, q)
<1>1. /\ <<c>> \in Seq(Asked) /\ Len(<<c>>) = 1 /\ <<c>>[1] = c
  OBVIOUS
<1>2. Chain(<<c>>)
  BY <1>1 DEF Chain
<1>3. PICK p : p = <<c>>
  OBVIOUS
<1>4. p \in Seq(Asked) /\ Len(p) = 1 /\ p[1] = c /\ Chain(p) /\ r = p \o q
  BY <1>1, <1>2, <1>3
<1>5. Chain(r)
  BY <1>4, JoinChain
<1>6. r \in Seq(Asked) /\ Len(r) = Len(p) + Len(q)
      /\ \A i \in 1 .. Len(p) + Len(q) : r[i] = IF i <= Len(p) THEN p[i] ELSE q[i - Len(p)]
  BY <1>4, ConcatIs
<1>7. Len(q) \in Nat
  OBVIOUS
<1> QED BY <1>4, <1>5, <1>6, <1>7 DEF Prefixed

LEMMA AtomicSends ==
  ASSUME OpenPage, NEW s, NEW age, NEW calm \in BOOLEAN, Sending(s, age, calm), NEW t, t = AtomicOperation(s)
  PROVE  Sending(t, age, calm)
<1>0. OPEN_PAGE /\ Queues = Banks /\ (\A b \in Banks : Q(b) = b)
  BY OpenPageIs
<1>1. s \in VaultSet /\ IsVault(s) /\ VaultHas(s) /\ Common(s, age) /\ OnBus(s)
  BY VaultSetIs DEF Sending, Common
<1>2. t \in VaultSet
  BY <1>0, <1>1, AtomicType
<1>3. PICK c : c = s.atomicCMD
  OBVIOUS
<1>4. /\ c = NoCMD => t = s
      /\ c # NoCMD /\ s.atomicOperLeft > 0 => AtomicCounts(s, t)
      /\ c # NoCMD /\ ~(s.atomicOperLeft > 0) => AtomicEnds(s, t, c)
  BY <1>1, <1>3, AtomicFrame
<1>5. s.queue \in [Banks -> Seq(Asked)] /\ Orderly(s)
  BY <1>0, <1>1 DEF VaultHas, Common
<1>6. /\ t.popped = s.popped /\ t.bank = s.bank /\ t.powerDown = s.powerDown /\ t.tFAW = s.tFAW
      /\ t.lock = s.lock /\ t.cmdBus = s.cmdBus /\ t.cmdLeft = s.cmdLeft
  BY <1>4 DEF AtomicCounts, AtomicEnds, Same, Fields
<1>7. Orderly(t) /\ \A b \in Banks : s.queue[b] # <<>> => t.queue[b] # <<>>
  <2>1. CASE t.queue = s.queue
    BY <1>5, <2>1 DEF Orderly, Chains
  <2>2. CASE c # NoCMD /\ ~(s.atomicOperLeft > 0) /\ Locking(c)
    <3>1. c \in AskedReads /\ c.bank \in Banks
      <4>1. c \in AskedReads
        BY <1>1, <1>3, <2>2 DEF VaultHas
      <4> QED BY <4>1, AskedHas DEF AskedReads
    <3>2. PICK w : w = WriteBack(c)
      OBVIOUS
    <3>3. w \in AskedWrites /\ w.bank = c.bank
      BY <1>0, <2>2, <3>1, <3>2, WriteBackIs
    <3>4. w \in Asked /\ w.type # "ACTIVATE"
      BY <3>3 DEF AskedWrites
    <3>5. t.queue = [s.queue EXCEPT ![c.bank] = <<w>> \o s.queue[c.bank]]
      BY <1>0, <1>4, <2>2, <3>1, <3>2 DEF AtomicEnds
    <3>6. ASSUME NEW b \in Banks
          PROVE  /\ Chain(t.queue[b]) /\ (\A j \in 1 .. Len(t.queue[b]) : t.queue[b][j].bank = b)
                 /\ s.queue[b] # <<>> => t.queue[b] # <<>>
      <4>1. Chain(s.queue[b]) /\ \A j \in 1 .. Len(s.queue[b]) : s.queue[b][j].bank = b
        BY <1>0, <1>5 DEF Orderly, Chains
      <4>2. CASE b # c.bank
        BY <1>5, <3>5, <4>1, <4>2
      <4>3. CASE b = c.bank
        <5>1. PICK q : q = s.queue[b]
          OBVIOUS
        <5>2. PICK r : r = <<w>> \o q
          OBVIOUS
        <5>3. t.queue[b] = r /\ q \in Seq(Asked)
          BY <1>5, <3>1, <3>5, <4>3, <5>1, <5>2
        <5>4. /\ r \in Seq(Asked) /\ Chain(r) /\ r # <<>> /\ Len(r) = Len(q) + 1 /\ Len(q) \in Nat
              /\ r[1] = w /\ \A j \in 2 .. Len(r) : r[j] = q[j - 1]
          <6>1. w \in Asked /\ w.type # "ACTIVATE" /\ q \in Seq(Asked) /\ Chain(q) /\ r = <<w>> \o q /\ Len(q) \in Nat
            BY <3>4, <4>1, <5>1, <5>2, <5>3
          <6>2. Prefixed(r, w, q)
            BY <6>1, PutFirst
          <6> QED BY <6>1, <6>2 DEF Prefixed
        <5>5. \A j \in 1 .. Len(r) : r[j].bank = b
          <6>1. r[1].bank = b
            BY <3>3, <4>3, <5>4
          <6>2. \A j \in 2 .. Len(r) : r[j].bank = b
            BY SMTT(15), <4>1, <5>1, <5>4
          <6> QED BY <5>4, <6>1, <6>2
        <5> QED BY <5>3, <5>4, <5>5
      <4> QED BY <4>2, <4>3
    <3> QED BY <1>0, <3>6 DEF Orderly, Chains
  <2>3. t.queue = s.queue \/ (c # NoCMD /\ ~(s.atomicOperLeft > 0) /\ Locking(c))
    BY <1>4 DEF AtomicCounts, AtomicEnds, Same, Fields
  <2> QED BY <2>1, <2>2, <2>3
<1>8. t.cmdBus.type = "ACTIVATE" => t.queue[t.cmdBus.bank] # <<>>
  <2>1. s.cmdBus.bank \in Banks
    BY <1>1, IssuedHas DEF VaultHas
  <2> QED BY <1>6, <1>7, <2>1 DEF Sending
<1>9. Common(t, age)
  BY <1>1, <1>2, <1>6, <1>7 DEF Common
<1>10. OnBus(t)
  BY <1>1, <1>6 DEF OnBus, LockRow, LockFree
<1> QED BY <1>6, <1>8, <1>9, <1>10 DEF Sending

-----------------------------------------------------------------------------
\* Under way: the locks, when no row is open and no ACTIVATE on the bus.
LEMMA PowerSettles ==
  ASSUME OpenPage, NEW s, NEW age, NEW calm \in BOOLEAN, Sending(s, age, calm), NEW t, t = EnablePowerdown(s)
  PROVE  Settled(t, age)
<1>0. OPEN_PAGE /\ Queues = Banks /\ 0 \in Banks
  BY OpenPageIs, BankNumbers
<1>1. s \in VaultSet /\ IsVault(s) /\ VaultHas(s) /\ Common(s, age) /\ OnBus(s)
      /\ Sendable(s.bank, age, s.cmdBus) /\ Power(s.bank, age, s.powerDown, calm)
      /\ (s.cmdBus.type = "ACTIVATE" => s.queue[s.cmdBus.bank] # <<>>)
  BY VaultSetIs DEF Sending, Common
<1>2. t \in VaultSet
  BY <1>1, PowerType
<1>3. Same(s, t, {"bank", "powerDown"})
  BY <1>1, PowerFrame
<1>4. /\ t.popped = s.popped /\ t.queue = s.queue /\ t.tFAW = s.tFAW /\ t.cmdLeft = s.cmdLeft
      /\ t.lock = s.lock /\ t.cmdBus = s.cmdBus /\ t.refreshWaiting = s.refreshWaiting
  BY <1>3 DEF Same, Fields
<1>5. Orderly(t) /\ t.popped = NoCMD /\ Len(t.tFAW) <= 4 /\ Timed(s.bank, age) /\ s.powerDown \in BOOLEAN
      /\ (s.powerDown => USE_LOW_POWER)
  <2>1. s.powerDown \in BOOLEAN
    BY <1>1 DEF VaultHas
  <2>2. Orderly(s) /\ s.popped = NoCMD /\ Len(s.tFAW) <= 4 /\ Timed(s.bank, age) /\ (s.powerDown => USE_LOW_POWER)
    BY <1>1 DEF Common
  <2>3. Orderly(t)
    BY <1>4, <2>2 DEF Orderly, Chains
  <2>4. t.popped = NoCMD /\ Len(t.tFAW) <= 4
    BY <1>4, <2>2
  <2> QED BY <2>1, <2>2, <2>3, <2>4
<1>6. s.cmdBus \in Issued /\ s.bank \in [Banks -> BankType]
  BY <1>1 DEF VaultHas
<1>7. AtRest(t) <=> AtRest(s)
  BY <1>4 DEF AtRest, IsEmpty
<1>8. ASSUME s.cmdBus \in {NoCMD, Refresher}, NEW bank, Timed(bank, age), t.bank = bank,
             \A b \in Banks : bank[b].state \notin {"ROW_ACTIVE", "PRECHARGING"},
             \A b \in Banks : s.lock[b] = NoTag, t.powerDown => USE_LOW_POWER
      PROVE  Common(t, age) /\ OnBus(t) /\ Sendable(t.bank, age, t.cmdBus)
  <2>1. Common(t, age)
    BY <1>2, <1>5, <1>8 DEF Common
  <2>2. OnBus(t)
    BY <1>1, <1>4, <1>8 DEF OnBus, LockRow, LockFree
  <2>3. Sendable(bank, age, s.cmdBus)
    <3>1. CASE s.cmdBus = NoCMD
      BY <3>1, CloserHas DEF Sendable
    <3>2. CASE s.cmdBus = Refresher
      BY <1>1, <1>8, <3>2, CloserHas DEF Sendable
    <3> QED BY <1>8, <3>1, <3>2
  <2> QED BY <1>4, <1>8, <2>1, <2>2, <2>3
<1>9. CASE /\ USE_LOW_POWER /\ AtRest(s) /\ AllIdle(s.bank)
           /\ t.bank = PowerDown(s.bank) /\ t.powerDown = TRUE
  <2>1. \A b \in Banks : s.bank[b].state = "IDLE"
    BY <1>9 DEF AllIdle
  <2>2. \A q \in Banks : s.queue[q] = <<>>
    BY <1>0, <1>9 DEF AtRest, IsEmpty
  <2>3. s.cmdBus \in {NoCMD, Refresher}
    <3>1. s.cmdBus.bank \in Banks
      BY <1>6, IssuedHas
    <3>2. s.cmdBus.type \notin {"ACTIVATE", "READ", "WRITE", "PRECHARGE"}
      BY <1>1, <2>1, <2>2, <3>1 DEF Sendable
    <3> QED BY <1>6, <3>2, IssuedHas
  <2>4. \A b \in Banks : s.lock[b] = NoTag
    BY <1>1, <2>1, <2>3, CloserHas DEF OnBus, LockRow
  <2>5. Timed(PowerDown(s.bank), age) /\ Asleep(PowerDown(s.bank), age, FALSE)
    BY <1>5, <1>9, PowerDownKeeps
  <2>6. \A b \in Banks : PowerDown(s.bank)[b].state = "POWERDOWN" /\ PowerDown(s.bank)[b].nextPowerUp = tCKE
    BY <1>6, PowerDownFields
  <2>7. Common(t, age) /\ OnBus(t) /\ Sendable(t.bank, age, t.cmdBus)
    BY <1>8, <1>9, <2>3, <2>4, <2>5, <2>6
  <2> QED BY <1>7, <1>9, <2>5, <2>7 DEF Settled
<1>10. CASE /\ ~AtRest(s) /\ s.powerDown /\ s.bank[0].nextPowerUp = 0
            /\ t.bank = PowerUp(s.bank) /\ t.powerDown = FALSE
  <2>1. Asleep(s.bank, age, calm)
    BY <1>1, <1>10 DEF Power
  <2>2. Timed(PowerUp(s.bank), age) /\ \A b \in Banks : PowerUp(s.bank)[b].state = "AWAKING"
    BY <1>5, <1>10, <2>1, PowerUpKeeps
  <2>3. s.cmdBus \in {NoCMD, Refresher}
    BY <1>1, <1>10 DEF OnBus
  <2>4. \A b \in Banks : s.lock[b] = NoTag
    <3>1. \A b \in Banks : s.bank[b].state # "ROW_ACTIVE"
      BY <1>1, <1>10, SleepersClosed
    <3> QED BY <1>1, <2>3, <3>1, CloserHas DEF OnBus, LockRow
  <2>5. Common(t, age) /\ OnBus(t) /\ Sendable(t.bank, age, t.cmdBus)
    BY <1>8, <1>10, <2>2, <2>3, <2>4
  <2> QED BY <1>10, <2>2, <2>5 DEF Settled
<1>11. CASE /\ t = s
            /\ \/ ~USE_LOW_POWER
               \/ AtRest(s) /\ ~AllIdle(s.bank)
               \/ ~AtRest(s) /\ ~(s.powerDown /\ s.bank[0].nextPowerUp = 0)
  <2>1. CASE ~s.powerDown
    BY <1>1, <1>11, <2>1 DEF Settled, Power
  <2>2. CASE s.powerDown
    <3>1. Asleep(s.bank, age, calm) /\ USE_LOW_POWER
      BY <1>1, <1>5, <2>2 DEF Power
    <3>2. s.bank[0].nextPowerUp \in Nat
      BY <1>0, <1>6, BankHas DEF BankFields
    <3>3. AtRest(s) \/ s.bank[0].nextPowerUp > 0
      BY <1>11, <2>2, <3>1, <3>2
    <3>4. ~(\A b \in Banks : s.bank[b].state = "IDLE" /\ s.bank[b].nextPowerUp = 0)
      BY <1>0, <1>11, <2>2, <3>1, <3>2 DEF AllIdle
    <3>5. Asleep(s.bank, age, FALSE)
      BY <3>1, <3>4 DEF Asleep
    <3> QED BY <1>1, <1>11, <2>2, <3>3, <3>5 DEF Settled
  <2> QED BY <2>1, <2>2
<1> QED BY <1>1, <1>9, <1>10, <1>11, PowerFrame

LEMMA AdvanceBase ==
  ASSUME OpenPage, NEW s, NEW age, Settled(s, age), NEW t, t = Advanced(s)
  PROVE  Base(t, Older(age))
<1>0. 0 \in Banks
  BY BankNumbers
<1>1. s \in VaultSet /\ IsVault(s) /\ VaultHas(s) /\ Common(s, age) /\ OnBus(s)
      /\ Sendable(s.bank, age, s.cmdBus) /\ Timed(s.bank, age)
  BY VaultSetIs DEF Settled, Common
<1>2. /\ t \in VaultSet
      /\ Same(s, t, {"bank", "fresh", "readData", "readLeft", "reads", "pendingRead", "atomicCMD",
                     "atomicOperLeft", "up", "pendingDataSize", "error"})
      /\ t.bank = Tick(s.bank) /\ t.fresh = {}
  BY <1>1, AdvancedIs
<1>3. /\ t.popped = s.popped /\ t.queue = s.queue /\ t.tFAW = s.tFAW /\ t.cmdLeft = s.cmdLeft
      /\ t.lock = s.lock /\ t.cmdBus = s.cmdBus /\ t.refreshWaiting = s.refreshWaiting
      /\ t.powerDown = s.powerDown
  BY <1>2 DEF Same, Fields
<1>4. Timed(t.bank, Older(age))
  BY <1>1, <1>2, TickKeeps
<1>5. Common(t, Older(age))
  BY <1>1, <1>2, <1>3, <1>4 DEF Common, Orderly, Chains
<1>6. AtRest(t) <=> AtRest(s)
  BY <1>3 DEF AtRest, IsEmpty
<1>7. s.cmdBus # NoCMD => Arrives(t.bank, Older(age), s.cmdBus)
  <2>1. s.cmdBus # NoCMD => s.cmdBus \in Arrival
    BY <1>1, IssuedHas DEF VaultHas
  <2> QED BY <1>1, <1>2, <2>1, SendableArrives
<1>8. OnBus(t)
  <2>1. LockRow(t, t.cmdBus)
    BY <1>1, <1>2, <1>3, TickOpen DEF OnBus, LockRow
  <2> QED BY <1>1, <1>3, <2>1 DEF OnBus, LockFree
<1>9. Power(t.bank, Older(age), t.powerDown, AtRest(t))
  <2>1. CASE s.powerDown
    <3>1. PICK calm \in BOOLEAN : calm = AtRest(t)
      BY DEF AtRest
    <3>2. Asleep(s.bank, age, FALSE) /\ (calm \/ s.bank[0].nextPowerUp > 0)
      BY <1>6, <2>1, <3>1 DEF Settled
    <3>3. Asleep(t.bank, Older(age), calm)
      BY <1>1, <1>2, <3>2, TickAsleep
    <3> QED BY <1>3, <2>1, <3>1, <3>3 DEF Power
  <2>2. CASE ~s.powerDown
    <3>1. \A b \in Banks : s.bank[b].state # "POWERDOWN"
      BY <2>2 DEF Settled
    <3>2. \A b \in Banks : t.bank[b].state # "POWERDOWN"
      BY <1>1, <1>2, <3>1, TickAwake DEF Timed
    <3> QED BY <1>3, <2>2, <3>2 DEF Power
  <2> QED BY <2>1, <2>2
<1> QED BY <1>2, <1>3, <1>5, <1>7, <1>8, <1>9 DEF Base

-----------------------------------------------------------------------------
\* The ages after the command on the bus has arrived.
Aged(s, age) == IF s.cmdBus = NoCMD THEN age ELSE Happened(age, s.cmdBus)

LEMMA CycleBase ==
  ASSUME OpenPage, Base(vault, since), NEW taken \in BOOLEAN, NEW due \in BOOLEAN, Cycle(taken, due)
  PROVE  Base(vault', Older(Aged(vault, since)))
<1>1. PICK g : g = Aged(vault, since)
  OBVIOUS
<1>2. PICK s1 : s1 = Filled(vault, taken, due)
  OBVIOUS
<1>3. PICK calm \in BOOLEAN : calm = AtRest(vault)
  BY DEF AtRest
<1>4. Mid(s1, g, calm)
  <2>1. PICK s : s = vault
    OBVIOUS
  <2>2. PICK age : age = since
    OBVIOUS
  <2>3. Base(s, age) /\ s1 = Filled(s, taken, due) /\ calm = AtRest(s)
    BY <1>2, <1>3, <2>1, <2>2
  <2>4. Mid(s1, IF s.cmdBus = NoCMD THEN age ELSE Happened(age, s.cmdBus), calm)
    BY <2>3, FilledMid
  <2> QED BY <1>1, <2>1, <2>2, <2>4 DEF Aged
<1>5. PICK s2 : s2 = CmdPop(s1)
  OBVIOUS
<1>6. Popped(s2, g, calm)
  BY <1>4, <1>5, PopKeeps
<1>7. PICK s3 : s3 = IssuePopped(s2)
  OBVIOUS
<1>8. Sending(s3, g, calm)
  BY <1>6, <1>7, IssueSends
<1>9. PICK s4 : s4 = AtomicOperation(s3)
  OBVIOUS
<1>10. Sending(s4, g, calm)
  BY <1>8, <1>9, AtomicSends
<1>11. PICK s5 : s5 = EnablePowerdown(s4)
  OBVIOUS
<1>12. Settled(s5, g)
  BY <1>10, <1>11, PowerSettles
<1>13. vault' = Advanced(s5)
  BY <1>2, <1>5, <1>7, <1>9, <1>11, CycleIs
<1>14. PICK v : v = vault'
  OBVIOUS
<1>15. Base(v, Older(g))
  BY <1>12, <1>13, <1>14, AdvanceBase
<1> QED BY <1>1, <1>14, <1>15

-----------------------------------------------------------------------------
(* What each stage leaves alone.                                           *)
Converted == {"queue", "fresh", "down", "converted", "pendingRead"}

LEMMA SameSelf ==
  ASSUME NEW s, IsVault(s), NEW F
  PROVE  Same(s, s, F)
BY DEF Same

LEMMA SameThen ==
  ASSUME NEW s, NEW t, NEW u, NEW F, NEW G, NEW H, Same(s, t, F), Same(t, u, G), F \cup G \subseteq H
  PROVE  Same(s, u, H)
BY DEF Same

LEMMA ConvAllFrame ==
  ASSUME OPEN_PAGE, NEW s \in VaultSet, NEW t, t = ConvAll(s)
  PROVE  t \in VaultSet /\ Same(s, t, Converted)
<1> DEFINE S == {x \in VaultSet : Same(s, x, Converted)}
<1>1. s \in S
  BY VaultSetIs, SameSelf
<1>2. ASSUME NEW x \in S, NEW i \in 1 .. Len(x.down)
      PROVE  ConvPacketIntoCMDs(x, i) \in S
  <2>1. PICK y : y = ConvPacketIntoCMDs(x, i)
    OBVIOUS
  <2>2. x \in VaultSet /\ Same(s, x, Converted)
    OBVIOUS
  <2>3. y \in VaultSet
    BY <2>1, <2>2, ConvType
  <2>4. Same(x, y, Converted)
    <3>1. IsVault(x)
      BY <2>2, VaultSetIs
    <3>2. PICK tag : tag = x.down[i]
      OBVIOUS
    <3>3. PICK b : b = Requests[tag].bank
      OBVIOUS
    <3>4. Converts(x, y, i, tag, b)
      BY <2>1, <3>1, <3>2, <3>3, ConvFrame
    <3> QED BY <3>4 DEF Converts, Converted
  <2>5. Same(s, y, Converted)
    BY <2>2, <2>4, SameThen
  <2> QED BY <2>1, <2>3, <2>5
<1>3. S \in SUBSET VaultSet
  OBVIOUS
<1> HIDE DEF S
<1>4. ConvAll(s) \in S
  BY <1>1, <1>2, <1>3, ConversionsStay
<1> QED BY <1>4 DEF S

LEMMA FilledFrame ==
  ASSUME OPEN_PAGE, NEW s, NEW u, NEW due, u = UpdateCountdown(s, due), u \in VaultSet,
         NEW taken \in BOOLEAN, NEW t, t = Filled(s, taken, due)
  PROVE  t \in VaultSet /\ Same(u, t, Converted \cup {"up"})
<1>1. PICK x : x = ConvAll(u)
  OBVIOUS
<1>2. x \in VaultSet /\ Same(u, x, Converted)
  BY <1>1, ConvAllFrame
<1>3. t = Sent(x, taken)
  BY <1>1 DEF Filled
<1>4. t \in VaultSet /\ Same(x, t, {"up"})
  BY <1>2, <1>3, SentIs
<1> QED BY <1>2, <1>4, SameThen

LEMMA PopFrame ==
  ASSUME NEW s, NEW t, Pops(s, t)
  PROVE  Same(s, t, {"tFAW", "issuedBank", "popped", "queue", "lock", "rowAccess", "refreshWaiting"})
BY DEF Pops, PopsAccess, PopsPrecharge, PopsRefresh, Same

\* The banks in a Cycle.
LEMMA CycleBanks ==
  ASSUME OpenPage, NEW v, NEW age, Base(v, age), NEW taken \in BOOLEAN, NEW due \in BOOLEAN, NEW w,
         w = Advanced(EnablePowerdown(AtomicOperation(IssuePopped(CmdPop(Filled(v, taken, due))))))
  PROVE  \E bank :
            /\ bank \in [Banks -> BankType]
            /\ bank = IF v.cmdBus = NoCMD THEN v.bank ELSE ReceiveCMD(v.bank, v.cmdBus)
            /\ \/ w.bank = Tick(bank)
               \/ w.bank = Tick(PowerDown(bank))
               \/ w.bank = Tick(PowerUp(bank))
<1>0. OPEN_PAGE
  BY OpenPageIs
<1>1. PICK u : u = UpdateCountdown(v, due)
  OBVIOUS
<1>2. PICK calm \in BOOLEAN : calm = AtRest(v)
  BY DEF AtRest
<1>3. PICK g : g = Aged(v, age)
  OBVIOUS
<1>4. Mid(u, g, calm)
  BY <1>1, <1>2, <1>3, ArrivalMid DEF Aged
<1>5. u \in VaultSet
  BY <1>4 DEF Mid, Common
<1>6. u.bank = IF v.cmdBus = NoCMD THEN v.bank ELSE ReceiveCMD(v.bank, v.cmdBus)
  <2>1. v \in VaultSet /\ (v.cmdBus # NoCMD => v.cmdLeft = 1)
    BY DEF Base, Common, OnBus
  <2>2. v.cmdBus # NoCMD => ReceiveCMD(v.bank, v.cmdBus) \in [Banks -> BankType]
    <3>1. v.cmdBus # NoCMD => v.cmdBus \in Arrival
      BY <2>1, VaultSetIs, IssuedHas DEF VaultHas
    <3> QED BY <3>1, ArrivalKeeps DEF Base, Common, Timed
  <2> QED BY <1>1, <2>1, <2>2, CountdownIs
<1>7. PICK s1 : s1 = Filled(v, taken, due)
  OBVIOUS
<1>8. Mid(s1, g, calm)
  BY <1>2, <1>3, <1>7, FilledMid DEF Aged
<1>9. s1 \in VaultSet /\ Same(u, s1, Converted \cup {"up"})
  BY <1>0, <1>1, <1>5, <1>7, FilledFrame
<1>10. PICK s2 : s2 = CmdPop(s1)
  OBVIOUS
<1>11. Popped(s2, g, calm) /\ Pops(s1, s2)
  BY <1>0, <1>8, <1>10, PopKeeps, CmdPopPops DEF Mid, Common, Orderly
<1>12. PICK s3 : s3 = IssuePopped(s2)
  OBVIOUS
<1>13. Sending(s3, g, calm)
  BY <1>11, <1>12, IssueSends
<1>14. PICK s4 : s4 = AtomicOperation(s3)
  OBVIOUS
<1>15. Sending(s4, g, calm)
  BY <1>13, <1>14, AtomicSends
<1>16. PICK s5 : s5 = EnablePowerdown(s4)
  OBVIOUS
<1>17. Settled(s5, g)
  BY <1>15, <1>16, PowerSettles
<1>18. w = Advanced(s5)
  BY <1>7, <1>10, <1>12, <1>14, <1>16
<1>19. s1.bank = u.bank
  BY <1>9 DEF Same, Fields, Converted
<1>20. s2.bank = s1.bank
  BY <1>11, PopFrame DEF Same, Fields
<1>21. s3.bank = s2.bank
  <2>1. s2 \in VaultSet /\ s2.cmdBus = NoCMD
    BY <1>11 DEF Popped
  <2>2. Same(s2, s3, {"writeData", "pendingDataSize", "cmdBus", "cmdLeft", "popped"})
    BY <1>12, <2>1, VaultSetIs, IssueFrame
  <2> QED BY <2>2 DEF Same, Fields
<1>22. s4.bank = s3.bank
  <2>1. s3 \in VaultSet
    BY <1>13 DEF Sending, Common
  <2>2. PICK c : c = s3.atomicCMD
    OBVIOUS
  <2>3. /\ c = NoCMD => s4 = s3
        /\ c # NoCMD /\ s3.atomicOperLeft > 0 => AtomicCounts(s3, s4)
        /\ c # NoCMD /\ ~(s3.atomicOperLeft > 0) => AtomicEnds(s3, s4, c)
    BY <1>14, <2>1, <2>2, VaultSetIs, AtomicFrame
  <2> QED BY <2>3 DEF AtomicCounts, AtomicEnds, Same, Fields
<1>23. s5.bank = s4.bank \/ s5.bank = PowerDown(s4.bank) \/ s5.bank = PowerUp(s4.bank)
  <2>1. s4 \in VaultSet
    BY <1>15 DEF Sending, Common
  <2>2. IsVault(s4)
    BY <2>1, VaultSetIs
  <2>3. \/ s5.bank = PowerDown(s4.bank) /\ s5.powerDown = TRUE
        \/ s5.bank = PowerUp(s4.bank) /\ s5.powerDown = FALSE
        \/ s5 = s4
    BY <1>16, <2>2, PowerFrame
  <2> QED BY <2>3
<1>24. w.bank = Tick(s5.bank)
  BY <1>17, <1>18, AdvancedIs DEF Settled, Common
<1>25. u.bank \in [Banks -> BankType]
  BY <1>5, VaultSetIs DEF VaultHas
<1> QED BY <1>6, <1>19, <1>20, <1>21, <1>22, <1>23, <1>24, <1>25

\* Only a PRECHARGE closes a row.
LEMMA OnlyPrechargeCloses ==
  ASSUME OpenPage, NEW v, NEW age, Base(v, age), NEW taken \in BOOLEAN, NEW due \in BOOLEAN, NEW w,
         w = Advanced(EnablePowerdown(AtomicOperation(IssuePopped(CmdPop(Filled(v, taken, due)))))),
         NEW b \in Banks, v.bank[b].state = "ROW_ACTIVE", w.bank[b].state = "PRECHARGING"
  PROVE  v.cmdBus.type = "PRECHARGE" /\ v.cmdBus.bank = b
<1>1. PICK bank : /\ bank \in [Banks -> BankType]
                  /\ bank = IF v.cmdBus = NoCMD THEN v.bank ELSE ReceiveCMD(v.bank, v.cmdBus)
                  /\ \/ w.bank = Tick(bank)
                     \/ w.bank = Tick(PowerDown(bank))
                     \/ w.bank = Tick(PowerUp(bank))
  BY CycleBanks
<1>2. bank[b].state = "PRECHARGING"
  <2>1. CASE w.bank = Tick(bank)
    <3>1. Ticked(w.bank[b], bank[b])
      BY <1>1, <2>1, TickFields
    <3> QED BY <3>1 DEF Ticked
  <2>2. CASE w.bank = Tick(PowerDown(bank))
    <3>1. PowerDown(bank) \in [Banks -> BankType] /\ PowerDown(bank)[b].state = "POWERDOWN"
      BY <1>1, PowerDownFields
    <3>2. Ticked(w.bank[b], PowerDown(bank)[b])
      BY <2>2, <3>1, TickFields
    <3> QED BY <3>1, <3>2 DEF Ticked
  <2>3. CASE w.bank = Tick(PowerUp(bank))
    <3>1. PowerUp(bank) \in [Banks -> BankType] /\ PowerUp(bank)[b].state = "AWAKING"
      BY <1>1, PowerUpFields
    <3>2. Ticked(w.bank[b], PowerUp(bank)[b])
      BY <2>3, <3>1, TickFields
    <3> QED BY <3>1, <3>2 DEF Ticked
  <2> QED BY <1>1, <2>1, <2>2, <2>3
<1>3. PICK c : c = v.cmdBus
  OBVIOUS
<1>4. PICK old : old = v.bank
  OBVIOUS
<1>5. v \in VaultSet
  BY DEF Base, Common
<1>6. c \in Issued /\ old \in [Banks -> BankType]
  BY <1>3, <1>4, <1>5, VaultSetIs DEF VaultHas
<1>7. c # NoCMD /\ bank = ReceiveCMD(old, c)
  BY <1>1, <1>2, <1>3, <1>4
<1>8. c \in Arrival
  BY <1>6, <1>7, IssuedHas
<1>9. c.type # "ACTIVATE"
  <2>1. ASSUME c.type = "ACTIVATE" PROVE FALSE
    <3>1. bank = Activate(old, c)
      BY <1>7, <2>1 DEF ReceiveCMD
    <3> QED BY <1>2, <1>4, <1>6, <1>8, <2>1, <3>1, ActivateFields DEF Unmoved
  <2> QED BY <2>1
<1>10. c.type \notin {"READ", "WRITE"}
  <2>1. ASSUME c.type \in {"READ", "WRITE"} PROVE FALSE
    <3>1. Accessed(bank[b], old[b], c, b)
      BY <1>6, <1>7, <1>8, <2>1, ColumnFields
    <3> QED BY <1>2, <1>4, <3>1 DEF Accessed
  <2> QED BY <2>1
<1>11. c.type # "REFRESH"
  <2>1. ASSUME c.type = "REFRESH" PROVE FALSE
    <3>1. bank = Refresh(old)
      BY <1>7, <2>1 DEF ReceiveCMD
    <3> QED BY <1>2, <1>6, <3>1, RefreshFields
  <2> QED BY <2>1
<1>12. c.type = "PRECHARGE"
  BY <1>8, <1>9, <1>10, <1>11 DEF Arrival
<1>13. c.bank = b
  <2>1. bank = Precharge(old, c)
    BY <1>7, <1>12 DEF ReceiveCMD
  <2> QED BY <1>2, <1>4, <2>1 DEF Precharge
<1> QED BY <1>3, <1>12, <1>13

\* The history of the ages is what the invariant is about.
LEMMA AgeIs ==
  ASSUME OpenPage, Base(vault, since), NEW taken \in BOOLEAN, NEW due \in BOOLEAN, Cycle(taken, due)
  PROVE  since' = Older(Aged(vault, since))
<1> DEFINE c == Arriving
           kind == CASE c.type = "READ_P" -> "READ" [] c.type = "WRITE_P" -> "WRITE" [] OTHER -> c.type
           happens(e, b) == e = kind /\ (b = c.bank \/ e = "REFRESH")
           closes(b) == vault.bank[b].state = "ROW_ACTIVE" /\ vault'.bank[b].state = "PRECHARGING"
           g == Aged(vault, since)
<1>1. since' = [e \in Events |-> [b \in Banks |->
           IF happens(e, b) THEN 1
           ELSE IF e = "PRECHARGE" /\ closes(b) THEN 0
           ELSE Min({since[e][b] + 1, HORIZON})]]
  <2>1. Age
    BY CycleIs
  <2> QED BY <2>1, Zenon DEF Age
<1>2. vault \in VaultSet /\ (vault.cmdBus # NoCMD => vault.cmdLeft = 1) /\ since \in Ages
  BY DEF Base, Common, OnBus, Timed
<1>3. c = vault.cmdBus
  BY <1>2 DEF Arriving
<1>4. c \in Issued
  BY <1>2, <1>3, VaultSetIs DEF VaultHas
<1> HIDE DEF c
<1>5. c.type \in {"ACTIVATE", "READ", "WRITE", "PRECHARGE", "REFRESH", "NONE"} /\ (c # NoCMD => c \in Arrival)
  BY <1>4, IssuedHas
<1>6. kind = c.type
  BY <1>5
<1>7. ASSUME NEW b \in Banks, closes(b)
      PROVE  happens("PRECHARGE", b)
  <2>1. PICK v : v = vault
    OBVIOUS
  <2>2. PICK w : w = vault'
    OBVIOUS
  <2>3. w = Advanced(EnablePowerdown(AtomicOperation(IssuePopped(CmdPop(Filled(v, taken, due))))))
    BY <2>1, <2>2, CycleIs
  <2>4. PICK age : age = since
    OBVIOUS
  <2>5. Base(v, age) /\ v.bank[b].state = "ROW_ACTIVE" /\ w.bank[b].state = "PRECHARGING"
    BY <1>7, <2>1, <2>2, <2>4
  <2>6. v.cmdBus.type = "PRECHARGE" /\ v.cmdBus.bank = b
    BY <2>3, <2>5, OnlyPrechargeCloses
  <2> QED BY <1>3, <1>6, <2>1, <2>6
<1>8. g \in Ages /\ \A e \in Events : \A b \in Banks :
          g[e][b] = IF e = c.type /\ (b = c.bank \/ e = "REFRESH") THEN 0 ELSE since[e][b]
  <2>1. CASE c = NoCMD
    <3>1. g = since /\ c.type = "NONE"
      BY <1>3, <2>1, CloserHas DEF Aged
    <3> QED BY <1>2, <3>1 DEF Events
  <2>2. CASE c # NoCMD
    <3>1. g = Happened(since, c) /\ c \in Arrival
      BY <1>3, <1>5, <2>2 DEF Aged
    <3> QED BY <1>2, <3>1, HappenedIs
  <2> QED BY <2>1, <2>2
<1> HIDE DEF g, kind
<1>9. ASSUME NEW e \in Events, NEW b \in Banks
      PROVE  (IF happens(e, b) THEN 1
              ELSE IF e = "PRECHARGE" /\ closes(b) THEN 0
              ELSE Min({since[e][b] + 1, HORIZON})) = Min({g[e][b] + 1, HORIZON})
  <2>1. CASE happens(e, b)
    <3>1. g[e][b] = 0
      BY <1>6, <1>8, <2>1
    <3>2. HORIZON \in Nat /\ HORIZON >= 1
      BY HorizonFar, Times
    <3>3. Min({0 + 1, HORIZON}) = 1
      BY <3>2, MinOfTwo
    <3> QED BY <2>1, <3>1, <3>3
  <2>2. CASE ~happens(e, b)
    <3>1. g[e][b] = since[e][b]
      BY <1>6, <1>8, <2>2
    <3>2. ~(e = "PRECHARGE" /\ closes(b))
      BY <1>7, <2>2
    <3> QED BY <2>2, <3>1, <3>2
  <2> QED BY <2>1, <2>2
<1>10. since' = [e \in Events |-> [b \in Banks |-> Min({g[e][b] + 1, HORIZON})]]
  <2> HIDE DEF happens, closes
  <2> QED BY <1>1, <1>9
<1> QED BY <1>10 DEF Older, g

-----------------------------------------------------------------------------
LEMMA InitBase ==
  ASSUME OpenPage, Init
  PROVE  Base(vault, since)
<1>0. Queues = Banks /\ 0 \in Banks
  BY OpenPageIs, BankNumbers
<1>1. NewBank \in BankType
  BY DEF NewBank, BankType, States
<1>2. vault \in VaultSet
  BY <1>0, <1>1 DEF Init, VaultSet, Issued
<1>3. /\ vault.popped = NoCMD /\ vault.cmdBus = NoCMD /\ vault.fresh = {} /\ vault.powerDown = FALSE
      /\ vault.queue = [q \in Queues |-> <<>>] /\ vault.lock = [b \in Banks |-> NoTag] /\ vault.tFAW = <<>>
      /\ vault.bank = [b \in Banks |-> NewBank]
      /\ since = [e \in Events |-> [b \in Banks |-> HORIZON]]
  BY DEF Init
<1>4. Orderly(vault)
  BY <1>0, <1>3 DEF Orderly, Chains, Chain
<1>5. since \in Ages
  BY <1>3, HorizonFar DEF Ages
<1>6. Timed(vault.bank, since)
  <2>1. vault.bank \in [Banks -> BankType]
    BY <1>1, <1>3
  <2>2. \A e \in Events : \A b \in Banks : \A n : Old(since[e][b], n)
    BY <1>3 DEF Old
  <2>3. \A b \in Banks : Closing(vault.bank[b], since["ACTIVATE"][b], since["PRECHARGE"][b])
    BY <1>3, <2>2 DEF Closing, NewBank, Events
  <2>4. \A b \in Banks : OwnTimes(vault.bank[b], since["ACTIVATE"][b], since["PRECHARGE"][b],
                                  since["READ"][b], since["WRITE"][b])
    BY <2>2 DEF OwnTimes, Events
  <2>5. \A b \in Banks : \A x \in Banks :
             /\ Old(since["ACTIVATE"][x], tRRD - vault.bank[b].nextActivate)
             /\ SharedTimes(vault.bank[b], since["READ"][x], since["WRITE"][x])
    BY <2>2 DEF SharedTimes, Events
  <2> QED BY <1>5, <2>1, <2>3, <2>4, <2>5 DEF Timed
<1>7. Power(vault.bank, since, vault.powerDown, AtRest(vault))
  BY <1>3 DEF Power, NewBank
<1>8. OnBus(vault)
  BY <1>3, CloserHas DEF OnBus, LockRow, LockFree
<1>9. Common(vault, since)
  BY <1>2, <1>3, <1>4, <1>6 DEF Common
<1> QED BY <1>3, <1>7, <1>8, <1>9 DEF Base

\* The crossbar's packet changes nothing of this.
LEMMA ReceiveBase ==
  ASSUME OpenPage, NEW s, NEW age, Base(s, age), NEW tag \in Tags, NEW t, t = [s EXCEPT !.down = Append(@, tag)]
  PROVE  Base(t, age)
<1>1. s \in VaultSet /\ IsVault(s) /\ VaultHas(s) /\ Common(s, age) /\ OnBus(s)
  BY VaultSetIs DEF Base, Common
<1>2. Same(s, t, {"down"}) /\ t.down = Append(s.down, tag)
  BY <1>1 DEF Same, IsVault, Fields
<1>3. t \in VaultSet
  <2>1. t.down \in Seq(Tags)
    BY <1>1, <1>2 DEF VaultHas
  <2>2. VaultHas(t)
    BY <1>1, <1>2, <2>1 DEF VaultHas, Same, Fields
  <2> QED BY <1>2, <2>2, VaultSetIs DEF Same
<1>4. /\ t.popped = s.popped /\ t.queue = s.queue /\ t.tFAW = s.tFAW /\ t.cmdLeft = s.cmdLeft
      /\ t.lock = s.lock /\ t.cmdBus = s.cmdBus /\ t.refreshWaiting = s.refreshWaiting
      /\ t.powerDown = s.powerDown /\ t.bank = s.bank /\ t.fresh = s.fresh
  BY <1>2 DEF Same, Fields
<1>5. Common(t, age)
  BY <1>1, <1>3, <1>4, CommonFrame
<1>6. OnBus(t)
  BY <1>1, <1>4 DEF OnBus, LockRow, LockFree
<1>7. Power(t.bank, age, t.powerDown, AtRest(t))
  <2>1. AtRest(t) <=> AtRest(s)
    BY <1>4 DEF AtRest, IsEmpty
  <2>2. Power(s.bank, age, s.powerDown, AtRest(s))
    BY DEF Base
  <2> QED BY <1>4, <2>1, <2>2 DEF Power, Asleep
<1>8. t.cmdBus # NoCMD => Arrives(t.bank, age, t.cmdBus)
  BY <1>4 DEF Base
<1> QED BY <1>4, <1>5, <1>6, <1>7, <1>8 DEF Base

LEMMA NextBase ==
  ASSUME OpenPage, Base(vault, since), [Next]_vars
  PROVE  Base(vault, since)'
<1>1. ASSUME NEW tag \in Tags, ReceiveDown(tag)
      PROVE  Base(vault, since)'
  <2>1. vault' = [vault EXCEPT !.down = Append(@, tag)] /\ since' = since
    BY <1>1 DEF ReceiveDown
  <2>2. PICK s, t, age : s = vault /\ t = vault' /\ age = since
    OBVIOUS
  <2>3. Base(t, age)
    BY <2>1, <2>2, ReceiveBase
  <2> QED BY <2>1, <2>2, <2>3
<1>2. ASSUME NEW taken \in BOOLEAN, NEW due \in BOOLEAN, Cycle(taken, due)
      PROVE  Base(vault, since)'
  <2>1. Base(vault', Older(Aged(vault, since))) /\ since' = Older(Aged(vault, since))
    BY <1>2, CycleBase, AgeIs
  <2>2. PICK w, age : w = vault' /\ age = since'
    OBVIOUS
  <2>3. Base(w, age)
    BY <2>1, <2>2
  <2> QED BY <2>2, <2>3
<1>3. ASSUME UNCHANGED vars
      PROVE  Base(vault, since)'
  <2>1. vault' = vault /\ since' = since
    BY <1>3 DEF vars
  <2> QED BY <2>1 DEF Base, Common, OnBus, Orderly, Chains, Timed, Power, AtRest, Asleep
<1> QED BY <1>1, <1>2, <1>3 DEF Next

(* Under the open page policy, whatever arrives and whenever the refresh     *)
(* timer expires: the banks' times are never behind the ages of the events   *)
(* they stand for, what is on the command bus may arrive, each ACTIVATE in a *)
(* queue has an access of its request behind it, the row of an atomic that   *)
(* holds a lock is open or about to be, and banks that sleep are idle        *)
(* (VaultController::Update, CommandQueue::CmdPop, DRAM::Update).            *)
THEOREM VaultBase ==
  ASSUME OpenPage
  PROVE  Spec => []Base(vault, since)
<1>1. Init => Base(vault, since)
  BY InitBase
<1>2. Base(vault, since) /\ [Next]_vars => Base(vault, since)'
  BY NextBase
<1> QED BY <1>1, <1>2, PTL DEF Spec

LEMMA BaseTiming ==
  ASSUME OpenPage, Base(vault, since)
  PROVE  CommandTiming
<1> DEFINE c == Arriving
<1>1. /\ vault \in VaultSet /\ (vault.cmdBus # NoCMD => vault.cmdLeft = 1) /\ since \in Ages
      /\ (vault.cmdBus # NoCMD => Arrives(vault.bank, since, vault.cmdBus)) /\ tCMD = 1
      /\ vault.bank \in [Banks -> BankType]
  BY OpenPageIs DEF Base, Common, OnBus, Timed
<1>2. c = vault.cmdBus
  BY <1>1 DEF Arriving
<1>3. c \in Issued
  BY <1>1, <1>2, VaultSetIs DEF VaultHas
<1> HIDE DEF c
<1>4. c.type \in {"ACTIVATE", "READ", "WRITE", "PRECHARGE", "REFRESH", "NONE"} /\ c.bank \in Banks
      /\ (c.type = "NONE" <=> c = NoCMD)
  BY <1>3, IssuedHas, CloserHas
<1>5. c.type # "NONE" => Arrives(vault.bank, since, c)
  BY <1>1, <1>2, <1>4
<1> DEFINE own(e, n) == since[e][c.bank] >= n + tCMD
           every(e, n) == \A b \in Banks : since[e][b] >= n + tCMD
           state(b) == vault.bank[b].state
<1>6. c.type = "ACTIVATE" =>
        /\ state(c.bank) \notin {"ROW_ACTIVE", "PRECHARGING", "POWERDOWN", "AWAKING"}
        /\ own("ACTIVATE", tRC) /\ own("PRECHARGE", tRP) /\ every("ACTIVATE", tRRD)
  BY <1>1, <1>4, <1>5 DEF Arrives
<1>7. c.type \in {"READ", "WRITE"} =>
        /\ state(c.bank) = "ROW_ACTIVE" /\ vault.bank[c.bank].row = c.row
        /\ own("ACTIVATE", tRCD - AL)
  BY <1>1, <1>4, <1>5 DEF Arrives
<1>8. c.type = "READ" =>
         every("READ", Later(tCCD, BL)) /\ every("WRITE", WRITE_TO_READ_DELAY_B)
  BY <1>1, <1>4, <1>5 DEF Arrives
<1>9. c.type = "WRITE" =>
         every("WRITE", Later(tCCD, BL)) /\ every("READ", READ_TO_WRITE_DELAY)
  BY <1>1, <1>4, <1>5 DEF Arrives
<1>10. c.type = "PRECHARGE" =>
         /\ state(c.bank) = "ROW_ACTIVE" /\ own("ACTIVATE", tRAS)
         /\ own("READ", READ_TO_PRE_DELAY) /\ own("WRITE", WRITE_TO_PRE_DELAY)
  BY <1>1, <1>4, <1>5 DEF Arrives
<1>11. c.type = "REFRESH" =>
         \A b \in Banks : state(b) # "ROW_ACTIVE" /\ since["PRECHARGE"][b] >= tRP + tCMD
  BY <1>1, <1>4, <1>5 DEF Arrives
<1>11a. CommandTiming <=>
         CASE c.type = "ACTIVATE" ->
                 /\ state(c.bank) \notin {"ROW_ACTIVE", "PRECHARGING", "POWERDOWN", "AWAKING"}
                 /\ own("ACTIVATE", tRC) /\ own("PRECHARGE", tRP)
                 /\ every("ACTIVATE", tRRD)
           [] c.type \in Reads \cup Writes ->
                 /\ state(c.bank) = "ROW_ACTIVE" /\ vault.bank[c.bank].row = c.row
                 /\ own("ACTIVATE", tRCD - AL)
                 /\ IF c.type \in Reads
                    THEN every("READ", Later(tCCD, BL)) /\ every("WRITE", WRITE_TO_READ_DELAY_B)
                    ELSE every("WRITE", Later(tCCD, BL)) /\ every("READ", READ_TO_WRITE_DELAY)
           [] c.type = "PRECHARGE" ->
                 /\ state(c.bank) = "ROW_ACTIVE" /\ own("ACTIVATE", tRAS)
                 /\ own("READ", READ_TO_PRE_DELAY) /\ own("WRITE", WRITE_TO_PRE_DELAY)
           [] c.type = "REFRESH" ->
                 \A b \in Banks : state(b) # "ROW_ACTIVE" /\ since["PRECHARGE"][b] >= tRP + tCMD
           [] OTHER -> TRUE
  BY Zenon DEF CommandTiming, c
<1> HIDE DEF own, every, state
<1>12. PICK y : y = c.type
  OBVIOUS
<1>13. Reads = {"READ", "READ_P"} /\ Writes = {"WRITE", "WRITE_P"}
  BY DEF Reads, Writes
<1> QED BY <1>4, <1>6, <1>7, <1>8, <1>9, <1>10, <1>11, <1>11a, <1>12, <1>13

(* CommandTiming always holds: each command reaches DRAM no earlier than the *)
(* times of ConfigDRAM.ini allow, and finds its row open or its bank closed  *)
(* (CommandQueue::isIssuable, DRAM::ReceiveCMD).                             *)
THEOREM VaultCommandTiming ==
  ASSUME OpenPage
  PROVE  Spec => []CommandTiming
<1>1. Base(vault, since) => CommandTiming
  BY BaseTiming
<1> QED BY <1>1, VaultBase, PTL

LEMMA BaseRowOpen ==
  ASSUME OpenPage, Base(vault, since)
  PROVE  AtomicRowOpen
<1>1. OnBus(vault)
  BY DEF Base
<1>2. ASSUME NEW b \in Banks, vault.lock[b] # NoTag
      PROVE  \/ vault.cmdBus.tag = vault.lock[b] /\ vault.cmdBus.type \in Reads \cup {"ACTIVATE"}
             \/ vault.bank[b].state = "ROW_ACTIVE" /\ vault.bank[b].row = Requests[vault.lock[b]].row
  BY <1>1, <1>2 DEF OnBus, LockRow
<1> QED BY <1>2 DEF AtomicRowOpen

(* AtomicRowOpen always holds: from the read of an atomic to its write-back  *)
(* the row stays open (atomicLock, CommandQueue.cpp:127, 258, 404).          *)
THEOREM VaultAtomicRowOpen ==
  ASSUME OpenPage
  PROVE  Spec => []AtomicRowOpen
<1>1. Base(vault, since) => AtomicRowOpen
  BY BaseRowOpen
<1> QED BY <1>1, VaultBase, PTL

===============================================================================
