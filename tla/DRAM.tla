-------------------------------- MODULE DRAM --------------------------------
(***************************************************************************)
(* The banks of one vault (DRAM.cpp, BankState.cpp).  A bank's times        *)
(* (nextActivate, ...), absolute clock cycles in the code, count down to 0  *)
(* here: nextX <= currentClockCycle there is nextX = 0 here.                *)
(***************************************************************************)
EXTENDS Integers

CONSTANTS NUM_BANKS, BL, AL, CL, CWL, tRCD, tRAS, tRP, tRC, tRRD, tCCD, tRTP,
          tWTR, tWR, tRFC, tCKE, tXP

Banks == 0 .. NUM_BANKS - 1
Later(a, b) == IF a > b THEN a ELSE b
RL == AL + CL
WL == AL + CWL
READ_TO_PRE_DELAY == AL + BL \div 2 + Later(tRTP, tCCD) - tCCD
WRITE_TO_PRE_DELAY == WL + BL \div 2 + tWR
READ_TO_WRITE_DELAY == RL + tCCD + 2 - WL
READ_AUTOPRE_DELAY == AL + tRTP + tRP
WRITE_AUTOPRE_DELAY == WL + BL \div 2 + tWR + tRP
WRITE_TO_READ_DELAY_B == WL + BL \div 2 + tWTR

NewBank == [state |-> "IDLE", row |-> 0, lastCommand |-> "PRECHARGE", left |-> 0,
            nextActivate |-> 0, nextRead |-> 0, nextWrite |-> 0,
            nextPrecharge |-> 0, nextPowerUp |-> 0]
-----------------------------------------------------------------------------
(* receiveCMD *)
Activate(bank, c) ==
    [b \in Banks |->
        IF b # c.bank THEN [bank[b] EXCEPT !.nextActivate = Later(tRRD, @)]
        ELSE [bank[b] EXCEPT !.state = "ROW_ACTIVE", !.lastCommand = c.type, !.row = c.row,
                             !.nextActivate = Later(tRC, @), !.nextPrecharge = Later(tRAS, @),
                             !.nextRead = Later(tRCD - AL, @), !.nextWrite = Later(tRCD - AL, @)]]

\* The four column commands: an access occupies the data bus of every bank, and
\* the automatic precharge of READ_P and WRITE_P closes the row after a delay.
ColumnAccess(bank, c, read, auto) ==
    LET toRead == IF read THEN Later(tCCD, BL) ELSE WRITE_TO_READ_DELAY_B
        toWrite == IF read THEN READ_TO_WRITE_DELAY ELSE Later(BL, tCCD)
        toPre == IF read THEN READ_TO_PRE_DELAY ELSE WRITE_TO_PRE_DELAY
        reopen == Later(IF read THEN READ_AUTOPRE_DELAY ELSE WRITE_AUTOPRE_DELAY,
                        bank[c.bank].nextActivate)
        busy(k) == [k EXCEPT !.nextRead = Later(toRead, @), !.nextWrite = Later(toWrite, @)]
    IN [b \in Banks |->
           IF b # c.bank THEN busy(bank[b])
           ELSE IF auto THEN [bank[b] EXCEPT !.lastCommand = c.type, !.left = toPre, !.nextActivate = reopen,
                                             !.nextRead = reopen, !.nextWrite = reopen]
           ELSE [busy(bank[b]) EXCEPT !.lastCommand = c.type, !.nextPrecharge = Later(toPre, @)]]

Precharge(bank, c) ==
    [b \in Banks |->
        IF b # c.bank THEN bank[b]
        ELSE [bank[b] EXCEPT !.state = "PRECHARGING", !.lastCommand = c.type, !.row = 0,
                             !.left = tRP, !.nextActivate = Later(tRP, @)]]

Refresh(bank) ==
    [b \in Banks |-> [bank[b] EXCEPT !.state = "REFRESHING", !.lastCommand = "REFRESH",
                                     !.left = tRFC, !.nextActivate = tRFC]]

ReceiveCMD(bank, c) ==
    CASE c.type = "ACTIVATE"  -> Activate(bank, c)
      [] c.type = "PRECHARGE" -> Precharge(bank, c)
      [] c.type = "REFRESH"   -> Refresh(bank)
      [] OTHER -> ColumnAccess(bank, c, c.type \in {"READ", "READ_P"},
                               c.type \in {"READ_P", "WRITE_P"})
-----------------------------------------------------------------------------
AllIdle(bank) == \A b \in Banks : bank[b].state = "IDLE"

PowerDown(bank) ==
    [b \in Banks |-> [bank[b] EXCEPT !.state = "POWERDOWN", !.nextPowerUp = tCKE]]

PowerUp(bank) ==
    [b \in Banks |-> [bank[b] EXCEPT !.state = "AWAKING", !.lastCommand = "POWERDOWN_EXIT",
                                     !.left = tXP, !.nextActivate = tXP]]

\* The implicit change of state of Update, when a bank's countdown ends.
StateChange(k) ==
    IF k.left # 1 THEN [k EXCEPT !.left = Later(@ - 1, 0)]
    ELSE CASE k.lastCommand \in {"READ_P", "WRITE_P"} ->
                  [k EXCEPT !.state = "PRECHARGING", !.lastCommand = "PRECHARGE", !.left = tRP]
           [] k.lastCommand \in {"REFRESH", "PRECHARGE", "POWERDOWN_EXIT"} ->
                  [k EXCEPT !.state = "IDLE", !.left = 0]
           [] OTHER -> [k EXCEPT !.left = 0]

\* Mutant of Elapse: the bank's clock is stepped twice.
ElapsesTwice(k) ==
    [k EXCEPT !.nextActivate = Later(@ - 2, 0), !.nextRead = Later(@ - 2, 0),
              !.nextWrite = Later(@ - 2, 0), !.nextPrecharge = Later(@ - 2, 0),
              !.nextPowerUp = Later(@ - 2, 0)]
\* Step of the bank's clock.
Elapse(k) ==
    [k EXCEPT !.nextActivate = Later(@ - 1, 0), !.nextRead = Later(@ - 1, 0),
              !.nextWrite = Later(@ - 1, 0), !.nextPrecharge = Later(@ - 1, 0),
              !.nextPowerUp = Later(@ - 1, 0)]
=============================================================================
