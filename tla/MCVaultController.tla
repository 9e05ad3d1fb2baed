------------------------- MODULE MCVaultController -------------------------
(* Requests for VaultController.  Sizes are in FLITs of 16 bytes. *)
EXTENDS VaultController

Request(op, b, row, cmds, posted, returns, after) ==
    [op |-> op, bank |-> b, row |-> row, cmds |-> cmds,
     lng |-> IF op = "RD" THEN 1 ELSE IF op = "ATM" THEN 2 ELSE 2 * cmds + 1,
     data |-> IF op = "ATM" THEN 1 ELSE 2 * cmds,
     posted |-> posted, writeBack |-> returns # 0, returns |-> Later(returns, 1),
     after |-> after]

\* From one link a write, an atomic, a read and a posted write of one row; from
\* another a read of another row of the bank.
OpenPageRequests ==
    << Request("WR", 0, 1, 1, FALSE, 1, {}), Request("ATM", 0, 1, 1, FALSE, 2, {1}),
       Request("RD", 0, 1, 1, FALSE, 1, {2}), Request("WR", 0, 1, 1, TRUE, 1, {3}),
       Request("RD", 0, 2, 1, FALSE, 1, {}) >>

\* A read and a write of two accesses to one bank, and an atomic without a
\* response between a read and a write of another.
ClosePageRequests ==
    << Request("RD", 0, 1, 2, FALSE, 1, {}), Request("WR", 0, 1, 2, FALSE, 1, {}),
       Request("ATM", 1, 1, 1, TRUE, 1, {}), Request("RD", 1, 2, 1, FALSE, 1, {3}) >>

OneRead == << Request("RD", 0, 1, 1, FALSE, 1, {}) >>
=============================================================================
