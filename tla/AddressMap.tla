----------------------------- MODULE AddressMap -----------------------------
(***************************************************************************)
(* The way of an address through the memory and back: the controller cuts  *)
(* it to the capacity, the crossbar takes the vault from it, the vault     *)
(* controller the bank, column and row, from which it builds the address   *)
(* of the response.  All sizes are powers of two, so a shift by log2 of a  *)
(* size is \div and a mask of the size less one is %.                      *)
(***************************************************************************)
EXTENDS Integers

CONSTANTS
  NUM_VAULTS, NUM_BANKS, NUM_ROWS,
  NUM_COLS,          \* bytes in a row of a bank
  ADDRESS_MAPPING    \* the maximum block size in bytes

ASSUME AddressAssumption ==
  /\ NUM_VAULTS \in Nat \ {0} /\ NUM_BANKS \in Nat \ {0} /\ NUM_ROWS \in Nat \ {0}
  /\ NUM_COLS \in Nat \ {0} /\ ADDRESS_MAPPING \in Nat \ {0}
  /\ NUM_COLS = (NUM_COLS \div ADDRESS_MAPPING) * ADDRESS_MAPPING

ASSUME PowersOfTwo ==
  \A n \in {NUM_VAULTS, NUM_BANKS, NUM_ROWS, NUM_COLS, ADDRESS_MAPPING} :
    \E k \in 0 .. n : n = 2 ^ k

Blocks == NUM_COLS \div ADDRESS_MAPPING    \* in a row of a bank
CAPACITY == NUM_VAULTS * NUM_BANKS * NUM_ROWS * NUM_COLS

\* What the crossbar sends address a to.
VaultMap(a) == (a \div ADDRESS_MAPPING) % NUM_VAULTS

AddressMapping(a) ==
  LET inVault == (a \div ADDRESS_MAPPING) \div NUM_VAULTS
      inBank == inVault \div NUM_BANKS
  IN [bank |-> inVault % NUM_BANKS,
      col  |-> (inBank % Blocks) * ADDRESS_MAPPING,
      row  |-> (inBank \div Blocks) % NUM_ROWS]

ReverseAddressMapping(vault, at) ==
  LET inBank == at.row * Blocks + at.col \div ADDRESS_MAPPING
      inVault == inBank * NUM_BANKS + at.bank
  IN (inVault * NUM_VAULTS + vault) * ADDRESS_MAPPING

\* The address of the response to a request for address a.
ResponseAddress(a) ==
  LET m == a % CAPACITY IN ReverseAddressMapping(VaultMap(m), AddressMapping(m))
=============================================================================
