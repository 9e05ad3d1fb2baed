----------------------------- MODULE MCCrossbar -----------------------------
(* Instances of Crossbar for TLC.  A block is 32 bytes: 2 FLITs of data.   *)
EXTENDS Crossbar

RD(a, n) == [cmd |-> "RD", adrs |-> a, size |-> n]
WR(a, n) == [cmd |-> "WR", adrs |-> a, size |-> n]

\* A read of three blocks, which meets itself at a vault, a write of two and a
\* read of one, over the same two vaults.
MixedRequests == <<RD(0, 6), WR(1, 4), RD(1, 2)>>
=============================================================================
