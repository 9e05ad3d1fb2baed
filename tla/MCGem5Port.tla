----------------------------- MODULE MCGem5Port -----------------------------
(* Instances of Gem5Port for TLC.                                          *)
EXTENDS Gem5Port

Pkt(read, write, a, answer) ==
  [isRead |-> read, isWrite |-> write, addr |-> a, needsResponse |-> answer]
Rd(a) == Pkt(TRUE, FALSE, a, TRUE)
Wr(a, answer) == Pkt(FALSE, TRUE, a, answer)

\* Two reads and a write of one block, a read and a write back of another, and a
\* packet that is neither.
MixedPackets ==
  <<Rd(10), Rd(10), Wr(10, TRUE), Rd(22), Wr(22, FALSE), Pkt(FALSE, FALSE, 22, TRUE)>>

\* Reads and writes that begin in the middle of a block.
UnalignedPackets == <<Rd(10), Wr(10, TRUE), Rd(22), Wr(22, FALSE)>>

\* A swap, which is a read and a write, among others.
SwapPackets == <<Pkt(TRUE, TRUE, 10, TRUE), Rd(10), Rd(22)>>
=============================================================================
