---------------------------- MODULE MCLinkLayer ----------------------------
(* Instances of LinkLayer for TLC: objects update in any order.            *)
EXTENDS LinkLayer

\* 5 FLITs downstream: more than a master's and a slave's buffer of 2 FLITs hold.
LongTraffic == [e \in End |-> IF e = Host THEN <<2, 1, 2>> ELSE <<1>>]

\* A packet with a virtual tail against one of a single FLIT.
ShortTraffic == [e \in End |-> IF e = Host THEN <<2>> ELSE <<1>>]

\* The CRC is computed while the packet is transmitted.
NoDelay == [n \in 1 .. MAX_LINK_BUF |-> 0]
=============================================================================
