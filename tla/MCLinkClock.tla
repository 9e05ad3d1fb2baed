---------------------------- MODULE MCLinkClock ----------------------------
(* Instances of LinkClock for TLC: the wrapper's order of updates.         *)
EXTENDS LinkClock

\* Requests of two lengths against one response.
MixedTraffic == [e \in End |-> IF e = Host THEN <<2, 1>> ELSE <<1>>]

\* The same two packets in both directions: a retry meets traffic of its own.
EqualTraffic == [e \in End |-> <<2, 1>>]

\* CRC delays: none; the default of ConfigSim.ini (0.01 cycles, rounded up).
NoDelay == [n \in 1 .. MAX_LINK_BUF |-> 0]
DefaultDelay == [n \in 1 .. MAX_LINK_BUF |-> 1]
=============================================================================
