---------------------------- MODULE LinkChannel ----------------------------
(***************************************************************************)
(* What a link promises to the HMC controller and the crossbar switch: in  *)
(* either direction a reliable channel of bounded capacity.  Packets are   *)
(* numbered 1, 2, ... in the order in which an end submits them; each is   *)
(* delivered exactly once, and at most Capacity FLITs are under way.  An   *)
(* Ordered channel delivers them in the order of submission.  A link keeps *)
(* the order as long as it need not retry: packets submitted in LINK_RETRY *)
(* overtake those that LinkRetry has set aside.                            *)
(***************************************************************************)
EXTENDS Integers, SequencesExt

CONSTANTS
  End,             \* the ends of the link
  Peer(_),         \* the other end
  Traffic,         \* Traffic[e]: lengths of the packets end e submits
  Capacity,        \* FLITs one direction of the link holds
  Ordered          \* whether packets are delivered in the order of submission

VARIABLES
  submitted,       \* number of packets end e has submitted
  delivered        \* numbers of the packets delivered at end e

channelVars == <<submitted, delivered>>

\* Packets end e has submitted that are not delivered.
UnderWay(e) == (1 .. submitted[e]) \ ToSet(delivered[Peer(e)])

Flits(e, packets) == FoldSet(LAMBDA n, sum : sum + Traffic[e][n], 0, packets)

Init ==
  /\ submitted = [e \in End |-> 0]
  /\ delivered = [e \in End |-> <<>>]

Send(e) ==
  LET n == submitted[e] + 1 IN
  /\ n <= Len(Traffic[e])
  /\ Flits(e, UnderWay(e) \cup {n}) <= Capacity
  /\ submitted' = [submitted EXCEPT ![e] = n]
  /\ UNCHANGED delivered

Deliver(e) ==
  /\ \E n \in UnderWay(Peer(e)) :
       /\ Ordered => \A m \in UnderWay(Peer(e)) : n <= m
       /\ delivered' = [delivered EXCEPT ![e] = Append(@, n)]
  /\ UNCHANGED submitted

Next == \E e \in End : Send(e) \/ Deliver(e)

Spec == Init /\ [][Next]_channelVars

\* A source with a packet to send gets rid of it, and what is under way arrives.
FairSpec ==
  /\ Spec
  /\ \A e \in End : WF_channelVars(Send(e)) /\ WF_channelVars(Deliver(e))
=============================================================================
