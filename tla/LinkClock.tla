----------------------------- MODULE LinkClock -----------------------------
(***************************************************************************)
(* A noisy link under the simulator's own schedule.  One CPU cycle of      *)
(* CasHMCWrapper::Update runs, in this order, the HMC controller, the      *)
(* downstream link master, the downstream link, the cube (HMC::Update:     *)
(* downstream link slave, crossbar, upstream link master), the upstream    *)
(* link and the upstream link slave.  The HMC clock equals the CPU clock   *)
(* here, and either link transmits one FLIT in FLIT_CYCLES CPU cycles.     *)
(***************************************************************************)
EXTENDS LinkLayer

CONSTANT FLIT_CYCLES     \* CPU cycles a link needs for one FLIT

ASSUME FlitCyclesAssumption == FLIT_CYCLES \in Nat \ {0}

VARIABLES
  turn,                  \* position in Order of the object updated next
  inFlightCountdown      \* CPU cycles until the packet in flight arrives

vars == <<linkVars, turn, inFlightCountdown>>

Order == <<"hmcCont", "downLinkMaster", "downLink", "downLinkSlave",
           "crossbar", "upLinkMaster", "upLink", "upLinkSlave">>

\* object is the one updated in this step.
Turn(object) == Order[turn] = object /\ turn' = (turn % Len(Order)) + 1

Init ==
  /\ LinkInit
  /\ turn = 1
  /\ inFlightCountdown = [e \in End |-> 0]

Source(e) == IF e = Host THEN "hmcCont" ELSE "crossbar"
MasterTurn(e) == Turn(IF e = Host THEN "downLinkMaster" ELSE "upLinkMaster")
LinkTurn(e)   == Turn(IF e = Host THEN "downLink" ELSE "upLink")
SlaveTurn(e)  == Turn(IF e = Host THEN "upLinkSlave" ELSE "downLinkSlave")

\* The HMC controller hands over at most one packet in an Update, the crossbar
\* any number; either may have none.
SourceSubmits(e) ==
  /\ Order[turn] = Source(e)
  /\ turn' = IF e = Host THEN turn + 1 ELSE turn
  /\ Submit(e)
  /\ UNCHANGED inFlightCountdown

SourceIdles(e) ==
  Turn(Source(e)) /\ Running /\ UNCHANGED <<linkVars, inFlightCountdown>>

MasterUpdates(e) ==
  MasterTurn(e) /\ MasterUpdate(e) /\ UNCHANGED inFlightCountdown

LinkUpdates(e) ==
  /\ LinkTurn(e)
  /\ \/ /\ LinkStart(e)
        /\ inFlightCountdown' = [inFlightCountdown EXCEPT ![e] = inFlight'[e].lng * FLIT_CYCLES]
     \/ /\ inFlightCountdown[e] = 1
        /\ LinkDone(e) \/ LinkNoise(e)
        /\ inFlightCountdown' = [inFlightCountdown EXCEPT ![e] = 0]
     \/ /\ inFlightCountdown[e] > 1
        /\ Running /\ UNCHANGED linkVars
        /\ inFlightCountdown' = [inFlightCountdown EXCEPT ![e] = @ - 1]

LinkIdles(e) ==
  /\ LinkTurn(e)
  /\ inFlight[e] = NULL /\ master[e].linkRxTx = <<>>
  /\ Running /\ UNCHANGED <<linkVars, inFlightCountdown>>

SlaveUpdates(e) ==
  SlaveTurn(e) /\ SlaveUpdate(e) /\ UNCHANGED inFlightCountdown

SlaveForwards(e) ==
  SlaveTurn(e) /\ SlaveForward(e) /\ UNCHANGED inFlightCountdown

Next ==
  \E e \in End :
    \/ SourceSubmits(e) \/ SourceIdles(e)
    \/ MasterUpdates(e)
    \/ LinkUpdates(e) \/ LinkIdles(e)
    \/ SlaveUpdates(e) \/ SlaveForwards(e)

Spec == Init /\ [][Next]_vars

\* The clock never stops; a source that has a packet in cycle after cycle hands
\* it over, and a consumer that is offered one in cycle after cycle takes it.
Fairness ==
  /\ WF_vars(Next)
  /\ \A e \in End : SF_vars(SourceSubmits(e)) /\ SF_vars(SlaveForwards(e))

FairSpec == Spec /\ Fairness

=============================================================================
