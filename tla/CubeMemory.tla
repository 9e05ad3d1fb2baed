----------------------------- MODULE CubeMemory -----------------------------
(***************************************************************************)
(* What the cube promises to the links: a request that has been accepted   *)
(* is answered exactly once, after every block it covers was accessed.     *)
(* Blocks are accessed, and requests answered, in any order.               *)
(***************************************************************************)
EXTENDS Naturals

CONSTANTS
  Request,         \* the requests
  Blocks(_)        \* the blocks a request covers

VARIABLES
  accepted,        \* requests the cube has taken
  accessed,        \* pairs of a request and a block accessed for it
  answered         \* answered[r]: responses to r that have left

memoryVars == <<accepted, accessed, answered>>

Init ==
  /\ accepted = {}
  /\ accessed = {}
  /\ answered = [r \in Request |-> 0]

Accept(r) ==
  /\ r \notin accepted
  /\ accepted' = accepted \cup {r}
  /\ UNCHANGED <<accessed, answered>>

Access(r, b) ==
  /\ r \in accepted
  /\ <<r, b>> \notin accessed
  /\ accessed' = accessed \cup {<<r, b>>}
  /\ UNCHANGED <<accepted, answered>>

Answer(r) ==
  /\ answered[r] = 0
  /\ \A b \in Blocks(r) : <<r, b>> \in accessed
  /\ answered' = [answered EXCEPT ![r] = 1]
  /\ UNCHANGED <<accepted, accessed>>

Next ==
  \E r \in Request :
    Accept(r) \/ Answer(r) \/ \E b \in Blocks(r) : Access(r, b)

Spec == Init /\ [][Next]_memoryVars
=============================================================================
