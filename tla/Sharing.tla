------------------------------- MODULE Sharing -------------------------------
(***************************************************************************)
(* What one secret sharing (one KeygenID) promises to the layer above it   *)
(* (the DKG layer of keygennofsm): its dealer fixes at most one commitment, *)
(* and a node that ends the sharing ends it with that commitment, and with  *)
(* a share that lies on the committed polynomial.  A node that restarts     *)
(* forgets the outcome and may reach it again.                              *)
(***************************************************************************)
CONSTANTS Nodes,        \* the nodes of the epoch
          Commitments,  \* the commitment matrices a dealer may draw
          NoC           \* no commitment

VARIABLES dealt,    \* the commitment that was dealt, or NoC
          outcome   \* the commitment each node ended with, or NoC

vars == <<dealt, outcome>>

Init ==
    /\ dealt = NoC
    /\ outcome = [n \in Nodes |-> NoC]

Deal ==
    /\ dealt = NoC
    /\ dealt' \in Commitments
    /\ UNCHANGED outcome

End(n) ==
    /\ dealt # NoC
    /\ outcome[n] = NoC
    /\ outcome' = [outcome EXCEPT ![n] = dealt]
    /\ UNCHANGED dealt

Forget(n) ==
    /\ outcome' = [outcome EXCEPT ![n] = NoC]
    /\ UNCHANGED dealt

Next == Deal \/ \E n \in Nodes : End(n) \/ Forget(n)

Spec == Init /\ [][Next]_vars
=============================================================================
