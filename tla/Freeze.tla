-------------------------------- MODULE Freeze --------------------------------
(***************************************************************************)
(* The end of an epoch at the nodes that leave it: the outgoingPSSMonitor  *)
(* of each node proposes to freeze the mapping, the chain counts the       *)
(* proposals, and a goroutine of the ABCI application wakes up the monitor, *)
(* which hands the index of the first unassigned key to the mapping and    *)
(* PSS protocols.                                                          *)
(*                                                                          *)
(* The application is deterministic, so the chain is the sequence of its   *)
(* states, one per executed transaction, and a node is at a height of it.  *)
(***************************************************************************)
EXTENDS Integers, Sequences, FiniteSets

CONSTANTS Nodes,        \* the nodes of the ending epoch
          K, T,         \* their thresholds
          MaxAssigns,   \* bound: keys assigned in a behaviour
          MaxRestarts   \* bound: node restarts in a behaviour

ASSUME NodesAssumption == IsFiniteSet(Nodes)
ASSUME ThresholdAssumption == K \in Nat \ {0} /\ T \in Nat
ASSUME BoundAssumption == MaxAssigns \in Nat /\ MaxRestarts \in Nat

VARIABLES
    chain,          \* the application's state after each transaction
    height,         \* transactions a node has executed
    broadcasting,   \* nodes whose proposal is on its way to the chain
    continuing,     \* nodes with a goroutine about to set the FreezeState to 2
    freezeState,    \* FreezeStateData.FreezeState, in memory
    lastIndex,      \* FreezeStateData.LastUnassignedIndex, in memory
    pc,             \* where the outgoingPSSMonitor is
    endIndex,       \* the index mapping and PSS were triggered with
    restarts        \* restarts so far

monitorVars == <<freezeState, lastIndex, pc, endIndex>>
vars == <<chain, height, broadcasting, continuing, monitorVars, restarts>>

Init ==
    /\ chain = <<[lastUnassigned |-> 0, freezes |-> {}]>>
    /\ height = [n \in Nodes |-> 1]
    /\ broadcasting = {}
    /\ continuing = {}
    /\ freezeState = [n \in Nodes |-> 0]
    /\ lastIndex = [n \in Nodes |-> 0]
    /\ pc = [n \in Nodes |-> "check"]
    /\ endIndex = [n \in Nodes |-> 0]
    /\ restarts = 0

\* Mutant of SetFreezeState: keeps the last assigned index, one below the first
\* unassigned one.
SetFreezeStateAssigned(n, state, index) ==
    /\ freezeState' = [freezeState EXCEPT ![n] = state]
    /\ lastIndex' = [lastIndex EXCEPT ![n] = index - 1]

SetFreezeState(n, state, index) ==
    /\ freezeState' = [freezeState EXCEPT ![n] = state]
    /\ lastIndex' = [lastIndex EXCEPT ![n] = index]

\* MappingProposeFreezes has reached K + T nodes.
Frozen(state) == Cardinality(state.freezes) >= K + T
-----------------------------------------------------------------------------
Last == chain[Len(chain)]

\* Mutant of AssignmentAllowed: the freeze does not stop assignments.
AssignmentAllowedFrozen == TRUE

AssignmentAllowed == ~Frozen(Last)

\* An assignment transaction, of a key that is there.
OrderAssignment ==
    /\ Last.lastUnassigned < MaxAssigns
    /\ AssignmentAllowed
    /\ chain' = Append(chain, [Last EXCEPT !.lastUnassigned = @ + 1])
    /\ UNCHANGED <<height, broadcasting, continuing, monitorVars, restarts>>

\* The proposal of n; one that repeats an earlier one is rejected.
OrderFreeze(n) ==
    /\ n \in broadcasting
    /\ broadcasting' = broadcasting \ {n}
    /\ chain' = IF n \in Last.freezes
                THEN chain
                ELSE Append(chain, [Last EXCEPT !.freezes = @ \cup {n}])
    /\ UNCHANGED <<height, continuing, monitorVars, restarts>>

\* SendBroadcast fails, which is only logged.
LoseFreeze(n) ==
    /\ n \in broadcasting
    /\ broadcasting' = broadcasting \ {n}
    /\ UNCHANGED <<chain, height, continuing, monitorVars, restarts>>

\* Node n executes its next transaction; the one that completes the K + T
\* proposals starts the goroutine.
Execute(n) ==
    /\ height[n] < Len(chain)
    /\ height' = [height EXCEPT ![n] = @ + 1]
    /\ continuing' = IF ~Frozen(chain[height[n]]) /\ Frozen(chain[height[n] + 1])
                     THEN continuing \cup {n}
                     ELSE continuing
    /\ UNCHANGED <<chain, broadcasting, monitorVars, restarts>>

\* The goroutine: it reads the index when it runs.
Continue(n) ==
    /\ n \in continuing
    /\ continuing' = continuing \ {n}
    /\ SetFreezeState(n, 2, chain[height[n]].lastUnassigned)
    /\ UNCHANGED <<chain, height, broadcasting, pc, endIndex, restarts>>
-----------------------------------------------------------------------------
\* The monitor's steps.
CheckFreezeState(n) ==
    /\ pc[n] = "check"
    /\ pc' = [pc EXCEPT ![n] = IF freezeState[n] = 0 THEN "propose" ELSE "poll"]
    /\ UNCHANGED <<chain, height, broadcasting, continuing, freezeState, lastIndex, endIndex,
                   restarts>>

ProposeFreeze(n) ==
    /\ pc[n] = "propose"
    /\ pc' = [pc EXCEPT ![n] = "mark"]
    /\ broadcasting' = broadcasting \cup {n}
    /\ UNCHANGED <<chain, height, continuing, freezeState, lastIndex, endIndex, restarts>>

MarkProposed(n) ==
    /\ pc[n] = "mark"
    /\ pc' = [pc EXCEPT ![n] = "poll"]
    /\ SetFreezeState(n, 1, 0)
    /\ UNCHANGED <<chain, height, broadcasting, continuing, endIndex, restarts>>

\* Mutant of ReadyToTrigger: looks for the state it will set itself.
ReadyToTriggerDone(n) == freezeState[n] = 3

\* Mutant of ReadyToTrigger: does not wait for the chain.
ReadyToTriggerEarly(n) == freezeState[n] >= 1

ReadyToTrigger(n) == freezeState[n] = 2

\* The poll that finds state 2, and the two goroutines started after it.
Trigger(n) ==
    /\ pc[n] = "poll"
    /\ ReadyToTrigger(n)
    /\ pc' = [pc EXCEPT ![n] = "triggered"]
    /\ endIndex' = [endIndex EXCEPT ![n] = lastIndex[n]]
    /\ SetFreezeState(n, 3, lastIndex[n])
    /\ UNCHANGED <<chain, height, broadcasting, continuing, restarts>>

Monitor(n) == CheckFreezeState(n) \/ ProposeFreeze(n) \/ MarkProposed(n) \/ Trigger(n)

\* The FreezeState and the goroutines of a node are in memory only, and the
\* application goes back to the state it last committed: Tendermint replays the
\* transactions after it.  Blocks are not modelled, so that may be any earlier one.
Restart(n) ==
    /\ restarts < MaxRestarts
    /\ restarts' = restarts + 1
    /\ continuing' = continuing \ {n}
    /\ SetFreezeState(n, 0, 0)
    /\ pc' = [pc EXCEPT ![n] = "check"]
    /\ endIndex' = [endIndex EXCEPT ![n] = 0]
    /\ \E h \in 1..height[n] : height' = [height EXCEPT ![n] = h]
    /\ UNCHANGED <<chain, broadcasting>>

Next ==
    \/ OrderAssignment
    \/ \E n \in Nodes : \/ OrderFreeze(n) \/ LoseFreeze(n) \/ Execute(n) \/ Continue(n)
                        \/ Monitor(n) \/ Restart(n)

Spec == Init /\ [][Next]_vars

\* A monitor polls on a ticker, goroutines run, and a node that is up executes
\* the chain.
Fairness == \A n \in Nodes : WF_vars(Execute(n)) /\ WF_vars(Continue(n)) /\ WF_vars(Monitor(n))

FairSpec == Spec /\ Fairness
-----------------------------------------------------------------------------
AppState == [lastUnassigned : 0..MaxAssigns, freezes : SUBSET Nodes]

\* The states of the application grow along the chain; every node is at one of
\* them, and FreezeState goes through the monitor's four values.
TypeOK ==
    /\ chain \in Seq(AppState) /\ Len(chain) > 0
    /\ height \in [Nodes -> 1..Len(chain)]
    /\ broadcasting \subseteq Nodes
    /\ continuing \subseteq Nodes
    /\ freezeState \in [Nodes -> 0..3]
    /\ lastIndex \in [Nodes -> 0..MaxAssigns]
    /\ pc \in [Nodes -> {"check", "propose", "mark", "poll", "triggered"}]
    /\ endIndex \in [Nodes -> 0..MaxAssigns]
    /\ restarts \in 0..MaxRestarts

\* The index a node hands to mapping and PSS is final: whatever was ordered
\* between the freeze and the moment the goroutine reads the index
\* (bftruleset.go:484), no node of the epoch ever assigns a key at or past it,
\* so no assigned key is left behind.
EndIndexFinal ==
    \A n \in Nodes : pc[n] = "triggered" =>
        \A h \in DOMAIN chain : chain[h].lastUnassigned <= endIndex[n]

\* Every node that is triggered hands over the same index, so that its summary
\* is counted together with the others' at the new nodes.
EndIndexAgrees ==
    \A m, n \in Nodes : pc[m] = "triggered" /\ pc[n] = "triggered" => endIndex[m] = endIndex[n]

\* A monitor that polls when the freeze is decided triggers mapping and PSS
\* (outgoingPSSMonitor's loop and SetFreezeState(2) of the ABCI application),
\* unless its node restarts and the monitor begins again.
WaitingTriggers ==
    \A n \in Nodes : n \in continuing /\ pc[n] = "poll" ~> pc[n] \in {"triggered", "check"}

\* The comment on the goroutine: "continue pss trigger".  When the application
\* runs it, the monitor of the node goes on to trigger the PSS.
FreezeContinues ==
    \A n \in Nodes : n \in continuing ~> pc[n] = "triggered"
=============================================================================
