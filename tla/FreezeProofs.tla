----------------------------- MODULE FreezeProofs -----------------------------
(***************************************************************************)
(* The index the nodes of an epoch hand over is final, for every number of *)
(* nodes, every threshold and any number of assignments and restarts.      *)
(***************************************************************************)
EXTENDS Freeze, FiniteSetTheorems, TLAPS

\* The chain only grows.
Growing ==
    \A i, j \in DOMAIN chain : i <= j =>
        /\ chain[i].lastUnassigned <= chain[j].lastUnassigned
        /\ chain[i].freezes \subseteq chain[j].freezes

\* From the freeze on the first unassigned index stays.
Settled ==
    \A i, j \in DOMAIN chain : i <= j /\ Frozen(chain[i]) =>
        chain[j].lastUnassigned = chain[i].lastUnassigned

\* A node that was woken up is past the freeze and holds the settled index.
Woken ==
    \A n \in Nodes :
        /\ n \in continuing => Frozen(chain[height[n]])
        /\ freezeState[n] \in {2, 3} => /\ Frozen(chain[height[n]])
                                        /\ lastIndex[n] = chain[height[n]].lastUnassigned
        /\ pc[n] = "triggered" => freezeState[n] \in {2, 3} /\ endIndex[n] = lastIndex[n]

IInv == TypeOK /\ Growing /\ Settled /\ Woken

\* A freeze that includes one with K + T nodes has K + T nodes.
LEMMA FrozenGrows ==
    ASSUME NEW s \in AppState, NEW t \in AppState, s.freezes \subseteq t.freezes, Frozen(s)
    PROVE  Frozen(t)
<1>1. IsFiniteSet(t.freezes) BY FS_Subset, NodesAssumption DEF AppState
<1>2. Cardinality(s.freezes) <= Cardinality(t.freezes) BY <1>1, FS_Subset
<1>3. Cardinality(s.freezes) \in Nat /\ Cardinality(t.freezes) \in Nat
      BY <1>1, FS_Subset, FS_CardinalityType
<1> QED BY <1>2, <1>3, ThresholdAssumption DEF Frozen

\* What the type invariant says of the states of the chain.
LEMMA ChainStates ==
    ASSUME TypeOK
    PROVE  /\ DOMAIN chain = 1..Len(chain) /\ Len(chain) \in Nat /\ Len(chain) > 0
           /\ \A i \in DOMAIN chain : chain[i] \in AppState
           /\ \A n \in Nodes : height[n] \in DOMAIN chain /\ height[n] \in Nat
BY DEF TypeOK

\* Init establishes the invariant.
LEMMA InitIInv == Init => IInv
<1> SUFFICES ASSUME Init PROVE IInv OBVIOUS
<1> DEFINE s == [lastUnassigned |-> 0, freezes |-> {}]
<1>1. s \in AppState BY BoundAssumption DEF AppState
<1>2. chain = <<s>> BY DEF Init
<1> HIDE DEF s
<1>3. chain \in Seq(AppState) /\ Len(chain) = 1 /\ DOMAIN chain = {1} BY <1>1, <1>2
<1>4. height \in [Nodes -> 1..Len(chain)] BY <1>3 DEF Init
<1>5. /\ freezeState \in [Nodes -> 0..3] /\ lastIndex \in [Nodes -> 0..MaxAssigns]
      /\ pc \in [Nodes -> {"check", "propose", "mark", "poll", "triggered"}]
      /\ endIndex \in [Nodes -> 0..MaxAssigns] /\ restarts \in 0..MaxRestarts
      BY BoundAssumption DEF Init
<1>6. TypeOK BY <1>3, <1>4, <1>5 DEF Init, TypeOK, AppState
<1>7. Growing BY <1>1, <1>2, <1>3 DEF Growing, AppState
<1>8. Settled BY <1>3 DEF Settled
<1>9. Woken BY DEF Woken, Init
<1> QED BY <1>6, <1>7, <1>8, <1>9 DEF IInv

\* A new state at the end of the chain that extends the last one keeps the
\* invariant.
LEMMA ChainGrows ==
    ASSUME IInv, NEW s \in AppState, chain' = Append(chain, s),
           Last.lastUnassigned <= s.lastUnassigned, Last.freezes \subseteq s.freezes,
           Frozen(Last) => s.lastUnassigned = Last.lastUnassigned,
           broadcasting' \subseteq Nodes,
           UNCHANGED <<height, continuing, monitorVars, restarts>>
    PROVE  IInv'
<1> DEFINE n == Len(chain)
<1>1. chain \in Seq(AppState) /\ n \in Nat /\ n > 0 /\ DOMAIN chain = 1..n
      BY DEF IInv, TypeOK, AppState
<1>2. /\ chain' \in Seq(AppState) /\ Len(chain)' = n + 1 /\ DOMAIN chain' = 1..(n + 1)
      /\ \A i \in 1..n : chain'[i] = chain[i]
      /\ chain'[n + 1] = s
      BY <1>1
<1>3. \A i \in 1..n : chain[i] \in AppState BY <1>1
<1>4. Last = chain[n] /\ Last \in AppState BY <1>1, <1>3 DEF Last
<1>5. \A i \in 1..n : /\ chain[i].lastUnassigned <= Last.lastUnassigned
                      /\ chain[i].freezes \subseteq Last.freezes
      BY <1>1, <1>4 DEF IInv, Growing
<1> HIDE DEF n
<1>6. \A i \in 1..n : /\ chain[i].lastUnassigned <= s.lastUnassigned
                      /\ chain[i].freezes \subseteq s.freezes
      BY <1>3, <1>4, <1>5 DEF AppState
<1>7. Growing'
  <2> SUFFICES ASSUME NEW i \in 1..(n + 1), NEW j \in 1..(n + 1), i <= j
               PROVE  /\ chain'[i].lastUnassigned <= chain'[j].lastUnassigned
                      /\ chain'[i].freezes \subseteq chain'[j].freezes
      BY <1>2 DEF Growing
  <2>1. CASE j \in 1..n
    <3>1. i \in 1..n BY <2>1, <1>1
    <3> QED BY <2>1, <3>1, <1>1, <1>2 DEF IInv, Growing
  <2>2. CASE j = n + 1 /\ i \in 1..n BY <2>2, <1>2, <1>6
  <2>3. CASE j = n + 1 /\ i = n + 1 BY <2>3, <1>2 DEF AppState
  <2> QED BY <2>1, <2>2, <2>3, <1>1
<1>8. Settled'
  <2> SUFFICES ASSUME NEW i \in 1..(n + 1), NEW j \in 1..(n + 1), i <= j, Frozen(chain'[i])
               PROVE  chain'[j].lastUnassigned = chain'[i].lastUnassigned
      BY <1>2 DEF Settled, Frozen
  <2>1. CASE j \in 1..n
    <3>1. i \in 1..n BY <2>1, <1>1
    <3> QED BY <2>1, <3>1, <1>1, <1>2 DEF IInv, Settled
  <2>2. CASE j = n + 1 /\ i \in 1..n
    <3>1. Frozen(chain[i]) BY <2>2, <1>2
    <3>2. Frozen(Last) BY <3>1, <2>2, <1>3, <1>4, <1>5, FrozenGrows
    <3>3. Last.lastUnassigned = chain[i].lastUnassigned
          BY <3>1, <2>2, <1>1, <1>4 DEF IInv, Settled
    <3> QED BY <3>2, <3>3, <2>2, <1>2
  <2>3. CASE j = n + 1 /\ i = n + 1 BY <2>3
  <2> QED BY <2>1, <2>2, <2>3, <1>1
<1>9. \A m \in Nodes : height[m] \in 1..n /\ chain'[height[m]] = chain[height[m]]
      BY <1>2 DEF IInv, TypeOK, n
<1>10. TypeOK'
  <2>1. height' \in [Nodes -> 1..(n + 1)] BY <1>1, <1>9 DEF IInv, TypeOK
  <2> QED BY <1>1, <1>2, <2>1 DEF IInv, TypeOK, AppState, monitorVars
<1>11. Woken'
       BY <1>9 DEF IInv, Woken, monitorVars, Frozen
<1> QED BY <1>7, <1>8, <1>10, <1>11 DEF IInv

\* The steps of one node leave the chain alone: the invariant is then about
\* that node only.
LEMMA NodeStep ==
    ASSUME IInv, TypeOK', chain' = chain, Woken' PROVE IInv'
BY DEF IInv, Growing, Settled, Frozen

\* The three operations on the chain keep the invariant.
LEMMA OrderIInv ==
    ASSUME IInv,
           OrderAssignment \/ \E n \in Nodes : OrderFreeze(n) \/ LoseFreeze(n)
    PROVE  IInv'
<1>1. Last \in AppState BY ChainStates DEF Last, IInv
<1>2. CASE OrderAssignment
  <2> DEFINE s == [Last EXCEPT !.lastUnassigned = @ + 1]
  <2>1. /\ s \in AppState /\ Last.lastUnassigned <= s.lastUnassigned
        /\ Last.freezes \subseteq s.freezes /\ chain' = Append(chain, s)
        BY <1>1, <1>2, BoundAssumption DEF AppState, OrderAssignment
  <2> HIDE DEF s
  <2>2. /\ ~Frozen(Last) /\ broadcasting' \subseteq Nodes
        /\ UNCHANGED <<height, continuing, monitorVars, restarts>>
        BY <1>2 DEF OrderAssignment, AssignmentAllowed, IInv, TypeOK
  <2> QED BY <2>1, <2>2, ChainGrows
<1>3. ASSUME NEW n \in Nodes, OrderFreeze(n) \/ LoseFreeze(n) PROVE IInv'
  <2>0. broadcasting' \subseteq Nodes /\ UNCHANGED <<height, continuing, monitorVars, restarts>>
        BY <1>3 DEF OrderFreeze, LoseFreeze, IInv, TypeOK
  <2>1. CASE chain' = chain
        BY <2>0, <2>1 DEF IInv, TypeOK, Growing, Settled, Woken, Frozen, monitorVars
  <2>2. CASE chain' = Append(chain, [Last EXCEPT !.freezes = @ \cup {n}])
    <3> DEFINE s == [Last EXCEPT !.freezes = @ \cup {n}]
    <3>1. /\ s \in AppState /\ Last.lastUnassigned = s.lastUnassigned
          /\ Last.freezes \subseteq s.freezes /\ chain' = Append(chain, s)
          BY <1>1, <2>2 DEF AppState
    <3> HIDE DEF s
    <3>2. Last.lastUnassigned <= s.lastUnassigned BY <3>1 DEF AppState
    <3> QED BY <3>1, <3>2, <2>0, ChainGrows
  <2> QED BY <1>3, <2>1, <2>2 DEF OrderFreeze, LoseFreeze
<1> QED BY <1>2, <1>3

\* Executing a transaction keeps the invariant: what holds before the height
\* moves holds after it, since the chain only grows and is settled.
LEMMA ExecuteIInv ==
    ASSUME IInv, NEW n \in Nodes, Execute(n) PROVE IInv'
<1> DEFINE h == height[n]
<1>1. h \in DOMAIN chain /\ h + 1 \in DOMAIN chain /\ h <= h + 1
      BY DEF IInv, TypeOK, Execute
<1>2. chain[h] \in AppState /\ chain[h + 1] \in AppState
      BY <1>1, ChainStates DEF IInv
<1>3. chain[h].freezes \subseteq chain[h + 1].freezes BY <1>1 DEF IInv, Growing
<1>4. Frozen(chain[h]) => /\ Frozen(chain[h + 1])
                          /\ chain[h + 1].lastUnassigned = chain[h].lastUnassigned
      BY <1>1, <1>2, <1>3, FrozenGrows DEF IInv, Settled
<1>5. TypeOK'
  <2>1. height' \in [Nodes -> 1..Len(chain)] BY <1>1 DEF IInv, TypeOK, Execute
  <2>2. continuing' \subseteq Nodes BY DEF IInv, TypeOK, Execute
  <2> QED BY <2>1, <2>2 DEF IInv, TypeOK, Execute, monitorVars
<1>6. chain' = chain /\ UNCHANGED monitorVars BY DEF Execute
<1>7. Woken'
  <2> SUFFICES ASSUME NEW m \in Nodes
      PROVE /\ m \in continuing' => Frozen(chain[height'[m]])
            /\ freezeState[m] \in {2, 3} => /\ Frozen(chain[height'[m]])
                                            /\ lastIndex[m] = chain[height'[m]].lastUnassigned
            /\ pc[m] = "triggered" => freezeState[m] \in {2, 3} /\ endIndex[m] = lastIndex[m]
      BY <1>6 DEF Woken, Frozen, monitorVars
  <2>1. CASE m = n
    <3>1. height'[m] = h + 1 BY <2>1 DEF Execute, IInv, TypeOK
    <3>2. m \in continuing' => Frozen(chain[h + 1])
          BY <1>4, <2>1 DEF Execute, IInv, Woken
    <3> QED BY <2>1, <3>1, <3>2, <1>4 DEF IInv, Woken
  <2>2. CASE m # n
    <3>1. height'[m] = height[m] BY <2>2 DEF Execute, IInv, TypeOK
    <3>2. m \in continuing' => m \in continuing BY <2>2 DEF Execute
    <3> QED BY <3>1, <3>2 DEF IInv, Woken
  <2> QED BY <2>1, <2>2
<1> QED BY <1>5, <1>6, <1>7, NodeStep

\* A restart keeps the invariant: the node is no longer woken.
LEMMA RestartIInv ==
    ASSUME IInv, NEW n \in Nodes, Restart(n) PROVE IInv'
<1> USE DEF SetFreezeState
<1>1. PICK h \in 1..height[n] : height' = [height EXCEPT ![n] = h] BY DEF Restart
<1>2. height' \in [Nodes -> 1..Len(chain)] BY <1>1, ChainStates DEF IInv, TypeOK
<1>3. /\ freezeState' \in [Nodes -> 0..3] /\ lastIndex' \in [Nodes -> 0..MaxAssigns]
      /\ pc' \in [Nodes -> {"check", "propose", "mark", "poll", "triggered"}]
      /\ endIndex' \in [Nodes -> 0..MaxAssigns] /\ restarts' \in 0..MaxRestarts
      BY BoundAssumption DEF IInv, TypeOK, Restart
<1>4. /\ chain' = chain /\ broadcasting' = broadcasting /\ continuing' = continuing \ {n}
      BY DEF Restart
<1>5. TypeOK' BY <1>2, <1>3, <1>4 DEF IInv, TypeOK
<1>6. freezeState'[n] = 0 /\ pc'[n] = "check" BY DEF Restart, IInv, TypeOK
<1>7. \A m \in Nodes : m # n => /\ freezeState'[m] = freezeState[m]
                                /\ lastIndex'[m] = lastIndex[m] /\ height'[m] = height[m]
                                /\ pc'[m] = pc[m] /\ endIndex'[m] = endIndex[m]
      BY <1>1 DEF Restart, IInv, TypeOK
<1>8. Woken'
  <2> SUFFICES ASSUME NEW m \in Nodes
      PROVE /\ m \in continuing' => Frozen(chain[height'[m]])
            /\ freezeState'[m] \in {2, 3} => /\ Frozen(chain[height'[m]])
                                             /\ lastIndex'[m] = chain[height'[m]].lastUnassigned
            /\ pc'[m] = "triggered" => freezeState'[m] \in {2, 3} /\ endIndex'[m] = lastIndex'[m]
      BY <1>4 DEF Woken, Frozen
  <2>1. CASE m = n BY <2>1, <1>4, <1>6
  <2>2. CASE m # n BY <2>2, <1>4, <1>7 DEF IInv, Woken
  <2> QED BY <2>1, <2>2
<1> QED BY <1>4, <1>5, <1>8, NodeStep

\* The goroutine and the monitor keep the invariant.
LEMMA MonitorIInv ==
    ASSUME IInv, NEW n \in Nodes, Continue(n) \/ Monitor(n) PROVE IInv'
<1> USE DEF Monitor, SetFreezeState
<1>1. chain' = chain /\ height' = height /\ continuing' \subseteq continuing
      BY DEF Continue, CheckFreezeState, ProposeFreeze, MarkProposed, Trigger
<1>2. chain[height[n]] \in AppState BY ChainStates DEF IInv
<1>20. chain[height[n]].lastUnassigned \in 0..MaxAssigns BY <1>2 DEF AppState
<1>3. /\ lastIndex' \in [Nodes -> 0..MaxAssigns] /\ endIndex' \in [Nodes -> 0..MaxAssigns]
      /\ freezeState' \in [Nodes -> 0..3]
      /\ pc' \in [Nodes -> {"check", "propose", "mark", "poll", "triggered"}]
  <2> USE <1>20, BoundAssumption DEF IInv, TypeOK
  <2>1. CASE Continue(n) BY <2>1 DEF Continue
  <2>2. CASE CheckFreezeState(n) BY <2>2 DEF CheckFreezeState
  <2>3. CASE ProposeFreeze(n) BY <2>3 DEF ProposeFreeze
  <2>4. CASE MarkProposed(n) BY <2>4 DEF MarkProposed
  <2>5. CASE Trigger(n) BY <2>5 DEF Trigger
  <2> QED BY <2>1, <2>2, <2>3, <2>4, <2>5
<1>5. broadcasting' \subseteq Nodes /\ restarts' \in 0..MaxRestarts
      BY BoundAssumption
      DEF IInv, TypeOK, Continue, CheckFreezeState, ProposeFreeze, MarkProposed, Trigger
<1>6. TypeOK' BY <1>1, <1>3, <1>5 DEF IInv, TypeOK
<1>7. \A m \in Nodes : m # n => /\ freezeState'[m] = freezeState[m]
                                /\ lastIndex'[m] = lastIndex[m]
                                /\ pc'[m] = pc[m] /\ endIndex'[m] = endIndex[m]
      BY DEF IInv, TypeOK, Continue, CheckFreezeState, ProposeFreeze, MarkProposed, Trigger
<1>8. /\ freezeState'[n] \in {2, 3} => /\ Frozen(chain[height[n]])
                                       /\ lastIndex'[n] = chain[height[n]].lastUnassigned
      /\ pc'[n] = "triggered" => freezeState'[n] \in {2, 3} /\ endIndex'[n] = lastIndex'[n]
  <2>1. CASE Continue(n) BY <2>1 DEF Continue, IInv, TypeOK, Woken
  <2>2. CASE CheckFreezeState(n) BY <2>2 DEF CheckFreezeState, IInv, TypeOK, Woken
  <2>3. CASE ProposeFreeze(n) BY <2>3 DEF ProposeFreeze, IInv, TypeOK, Woken
  <2>4. CASE MarkProposed(n) BY <2>4 DEF MarkProposed, IInv, TypeOK, Woken
  <2>5. CASE Trigger(n) BY <2>5 DEF Trigger, ReadyToTrigger, IInv, TypeOK, Woken
  <2> QED BY <2>1, <2>2, <2>3, <2>4, <2>5
<1>9. Woken'
  <2> SUFFICES ASSUME NEW m \in Nodes
      PROVE /\ m \in continuing' => Frozen(chain[height[m]])
            /\ freezeState'[m] \in {2, 3} => /\ Frozen(chain[height[m]])
                                             /\ lastIndex'[m] = chain[height[m]].lastUnassigned
            /\ pc'[m] = "triggered" => freezeState'[m] \in {2, 3} /\ endIndex'[m] = lastIndex'[m]
      BY <1>1 DEF Woken, Frozen
  <2>1. m \in continuing' => Frozen(chain[height[m]]) BY <1>1 DEF IInv, Woken
  <2>2. CASE m = n BY <2>1, <2>2, <1>8
  <2>3. CASE m # n BY <2>1, <2>3, <1>7 DEF IInv, Woken
  <2> QED BY <2>2, <2>3
<1> QED BY <1>1, <1>6, <1>9, NodeStep
-----------------------------------------------------------------------------
\* IInv is inductive: the chain of the epoch grows and is settled by the
\* freeze, and every woken monitor holds the settled index.
THEOREM Invariance == Spec => []IInv
<1>1. ASSUME IInv, [Next]_vars PROVE IInv'
  <2>1. CASE UNCHANGED vars
        BY <1>1, <2>1 DEF vars, monitorVars, IInv, TypeOK, Growing, Settled, Woken, Frozen
  <2>2. CASE Next BY <1>1, <2>2, OrderIInv, ExecuteIInv, MonitorIInv, RestartIInv DEF Next
  <2> QED BY <1>1, <2>1, <2>2
<1> QED BY InitIInv, <1>1, PTL DEF Spec

\* The type invariant holds in every state.
THEOREM TypeCorrect == Spec => []TypeOK
<1>1. IInv => TypeOK BY DEF IInv
<1> QED BY <1>1, Invariance, PTL

\* The index handed to mapping and PSS is final: no key at or past it is ever
\* assigned in the epoch (bftruleset.go:46-50 and 480-486).
THEOREM EndIndexFinalHolds == Spec => []EndIndexFinal
<1>1. IInv => EndIndexFinal
  <2> SUFFICES ASSUME IInv, NEW n \in Nodes, pc[n] = "triggered", NEW h \in DOMAIN chain
               PROVE  chain[h].lastUnassigned <= endIndex[n]
      BY DEF EndIndexFinal
  <2> DEFINE g == height[n]
  <2>0. /\ g \in DOMAIN chain /\ g \in Nat /\ h \in Nat
        /\ chain[g] \in AppState /\ chain[h] \in AppState
        BY ChainStates DEF IInv
  <2>1. /\ g \in DOMAIN chain /\ g \in Nat /\ h \in Nat
        /\ chain[g].lastUnassigned \in Nat /\ chain[h].lastUnassigned \in Nat
        BY <2>0 DEF AppState
  <2>2. Frozen(chain[g]) /\ endIndex[n] = chain[g].lastUnassigned BY DEF IInv, Woken
  <2>3. CASE h <= g BY <2>1, <2>2, <2>3 DEF IInv, Growing
  <2>4. CASE g <= h BY <2>1, <2>2, <2>4 DEF IInv, Settled
  <2> QED BY <2>1, <2>3, <2>4
<1> QED BY <1>1, Invariance, PTL

\* All nodes hand over the same index (outgoingPSSMonitor, ethereum.go:871-880).
THEOREM EndIndexAgreesHolds == Spec => []EndIndexAgrees
<1>1. IInv => EndIndexAgrees
  <2> SUFFICES ASSUME IInv, NEW m \in Nodes, NEW n \in Nodes,
                      pc[m] = "triggered", pc[n] = "triggered"
               PROVE  endIndex[m] = endIndex[n]
      BY DEF EndIndexAgrees
  <2>1. /\ height[m] \in DOMAIN chain /\ height[m] \in Nat
        /\ height[n] \in DOMAIN chain /\ height[n] \in Nat
        BY ChainStates DEF IInv
  <2>2. /\ Frozen(chain[height[m]]) /\ endIndex[m] = chain[height[m]].lastUnassigned
        /\ Frozen(chain[height[n]]) /\ endIndex[n] = chain[height[n]].lastUnassigned
        BY DEF IInv, Woken
  <2>3. CASE height[m] <= height[n] BY <2>1, <2>2, <2>3 DEF IInv, Settled
  <2>4. CASE height[n] <= height[m] BY <2>1, <2>2, <2>4 DEF IInv, Settled
  <2> QED BY <2>1, <2>3, <2>4
<1> QED BY <1>1, Invariance, PTL
=============================================================================
