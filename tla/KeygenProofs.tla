----------------------------- MODULE KeygenProofs -----------------------------
(***************************************************************************)
(* The safety of one secret sharing, for every set of nodes, every K >= 1   *)
(* and T >= 0 and any number of restarts.                                   *)
(*                                                                          *)
(* The argument.  Only one polynomial is ever dealt (OneDealing), so all    *)
(* messages carry one commitment and the counters EC and RC are the numbers *)
(* of distinct senders heard (Counted).  A polynomial is interpolated as    *)
(* soon as one of the two thresholds is met, and only then (Interpolated),  *)
(* which is what the share is read from at the K + T-th ready (EndedState).  *)
(***************************************************************************)
EXTENDS Keygen, FiniteSetTheorems, TLAPS

Dealt(c) == Send(c) \in msgs

OneDealing ==
    /\ dealing => keygenStarted /\ msgs = {}
    /\ msgs # {} => keygenStarted
    /\ \A m1, m2 \in msgs : m1.c = m2.c
    /\ \A m \in msgs : Dealt(m.c)

MessagesValid == \A m \in msgs : Verified(m)

Counted ==
    \A n \in Nodes :
        /\ msgs = {} => receivedEcho[n] = {} /\ receivedReady[n] = {}
        /\ \A c \in Commitments :
              /\ EC[n][c] = IF Dealt(c) THEN Cardinality(receivedEcho[n]) ELSE 0
              /\ RC[n][c] = IF Dealt(c) THEN Cardinality(receivedReady[n]) ELSE 0
              /\ signedText[n][c] = IF Dealt(c) THEN receivedReady[n] ELSE {}
              /\ Dealt(c) => receivedEcho[n] \cup receivedReady[n] \subseteq points[n][c]

Interpolated ==
    \A n \in Nodes, c \in Commitments :
        /\ EC[n][c] >= ecThreshold \/ RC[n][c] >= K => Cardinality(abar[n][c]) >= K
        /\ abar[n][c] # {} => EC[n][c] >= ecThreshold \/ RC[n][c] >= K

EndedState ==
    \A n \in Nodes :
        /\ phase[n] # "Ended" => cbar[n] = NoC
        /\ phase[n] = "Ended" =>
              /\ cbar[n] \in Commitments /\ Dealt(cbar[n])
              /\ Cardinality(si[n]) >= K
              /\ Cardinality(signedText[n][cbar[n]]) = K + T

IInv ==
    /\ TypeOK
    /\ OneDealing
    /\ MessagesValid
    /\ Counted
    /\ Interpolated
    /\ EndedState
-----------------------------------------------------------------------------
(***************************************************************************)
(* Facts about the operators.                                               *)
(***************************************************************************)
LEMMA ThresholdFacts == ecThreshold \in Nat /\ ecThreshold >= K
<1>1. N \in Nat
  BY NodesAssumption, FS_CardinalityType DEF N
<1> QED
  BY <1>1, ThresholdAssumption DEF ecThreshold

LEMMA CardinalityOfNodes ==
  ASSUME NEW S \in SUBSET Nodes
  PROVE  /\ IsFiniteSet(S)
         /\ Cardinality(S) \in Nat
         /\ \A R \in SUBSET S : Cardinality(R) \in Nat /\ Cardinality(R) <= Cardinality(S)
         /\ \A x \in Nodes : x \notin S => Cardinality(S \cup {x}) = Cardinality(S) + 1
         /\ Cardinality(S) >= K => S # {}
<1>1. IsFiniteSet(S)
  BY NodesAssumption, FS_Subset
<1>2. Cardinality(S) \in Nat
  BY <1>1, FS_CardinalityType
<1>3. \A R \in SUBSET S : Cardinality(R) \in Nat /\ Cardinality(R) <= Cardinality(S)
  <2> TAKE R \in SUBSET S
  <2>1. IsFiniteSet(R) /\ Cardinality(R) <= Cardinality(S)
    BY <1>1, FS_Subset
  <2> QED
    BY <2>1, FS_CardinalityType
<1>4. \A x \in Nodes : x \notin S => Cardinality(S \cup {x}) = Cardinality(S) + 1
  BY <1>1, FS_AddElement
<1>5. Cardinality(S) >= K => S # {}
  BY FS_EmptySet, ThresholdAssumption
<1> QED
  BY <1>1, <1>2, <1>3, <1>4, <1>5

LEMMA MessageFacts ==
  ASSUME NEW n \in Nodes, NEW c \in Commitments, NEW S \in SUBSET Nodes
  PROVE  /\ Send(c) \in Message /\ Send(c).c = c /\ Send(c).type = "send"
         /\ Verified(Send(c))
         /\ Echo(n, c) \in Message /\ Echo(n, c).c = c /\ Echo(n, c).type = "echo"
         /\ Verified(Echo(n, c))
         /\ Ready(n, c, S) \in Message /\ Ready(n, c, S).c = c
         /\ Ready(n, c, S).type = "ready"
         /\ Verified(Ready(n, c, S)) <=> Cardinality(S) >= K
BY NodesAssumption, ThresholdAssumption, CardinalityOfNodes
   DEF Send, Echo, Ready, Message, Verified

-----------------------------------------------------------------------------
LEMMA EmptyStore ==
  /\ EmptyCount \in [Commitments -> 0..N]
  /\ EmptySets \in [Commitments -> SUBSET Nodes]
  /\ \A c \in Commitments : EmptyCount[c] = 0 /\ EmptySets[c] = {}
BY NodesAssumption, FS_CardinalityType DEF EmptyCount, EmptySets, N

LEMMA InitIInv == Init => IInv
<1> SUFFICES ASSUME Init PROVE IInv
  OBVIOUS
<1> USE DEF Init
<1>1. TypeOK
  <2>1. keygenStarted \in BOOLEAN /\ dealing \in BOOLEAN
    OBVIOUS
  <2>2. /\ msgs \subseteq Message /\ complete \subseteq Nodes
        /\ restarts \in 0..MaxRestarts
    BY BoundAssumption
  <2>3. /\ phase \in [Nodes -> {"Initial", "Started", "Ended"}]
        /\ receivedEcho \in [Nodes -> SUBSET Nodes]
        /\ receivedReady \in [Nodes -> SUBSET Nodes]
        /\ cbar \in [Nodes -> Commitments \cup {NoC}]
        /\ si \in [Nodes -> SUBSET Nodes]
    OBVIOUS
  <2>4. /\ EC \in [Nodes -> [Commitments -> 0..N]]
        /\ RC \in [Nodes -> [Commitments -> 0..N]]
    BY EmptyStore
  <2>5. /\ points \in [Nodes -> [Commitments -> SUBSET Nodes]]
        /\ signedText \in [Nodes -> [Commitments -> SUBSET Nodes]]
        /\ abar \in [Nodes -> [Commitments -> SUBSET Nodes]]
    BY EmptyStore
  <2> QED
    BY <2>1, <2>2, <2>3, <2>4, <2>5 DEF TypeOK
<1>2. OneDealing /\ MessagesValid
  BY DEF OneDealing, MessagesValid
<1>3. Counted
  BY FS_EmptySet DEF Counted, Dealt, EmptyCount, EmptySets
<1>4. Interpolated
  BY ThresholdFacts, ThresholdAssumption DEF Interpolated, EmptyCount, EmptySets
<1>5. EndedState
  BY DEF EndedState
<1> QED
  BY <1>1, <1>2, <1>3, <1>4, <1>5 DEF IInv

LEMMA ReceiveShareIInv == IInv /\ ReceiveShare => IInv'
<1> SUFFICES ASSUME IInv, ReceiveShare PROVE IInv'
  OBVIOUS
<1> USE DEF IInv, ReceiveShare, nodeVars, store
<1>1. TypeOK'
  BY DEF TypeOK
<1>2. OneDealing'
  BY DEF OneDealing, Dealt
<1>3. MessagesValid' /\ Counted' /\ Interpolated' /\ EndedState'
  BY DEF MessagesValid, Counted, Interpolated, EndedState, Dealt
<1> QED
  BY <1>1, <1>2, <1>3

LEMMA ProcessShareIInv == IInv /\ ProcessShare => IInv'
<1> SUFFICES ASSUME IInv, ProcessShare PROVE IInv'
  OBVIOUS
<1> USE DEF IInv, store
<1>1. CASE UNCHANGED <<msgs, phase>>
  <2>1. TypeOK' /\ OneDealing'
    BY <1>1 DEF TypeOK, OneDealing, Dealt, ProcessShare
  <2>2. MessagesValid' /\ Counted' /\ Interpolated' /\ EndedState'
    BY <1>1 DEF MessagesValid, Counted, Interpolated, EndedState, Dealt, ProcessShare
  <2> QED
    BY <2>1, <2>2
<1>2. ASSUME NEW c \in Commitments, msgs' = msgs \cup {Send(c)},
             phase[Dealer] # "Ended", phase' = [phase EXCEPT ![Dealer] = "Started"]
      PROVE  IInv'
  <2>0. msgs = {} /\ msgs' = {Send(c)}
    BY <1>2 DEF OneDealing, ProcessShare
  <2>1. Send(c) \in Message /\ Send(c).c = c /\ Verified(Send(c))
    BY MessageFacts, NodesAssumption
  <2>2. TypeOK'
    BY <1>2, <2>0, <2>1, NodesAssumption DEF TypeOK, ProcessShare
  <2>3. OneDealing' /\ MessagesValid'
    BY <2>0, <2>1 DEF OneDealing, MessagesValid, Dealt, ProcessShare, Verified
  <2>4. Counted'
    <3>1. \A n \in Nodes : receivedEcho[n] = {} /\ receivedReady[n] = {}
      BY <2>0 DEF Counted
    <3>2. \A n \in Nodes, d \in Commitments :
             EC[n][d] = 0 /\ RC[n][d] = 0 /\ signedText[n][d] = {}
      BY <2>0 DEF Counted, Dealt
    <3>3. Cardinality({}) = 0
      BY FS_EmptySet
    <3>4. UNCHANGED <<receivedEcho, receivedReady, EC, RC, points, signedText>>
      BY DEF ProcessShare
    <3> QED
      <4>1. msgs' # {}
        BY <2>0
      <4>2. \A i \in Nodes : /\ Cardinality(receivedEcho'[i]) = 0
                             /\ Cardinality(receivedReady'[i]) = 0
        BY <3>1, <3>3, <3>4
      <4>3. \A i \in Nodes : receivedEcho'[i] = {} /\ receivedReady'[i] = {}
        BY <3>1, <3>4
      <4>4. \A i \in Nodes, d \in Commitments :
               EC'[i][d] = 0 /\ RC'[i][d] = 0 /\ signedText'[i][d] = {}
        BY <3>2, <3>4
      <4> HIDE DEF IInv
      <4> QED
        BY <4>1, <4>2, <4>3, <4>4 DEF Counted
  <2>5. Interpolated'
    BY DEF Interpolated, ProcessShare
  <2>6. EndedState'
    BY <1>2, <2>0, NodesAssumption DEF EndedState, Dealt, ProcessShare, TypeOK
  <2> QED
    BY <2>2, <2>3, <2>4, <2>5, <2>6
<1> QED
  BY <1>1, <1>2 DEF ProcessShare

\* Two sent messages carry the same commitment, which was dealt.
LEMMA OneCommitment ==
  ASSUME IInv, NEW m \in msgs
  PROVE  /\ m.c \in Commitments /\ Dealt(m.c)
         /\ \A c \in Commitments : Dealt(c) => c = m.c
         /\ m.from \in Nodes
         /\ Verified(m)
         /\ msgs # {}
<1>1. m \in Message
  BY DEF IInv, TypeOK
<1>2. \A c \in Commitments : Dealt(c) => c = m.c
  BY MessageFacts, NodesAssumption DEF IInv, OneDealing, Dealt
<1> QED
  BY <1>1, <1>2 DEF IInv, OneDealing, MessagesValid, Message

LEMMA ProcessSendIInv ==
  ASSUME IInv, NEW n \in Nodes, NEW m \in msgs, ProcessSend(n, m)
  PROVE  IInv'
<1> USE DEF IInv, nodeVars, store
<1>1. /\ m.c \in Commitments /\ Dealt(m.c) /\ msgs # {}
      /\ \A c \in Commitments : Dealt(c) => c = m.c
  BY OneCommitment
<1>2. Echo(n, m.c) \in Message /\ Echo(n, m.c).c = m.c /\ Verified(Echo(n, m.c))
      /\ Echo(n, m.c).type = "echo"
  BY <1>1, MessageFacts
<1>3. \A c \in Commitments : Dealt(c)' <=> Dealt(c)
  BY <1>1, <1>2, MessageFacts, NodesAssumption DEF Dealt, ProcessSend
<1>4. TypeOK'
  BY <1>2 DEF TypeOK, ProcessSend
<1>5. OneDealing' /\ MessagesValid'
  BY <1>1, <1>2 DEF OneDealing, MessagesValid, Dealt, ProcessSend, Verified
<1>6. Counted'
  BY <1>1, <1>3 DEF Counted, ProcessSend
<1>7. Interpolated'
  BY DEF Interpolated, ProcessSend
<1>8. EndedState'
  BY <1>3 DEF EndedState, ProcessSend
<1> QED
  BY <1>4, <1>5, <1>6, <1>7, <1>8

\* Hearing a node for the first time adds one to the number of nodes heard.
LEMMA ProcessEchoIInv ==
  ASSUME IInv, NEW n \in Nodes, NEW m \in msgs, ProcessEcho(n, m)
  PROVE  IInv'
<1> DEFINE c == m.c
           pts == points[n][c] \cup {m.from}
<1> USE DEF IInv
<1>1. /\ c \in Commitments /\ Dealt(c) /\ msgs # {}
      /\ \A d \in Commitments : Dealt(d) => d = c
      /\ m.from \in Nodes /\ Verified(m)
  BY OneCommitment
<1>2. CASE m.from \in receivedEcho[n]
  <2>1. UNCHANGED <<msgs, EC, points, abar>> /\ receivedEcho' = receivedEcho
    BY <1>2 DEF ProcessEcho, EchoAccepted, TypeOK
  <2>2. UNCHANGED vars
    BY <2>1 DEF ProcessEcho, vars, nodeVars, store
  <2> QED
    BY <2>2 DEF vars, nodeVars, store, TypeOK, OneDealing, MessagesValid, Counted,
                Interpolated, EndedState, Dealt
<1>3. CASE m.from \notin receivedEcho[n]
  <2>1. EchoAccepted(n, m)
    BY <1>1, <1>3 DEF EchoAccepted
  <2>2. /\ receivedEcho' = [receivedEcho EXCEPT ![n] = @ \cup {m.from}]
        /\ EC' = [EC EXCEPT ![n][c] = EC[n][c] + 1]
        /\ points' = [points EXCEPT ![n][c] = pts]
    BY <2>1 DEF ProcessEcho
  <2>3. /\ receivedEcho[n] \subseteq points[n][c]
        /\ receivedReady[n] \subseteq points[n][c]
        /\ EC[n][c] = Cardinality(receivedEcho[n])
        /\ EC[n][c] \in Nat /\ RC[n][c] \in Nat
        /\ pts \in SUBSET Nodes
    BY <1>1 DEF Counted, TypeOK
  <2>4. Cardinality(receivedEcho[n] \cup {m.from}) = EC[n][c] + 1
    BY <1>1, <1>3, <2>3, CardinalityOfNodes DEF TypeOK
  <2>5. Cardinality(pts) >= EC[n][c] + 1
    BY <2>3, <2>4, CardinalityOfNodes
  <2>6. Ready(n, c, pts) \in Message /\ Ready(n, c, pts).c = c
        /\ Ready(n, c, pts).type = "ready"
        /\ (Verified(Ready(n, c, pts)) <=> Cardinality(pts) >= K)
    BY <1>1, <2>3, MessageFacts
  <2>7. \/ /\ InterpolateOnEcho(n, c, EC[n][c] + 1)
           /\ abar' = [abar EXCEPT ![n][c] = pts]
           /\ msgs' = msgs \cup {Ready(n, c, pts)}
           /\ Cardinality(pts) >= K
        \/ /\ ~InterpolateOnEcho(n, c, EC[n][c] + 1)
           /\ UNCHANGED <<abar, msgs>>
    <3>1. InterpolateOnEcho(n, c, EC[n][c] + 1) => Cardinality(pts) >= K
      BY <2>3, <2>5, ThresholdFacts, ThresholdAssumption, CardinalityOfNodes
      DEF InterpolateOnEcho
    <3> QED
      BY <2>1, <3>1 DEF ProcessEcho
  <2>8. \A d \in Commitments : Dealt(d)' <=> Dealt(d)
    <3>1. \A d \in Commitments : Send(d) # Ready(n, c, pts)
      BY <2>6, MessageFacts, NodesAssumption
    <3> QED
      BY <2>7, <3>1 DEF Dealt
  <2>0. UNCHANGED <<keygenStarted, dealing, phase, receivedReady, RC, signedText,
                    cbar, si, complete, restarts>>
    BY DEF ProcessEcho
  <2>9. TypeOK'
    <3>1. msgs' \subseteq Message
      <4>1. msgs' \subseteq msgs \cup {Ready(n, c, pts)}
        BY <2>7
      <4> QED
        BY <2>6, <4>1 DEF TypeOK
    <3>2. receivedEcho' \in [Nodes -> SUBSET Nodes]
      BY <1>1, <2>2 DEF TypeOK
    <3>3. EC' \in [Nodes -> [Commitments -> 0..N]]
      <4>1. EC[n][c] + 1 \in 0..N
        BY <1>1, <2>3, <2>4, CardinalityOfNodes DEF TypeOK, N
      <4> QED
        BY <1>1, <2>2, <4>1 DEF TypeOK
    <3>4. points' \in [Nodes -> [Commitments -> SUBSET Nodes]]
      BY <1>1, <2>2, <2>3 DEF TypeOK
    <3>5. abar' \in [Nodes -> [Commitments -> SUBSET Nodes]]
      <4>1. CASE abar' = [abar EXCEPT ![n][c] = pts]
        BY <1>1, <2>3, <4>1 DEF TypeOK
      <4>2. CASE abar' = abar
        BY <4>2 DEF TypeOK
      <4> QED
        BY <2>7, <4>1, <4>2
    <3> QED
      BY <2>0, <3>1, <3>2, <3>3, <3>4, <3>5 DEF TypeOK
  <2>10. OneDealing' /\ MessagesValid'
    <3>1. MessagesValid'
      BY <2>6, <2>7 DEF MessagesValid, Verified
    <3>2. ~dealing
      BY <1>1 DEF OneDealing
    <3>3. \A x \in msgs' : x.c = c
      BY <1>1, <2>6, <2>7 DEF OneDealing
    <3>4. Dealt(c)'
      BY <1>1, <2>8
    <3> QED
      BY <1>1, <2>0, <3>1, <3>2, <3>3, <3>4 DEF OneDealing
  <2>11. Counted'
    <3>1. msgs' # {}
      BY <1>1, <2>7
    <3>2. \A i \in Nodes, d \in Commitments :
             /\ EC'[i][d] = IF Dealt(d) THEN Cardinality(receivedEcho'[i]) ELSE 0
             /\ Dealt(d) => receivedEcho'[i] \cup receivedReady[i] \subseteq points'[i][d]
      BY <1>1, <2>2, <2>3, <2>4 DEF Counted, TypeOK
    <3> QED
      BY <2>0, <2>8, <3>1, <3>2 DEF Counted
  <2>12. Interpolated'
    <3> SUFFICES ASSUME NEW i \in Nodes, NEW d \in Commitments
                 PROVE  /\ EC'[i][d] >= ecThreshold \/ RC'[i][d] >= K
                              => Cardinality(abar'[i][d]) >= K
                        /\ abar'[i][d] # {} => EC'[i][d] >= ecThreshold \/ RC'[i][d] >= K
      BY DEF Interpolated
    <3>1. CASE i = n /\ d = c
      <4>1. EC'[n][c] = EC[n][c] + 1 /\ RC'[n][c] = RC[n][c]
        BY <1>1, <2>0, <2>2 DEF TypeOK
      <4>2. CASE InterpolateOnEcho(n, c, EC[n][c] + 1)
        <5>1. abar'[n][c] = pts /\ Cardinality(pts) >= K
          BY <1>1, <2>7, <4>2 DEF TypeOK
        <5> QED
          BY <3>1, <4>1, <4>2, <5>1, ThresholdFacts DEF InterpolateOnEcho
      <4>3. CASE ~InterpolateOnEcho(n, c, EC[n][c] + 1)
        <5>1. abar'[n][c] = abar[n][c]
          BY <2>7, <4>3
        <5>2. EC[n][c] + 1 # ecThreshold \/ RC[n][c] >= K
          BY <2>3, <4>3, ThresholdAssumption DEF InterpolateOnEcho
        <5>3. /\ EC[n][c] >= ecThreshold \/ RC[n][c] >= K => Cardinality(abar[n][c]) >= K
              /\ abar[n][c] # {} => EC[n][c] >= ecThreshold \/ RC[n][c] >= K
          BY <1>1 DEF Interpolated
        <5> QED
          BY <2>3, <3>1, <4>1, <5>1, <5>2, <5>3, ThresholdFacts, ThresholdAssumption
      <4> QED
        BY <4>2, <4>3
    <3>2. CASE ~(i = n /\ d = c)
      <4>1. EC'[i][d] = EC[i][d] /\ RC'[i][d] = RC[i][d] /\ abar'[i][d] = abar[i][d]
        BY <1>1, <2>0, <2>2, <2>7, <3>2 DEF TypeOK
      <4> QED
        BY <4>1 DEF Interpolated
    <3> QED
      BY <3>1, <3>2
  <2>13. EndedState'
    BY <2>0, <2>8 DEF EndedState
  <2> QED
    BY <2>9, <2>10, <2>11, <2>12, <2>13
<1> QED
  BY <1>2, <1>3

LEMMA ProcessReadyIInv ==
  ASSUME IInv, NEW n \in Nodes, NEW m \in msgs, ProcessReady(n, m)
  PROVE  IInv'
<1> DEFINE c == m.c
           pts == points[n][c] \cup {m.from}
           rc == RC[n][c] + 1
<1> USE DEF IInv
<1>1. /\ c \in Commitments /\ Dealt(c) /\ msgs # {}
      /\ \A d \in Commitments : Dealt(d) => d = c
      /\ m.from \in Nodes /\ Verified(m)
  BY OneCommitment
<1>2. CASE m.from \in receivedReady[n]
  <2>1. /\ UNCHANGED <<phase, RC, points, signedText, abar, cbar, si, msgs>>
        /\ receivedReady' = receivedReady
    BY <1>2 DEF ProcessReady, ReadyAccepted, TypeOK
  <2>2. UNCHANGED vars
    BY <2>1 DEF ProcessReady, vars, nodeVars, store
  <2> QED
    BY <2>2 DEF vars, nodeVars, store, TypeOK, OneDealing, MessagesValid, Counted,
                Interpolated, EndedState, Dealt
<1>3. CASE m.from \notin receivedReady[n]
  <2>0. UNCHANGED <<keygenStarted, dealing, receivedEcho, EC, complete, restarts>>
    BY DEF ProcessReady
  <2>1. ReadyAccepted(n, m)
    BY <1>1, <1>3 DEF ReadyAccepted
  <2>2. /\ receivedReady' = [receivedReady EXCEPT ![n] = @ \cup {m.from}]
        /\ RC' = [RC EXCEPT ![n][c] = rc]
        /\ points' = [points EXCEPT ![n][c] = pts]
        /\ signedText' = [signedText EXCEPT ![n][c] = @ \cup {m.from}]
        /\ phase[n] # "Ended"
    BY <2>1 DEF ProcessReady
  <2>3. /\ receivedEcho[n] \subseteq points[n][c]
        /\ receivedReady[n] \subseteq points[n][c]
        /\ RC[n][c] = Cardinality(receivedReady[n])
        /\ signedText[n][c] = receivedReady[n]
        /\ EC[n][c] \in Nat /\ RC[n][c] \in Nat
        /\ pts \in SUBSET Nodes
    BY <1>1 DEF Counted, TypeOK
  <2>4. Cardinality(receivedReady[n] \cup {m.from}) = rc
    BY <1>1, <1>3, <2>3, CardinalityOfNodes DEF TypeOK
  <2>5. Cardinality(pts) \in Nat /\ Cardinality(pts) >= rc
    BY <2>3, <2>4, CardinalityOfNodes
  <2>6. Ready(n, c, pts) \in Message /\ Ready(n, c, pts).c = c
        /\ Ready(n, c, pts).type = "ready"
        /\ (Verified(Ready(n, c, pts)) <=> Cardinality(pts) >= K)
    BY <1>1, <2>3, MessageFacts
  <2>7. \/ /\ InterpolateOnReady(n, c, rc) /\ Cardinality(pts) >= K
           /\ abar' = [abar EXCEPT ![n][c] = pts]
           /\ msgs' = msgs \cup {Ready(n, c, pts)}
           /\ UNCHANGED <<phase, cbar, si>>
        \/ /\ ~InterpolateOnReady(n, c, rc) /\ rc = K + T
           /\ cbar' = [cbar EXCEPT ![n] = c]
           /\ si' = [si EXCEPT ![n] = abar[n][c]]
           /\ phase' = [phase EXCEPT ![n] = "Ended"]
           /\ UNCHANGED <<abar, msgs>>
        \/ /\ ~InterpolateOnReady(n, c, rc)
           /\ UNCHANGED <<phase, cbar, si, abar, msgs>>
    <3>1. InterpolateOnReady(n, c, rc) => Cardinality(pts) >= K
      BY <2>5, ThresholdAssumption DEF InterpolateOnReady
    <3> QED
      BY <2>1, <3>1 DEF ProcessReady
  <2>8. \A d \in Commitments : Dealt(d)' <=> Dealt(d)
    <3>1. \A d \in Commitments : Send(d) # Ready(n, c, pts)
      BY <2>6, MessageFacts, NodesAssumption
    <3>2. msgs' = msgs \/ msgs' = msgs \cup {Ready(n, c, pts)}
      BY <2>7
    <3> QED
      BY <3>1, <3>2 DEF Dealt
  <2>9. TypeOK'
    <3>1. msgs' \subseteq Message
      <4>1. msgs' \subseteq msgs \cup {Ready(n, c, pts)}
        BY <2>7
      <4> QED
        BY <2>6, <4>1 DEF TypeOK
    <3>2. receivedReady' \in [Nodes -> SUBSET Nodes]
      BY <1>1, <2>2 DEF TypeOK
    <3>3. RC' \in [Nodes -> [Commitments -> 0..N]]
      <4>1. rc \in 0..N
        BY <1>1, <2>3, <2>4, CardinalityOfNodes DEF TypeOK, N
      <4> QED
        BY <1>1, <2>2, <4>1 DEF TypeOK
    <3>4. points' \in [Nodes -> [Commitments -> SUBSET Nodes]]
      BY <1>1, <2>2, <2>3 DEF TypeOK
    <3>5. signedText' \in [Nodes -> [Commitments -> SUBSET Nodes]]
      BY <1>1, <2>2 DEF TypeOK
    <3>6. abar' \in [Nodes -> [Commitments -> SUBSET Nodes]]
      <4>1. CASE abar' = [abar EXCEPT ![n][c] = pts]
        BY <1>1, <2>3, <4>1 DEF TypeOK
      <4>2. CASE abar' = abar
        BY <4>2 DEF TypeOK
      <4> QED
        BY <2>7, <4>1, <4>2
    <3>7. phase' \in [Nodes -> {"Initial", "Started", "Ended"}]
      BY <2>7 DEF TypeOK
    <3>8. cbar' \in [Nodes -> Commitments \cup {NoC}]
      BY <1>1, <2>7 DEF TypeOK
    <3>9. si' \in [Nodes -> SUBSET Nodes]
      <4>1. abar[n][c] \in SUBSET Nodes
        BY <1>1 DEF TypeOK
      <4>2. si' = si \/ si' = [si EXCEPT ![n] = abar[n][c]]
        BY <2>7
      <4> QED
        BY <4>1, <4>2 DEF TypeOK
    <3> QED
      BY <2>0, <3>1, <3>2, <3>3, <3>4, <3>5, <3>6, <3>7, <3>8, <3>9 DEF TypeOK
  <2>10. OneDealing' /\ MessagesValid'
    <3>1. MessagesValid'
      <4>1. CASE msgs' = msgs
        BY <4>1 DEF MessagesValid
      <4>2. CASE msgs' = msgs \cup {Ready(n, c, pts)} /\ Cardinality(pts) >= K
        BY <2>6, <4>2 DEF MessagesValid, Verified
      <4> QED
        BY <2>7, <4>1, <4>2
    <3>2. ~dealing
      BY <1>1 DEF OneDealing
    <3>3. \A x \in msgs' : x.c = c
      <4>1. msgs' \subseteq msgs \cup {Ready(n, c, pts)}
        BY <2>7
      <4> QED
        BY <1>1, <2>6, <4>1 DEF OneDealing
    <3>4. Dealt(c)'
      BY <1>1, <2>8
    <3> QED
      BY <1>1, <2>0, <3>1, <3>2, <3>3, <3>4 DEF OneDealing
  <2>11. Counted'
    <3>1. msgs' # {}
      BY <1>1, <2>7
    <3>2. \A i \in Nodes, d \in Commitments :
             /\ RC'[i][d] = IF Dealt(d) THEN Cardinality(receivedReady'[i]) ELSE 0
             /\ signedText'[i][d] = IF Dealt(d) THEN receivedReady'[i] ELSE {}
             /\ Dealt(d) => receivedEcho[i] \cup receivedReady'[i] \subseteq points'[i][d]
      BY <1>1, <2>2, <2>3, <2>4 DEF Counted, TypeOK
    <3> QED
      BY <2>0, <2>8, <3>1, <3>2 DEF Counted
  <2>12. Interpolated'
    <3> SUFFICES ASSUME NEW i \in Nodes, NEW d \in Commitments
                 PROVE  /\ EC'[i][d] >= ecThreshold \/ RC'[i][d] >= K
                              => Cardinality(abar'[i][d]) >= K
                        /\ abar'[i][d] # {} => EC'[i][d] >= ecThreshold \/ RC'[i][d] >= K
      BY DEF Interpolated
    <3>1. CASE i = n /\ d = c
      <4>1. RC'[n][c] = rc /\ EC'[n][c] = EC[n][c]
        BY <1>1, <2>0, <2>2 DEF TypeOK
      <4>2. CASE InterpolateOnReady(n, c, rc)
        <5>1. abar'[n][c] = pts /\ Cardinality(pts) >= K
          BY <1>1, <2>7, <4>2 DEF TypeOK
        <5> QED
          BY <3>1, <4>1, <4>2, <5>1, ThresholdAssumption DEF InterpolateOnReady
      <4>3. CASE ~InterpolateOnReady(n, c, rc)
        <5>1. abar'[n][c] = abar[n][c]
          BY <2>7, <4>3
        <5>2. rc # K \/ EC[n][c] >= ecThreshold
          BY <2>3, <4>3, ThresholdFacts DEF InterpolateOnReady
        <5>3. /\ EC[n][c] >= ecThreshold \/ RC[n][c] >= K => Cardinality(abar[n][c]) >= K
              /\ abar[n][c] # {} => EC[n][c] >= ecThreshold \/ RC[n][c] >= K
          BY <1>1 DEF Interpolated
        <5> QED
          BY <2>3, <3>1, <4>1, <5>1, <5>2, <5>3, ThresholdFacts, ThresholdAssumption
      <4> QED
        BY <4>2, <4>3
    <3>2. CASE ~(i = n /\ d = c)
      <4>1. EC'[i][d] = EC[i][d] /\ RC'[i][d] = RC[i][d] /\ abar'[i][d] = abar[i][d]
        BY <1>1, <2>0, <2>2, <2>7, <3>2 DEF TypeOK
      <4> QED
        BY <4>1 DEF Interpolated
    <3> QED
      BY <3>1, <3>2
  <2>13. EndedState'
    <3> SUFFICES ASSUME NEW i \in Nodes
                 PROVE  /\ phase'[i] # "Ended" => cbar'[i] = NoC
                        /\ phase'[i] = "Ended" =>
                              /\ cbar'[i] \in Commitments /\ Dealt(cbar'[i])
                              /\ Cardinality(si'[i]) >= K
                              /\ Cardinality(signedText'[i][cbar'[i]]) = K + T
      BY <2>8 DEF EndedState
    <3>1. CASE i # n
      <4>1. /\ phase'[i] = phase[i] /\ cbar'[i] = cbar[i] /\ si'[i] = si[i]
            /\ signedText'[i] = signedText[i]
        BY <2>2, <2>7, <3>1 DEF TypeOK
      <4> QED
        BY <4>1 DEF EndedState
    <3>2. CASE i = n /\ UNCHANGED <<phase, cbar, si>>
      BY <2>2, <3>2 DEF EndedState
    <3>3. CASE /\ i = n /\ ~InterpolateOnReady(n, c, rc) /\ rc = K + T
               /\ cbar' = [cbar EXCEPT ![n] = c]
               /\ si' = [si EXCEPT ![n] = abar[n][c]]
               /\ phase' = [phase EXCEPT ![n] = "Ended"]
      \* The K + T-th ready is past the K-th unless T = 0; then the echo
      \* threshold was met, or the handler would have interpolated instead.
      <4>1. Cardinality(abar[n][c]) >= K
        <5>1. RC[n][c] >= K \/ EC[n][c] >= ecThreshold
          BY <2>3, <3>3, ThresholdAssumption, ThresholdFacts DEF InterpolateOnReady
        <5> QED
          BY <1>1, <5>1 DEF Interpolated
      <4>2. Cardinality(signedText'[n][c]) = K + T
        <5>1. signedText'[n][c] = receivedReady[n] \cup {m.from}
          BY <1>1, <2>2, <2>3 DEF TypeOK
        <5> QED
          BY <2>4, <3>3, <5>1
      <4>3. cbar'[n] = c /\ si'[n] = abar[n][c] /\ phase'[n] = "Ended"
        BY <3>3 DEF TypeOK
      <4> QED
        BY <1>1, <3>3, <4>1, <4>2, <4>3
    <3> QED
      BY <2>7, <3>1, <3>2, <3>3
  <2> QED
    BY <2>9, <2>10, <2>11, <2>12, <2>13
<1> QED
  BY <1>2, <1>3

\* A node that drops its Keygen is back where it was before the first message.
LEMMA ForgetSharingIInv ==
  ASSUME IInv, NEW n \in Nodes, ForgetSharing(n),
         UNCHANGED <<keygenStarted, msgs>>, dealing' => dealing
  PROVE  OneDealing' /\ MessagesValid' /\ Counted' /\ Interpolated' /\ EndedState'
<1> USE DEF IInv, Dealt
<1>1. OneDealing' /\ MessagesValid'
  BY DEF OneDealing, MessagesValid
<1>2. \A i \in Nodes \ {n} :
         /\ phase'[i] = phase[i] /\ cbar'[i] = cbar[i] /\ si'[i] = si[i]
         /\ receivedEcho'[i] = receivedEcho[i] /\ receivedReady'[i] = receivedReady[i]
         /\ EC'[i] = EC[i] /\ RC'[i] = RC[i] /\ points'[i] = points[i]
         /\ signedText'[i] = signedText[i] /\ abar'[i] = abar[i]
  BY DEF ForgetSharing, TypeOK
<1>3. /\ phase'[n] = "Initial" /\ cbar'[n] = NoC
      /\ receivedEcho'[n] = {} /\ receivedReady'[n] = {}
      /\ \A c \in Commitments :
            /\ EC'[n][c] = 0 /\ RC'[n][c] = 0 /\ points'[n][c] = {}
            /\ signedText'[n][c] = {} /\ abar'[n][c] = {}
  BY EmptyStore DEF ForgetSharing, TypeOK
<1>4. Counted'
  <2> SUFFICES ASSUME NEW i \in Nodes, NEW c \in Commitments
               PROVE  /\ msgs' = {} => receivedEcho'[i] = {} /\ receivedReady'[i] = {}
                      /\ EC'[i][c] = IF Dealt(c)' THEN Cardinality(receivedEcho'[i]) ELSE 0
                      /\ RC'[i][c] = IF Dealt(c)' THEN Cardinality(receivedReady'[i]) ELSE 0
                      /\ signedText'[i][c] = IF Dealt(c)' THEN receivedReady'[i] ELSE {}
                      /\ Dealt(c)' =>
                            receivedEcho'[i] \cup receivedReady'[i] \subseteq points'[i][c]
    BY <1>2, <1>3 DEF Counted
  <2>1. CASE i = n
    BY <1>3, <2>1, FS_EmptySet
  <2>2. CASE i # n
    BY <1>2, <2>2 DEF Counted
  <2> QED
    BY <2>1, <2>2
<1>5. Interpolated'
  <2> SUFFICES ASSUME NEW i \in Nodes, NEW c \in Commitments
               PROVE  /\ EC'[i][c] >= ecThreshold \/ RC'[i][c] >= K
                            => Cardinality(abar'[i][c]) >= K
                      /\ abar'[i][c] # {} => EC'[i][c] >= ecThreshold \/ RC'[i][c] >= K
    BY DEF Interpolated
  <2>1. CASE i = n
    BY <1>3, <2>1, ThresholdFacts, ThresholdAssumption
  <2>2. CASE i # n
    BY <1>2, <2>2 DEF Interpolated
  <2> QED
    BY <2>1, <2>2
<1>6. EndedState'
  BY <1>2, <1>3 DEF EndedState
<1> QED
  BY <1>1, <1>4, <1>5, <1>6

LEMMA ForgetSharingType ==
  ASSUME TypeOK, NEW n \in Nodes, ForgetSharing(n)
  PROVE  /\ phase' \in [Nodes -> {"Initial", "Started", "Ended"}]
         /\ receivedEcho' \in [Nodes -> SUBSET Nodes]
         /\ receivedReady' \in [Nodes -> SUBSET Nodes]
         /\ EC' \in [Nodes -> [Commitments -> 0..N]]
         /\ RC' \in [Nodes -> [Commitments -> 0..N]]
         /\ points' \in [Nodes -> [Commitments -> SUBSET Nodes]]
         /\ signedText' \in [Nodes -> [Commitments -> SUBSET Nodes]]
         /\ abar' \in [Nodes -> [Commitments -> SUBSET Nodes]]
         /\ cbar' \in [Nodes -> Commitments \cup {NoC}]
         /\ si' \in [Nodes -> SUBSET Nodes]
<1> USE DEF TypeOK, ForgetSharing
<1>1. /\ phase' \in [Nodes -> {"Initial", "Started", "Ended"}]
      /\ receivedEcho' \in [Nodes -> SUBSET Nodes]
      /\ receivedReady' \in [Nodes -> SUBSET Nodes]
  OBVIOUS
<1>2. /\ EC' \in [Nodes -> [Commitments -> 0..N]]
      /\ RC' \in [Nodes -> [Commitments -> 0..N]]
  BY EmptyStore
<1>3. /\ points' \in [Nodes -> [Commitments -> SUBSET Nodes]]
      /\ signedText' \in [Nodes -> [Commitments -> SUBSET Nodes]]
  BY EmptyStore
<1>4. abar' \in [Nodes -> [Commitments -> SUBSET Nodes]]
  BY EmptyStore
<1>5. cbar' \in [Nodes -> Commitments \cup {NoC}] /\ si' \in [Nodes -> SUBSET Nodes]
  OBVIOUS
<1> QED
  BY <1>1, <1>2, <1>3, <1>4, <1>5

LEMMA CleanUpIInv ==
  ASSUME IInv, NEW n \in Nodes, CleanUp(n)
  PROVE  IInv'
<1>1. ForgetSharing(n) /\ complete' = complete \cup {n}
      /\ UNCHANGED <<keygenStarted, dealing, msgs, restarts>>
  BY DEF CleanUp
<1>2. TypeOK'
  BY <1>1, ForgetSharingType DEF IInv, TypeOK
<1> QED
  BY <1>1, <1>2, ForgetSharingIInv DEF IInv

LEMMA RestartIInv ==
  ASSUME IInv, NEW n \in Nodes, Restart(n)
  PROVE  IInv'
<1>1. ForgetSharing(n) /\ complete' = complete \ {n}
      /\ UNCHANGED <<keygenStarted, msgs>> /\ dealing' = (dealing /\ n # Dealer)
  BY DEF Restart
<1>2. dealing' \in BOOLEAN /\ (dealing' => dealing)
  BY <1>1
<1>3. restarts' \in 0..MaxRestarts
  BY BoundAssumption DEF IInv, TypeOK, Restart
<1>4. TypeOK'
  BY <1>1, <1>2, <1>3, ForgetSharingType DEF IInv, TypeOK
<1> QED
  BY <1>1, <1>2, <1>4, ForgetSharingIInv DEF IInv

LEMMA NextIInv == IInv /\ [Next]_vars => IInv'
<1> SUFFICES ASSUME IInv, [Next]_vars PROVE IInv'
  OBVIOUS
<1>1. CASE UNCHANGED vars
  <2> USE <1>1 DEF vars, nodeVars, store, IInv
  <2>1. TypeOK'
    BY DEF TypeOK
  <2>2. OneDealing' /\ MessagesValid' /\ Interpolated'
    BY DEF OneDealing, MessagesValid, Interpolated, Dealt
  <2>3. Counted' /\ EndedState'
    BY DEF Counted, EndedState, Dealt
  <2> QED
    BY <2>1, <2>2, <2>3
<1>2. CASE ReceiveShare \/ ProcessShare
  BY <1>2, ReceiveShareIInv, ProcessShareIInv
<1>3. CASE \E n \in Nodes : \E m \in msgs : ProcessMessage(n, m)
  BY <1>3, ProcessSendIInv, ProcessEchoIInv, ProcessReadyIInv DEF ProcessMessage
<1>4. CASE \E n \in Nodes : CleanUp(n) \/ Restart(n)
  BY <1>4, CleanUpIInv, RestartIInv
<1> QED
  BY <1>1, <1>2, <1>3, <1>4 DEF Next

\* The invariant holds in every state of a sharing: the four handlers, the clean
\* up and a restart of any node preserve it.
THEOREM Invariance == Spec => []IInv
BY InitIInv, NextIInv, PTL DEF Spec
-----------------------------------------------------------------------------
\* The counters, sets and polynomials of every handler keep their types: in
\* particular no counter of CStore exceeds the number of nodes.
THEOREM TypeCorrect == Spec => []TypeOK
<1>1. IInv => TypeOK
  BY DEF IInv
<1> QED
  BY <1>1, Invariance, PTL

\* All nodes that end the sharing hold the same commitment matrix, for every
\* number of nodes and every K and T, under loss, repetition and reordering of
\* messages and restarts of any node, the dealer included.
THEOREM AgreementHolds == Spec => []Agreement
<1>1. IInv => Agreement
  <2> SUFFICES ASSUME IInv, NEW n \in Nodes, NEW m \in Nodes,
                      cbar[n] # NoC, cbar[m] # NoC
               PROVE  cbar[n] = cbar[m]
    BY DEF Agreement
  <2>1. /\ cbar[n] \in Commitments /\ Dealt(cbar[n])
        /\ cbar[m] \in Commitments /\ Dealt(cbar[m])
    BY DEF IInv, EndedState
  <2>2. Send(cbar[n]).c = cbar[n] /\ Send(cbar[m]).c = cbar[m]
    BY <2>1, MessageFacts, NodesAssumption
  <2> QED
    BY <2>1, <2>2 DEF IInv, OneDealing, Dealt
<1> QED
  BY <1>1, Invariance, PTL

\* Whichever threshold a node reached first, its share is read from a
\* polynomial interpolated over at least K distinct nodes: c.Abar is never nil
\* at the K + T-th ready.
THEOREM SharesInterpolatedHolds == Spec => []SharesInterpolated
<1>1. IInv => SharesInterpolated
  BY DEF IInv, EndedState, SharesInterpolated
<1> QED
  BY <1>1, Invariance, PTL

\* A node that ends holds K + T ready signatures on its commitment.
THEOREM ProofsSufficientHolds == Spec => []ProofsSufficient
<1>1. IInv => ProofsSufficient
  BY DEF IInv, EndedState, ProofsSufficient
<1> QED
  BY <1>1, Invariance, PTL

\* Every ready a node sends is over a polynomial interpolated from K points.
THEOREM ReadyVerifiesHolds == Spec => []ReadyVerifies
<1>1. IInv => ReadyVerifies
  BY DEF IInv, MessagesValid, ReadyVerifies
<1> QED
  BY <1>1, Invariance, PTL

\* A polynomial that was interpolated is not replaced: after the first of the
\* two thresholds neither the echo nor the ready handler interpolates again.
THEOREM PolynomialStableHolds == Spec => PolynomialStable
<1> DEFINE Stable == \A n \in Nodes, c \in Commitments :
                        abar[n][c] # {} => abar'[n][c] \in {abar[n][c], {}}
<1>1. IInv /\ [Next]_vars => [Stable]_vars
  <2> SUFFICES ASSUME IInv, Next, NEW i \in Nodes, NEW d \in Commitments,
                      abar[i][d] # {}
               PROVE  abar'[i][d] = abar[i][d] \/ abar'[i][d] = {}
    OBVIOUS
  <2>1. /\ EC[i][d] >= ecThreshold \/ RC[i][d] >= K
        /\ EC[i][d] \in Nat /\ RC[i][d] \in Nat
        /\ abar \in [Nodes -> [Commitments -> SUBSET Nodes]]
    BY DEF IInv, Interpolated, TypeOK
  <2>2. CASE ReceiveShare \/ ProcessShare
    BY <2>2 DEF ReceiveShare, ProcessShare, nodeVars, store
  <2>3. ASSUME NEW n \in Nodes, NEW m \in msgs, ProcessSend(n, m)
        PROVE  abar'[i][d] = abar[i][d]
    BY <2>3 DEF ProcessSend, nodeVars, store
  <2>4. ASSUME NEW n \in Nodes, NEW m \in msgs, ProcessEcho(n, m)
        PROVE  abar'[i][d] = abar[i][d]
    <3>1. CASE abar' = abar
      BY <3>1
    <3>2. CASE /\ InterpolateOnEcho(n, m.c, EC[n][m.c] + 1)
               /\ abar' = [abar EXCEPT ![n][m.c] = points[n][m.c] \cup {m.from}]
      <4>1. ~(i = n /\ d = m.c)
        BY <2>1, <3>2, ThresholdFacts, ThresholdAssumption DEF InterpolateOnEcho
      <4> QED
        BY <2>1, <3>2, <4>1
    <3> QED
      BY <2>4, <3>1, <3>2 DEF ProcessEcho
  <2>5. ASSUME NEW n \in Nodes, NEW m \in msgs, ProcessReady(n, m)
        PROVE  abar'[i][d] = abar[i][d]
    <3>1. CASE abar' = abar
      BY <3>1
    <3>2. CASE /\ InterpolateOnReady(n, m.c, RC[n][m.c] + 1)
               /\ abar' = [abar EXCEPT ![n][m.c] = points[n][m.c] \cup {m.from}]
      <4>1. ~(i = n /\ d = m.c)
        BY <2>1, <3>2, ThresholdFacts, ThresholdAssumption DEF InterpolateOnReady
      <4> QED
        BY <2>1, <3>2, <4>1
    <3> QED
      BY <2>5, <3>1, <3>2 DEF ProcessReady
  <2>6. ASSUME NEW n \in Nodes, ForgetSharing(n)
        PROVE  abar'[i][d] = abar[i][d] \/ abar'[i][d] = {}
    <3>1. abar' = [abar EXCEPT ![n] = EmptySets]
      BY <2>6 DEF ForgetSharing
    <3> QED
      BY <2>1, <3>1, EmptyStore
  <2> QED
    BY <2>2, <2>3, <2>4, <2>5, <2>6 DEF Next, ProcessMessage, CleanUp, Restart
<1> QED
  BY <1>1, Invariance, PTL DEF Spec, PolynomialStable
-----------------------------------------------------------------------------
\* The commitment that was dealt is the one every message carries.
DealtIsCarried ==
    /\ msgs = {} => DealtCommitment = NoC
    /\ \A m \in msgs : DealtCommitment = m.c /\ DealtCommitment \in Commitments

LEMMA DealtValue == IInv => DealtIsCarried
<1> SUFFICES ASSUME IInv PROVE DealtIsCarried
  OBVIOUS
<1>1. msgs = {} => DealtCommitment = NoC
  BY DEF DealtCommitment
<1>2. ASSUME NEW m \in msgs
      PROVE  DealtCommitment = m.c /\ DealtCommitment \in Commitments
  <2>1. m.c \in Commitments /\ Send(m.c) \in msgs
    BY OneCommitment DEF Dealt
  <2>2. Send(m.c).type = "send"
    BY <2>1, MessageFacts, NodesAssumption
  <2>3. DealtCommitment = (CHOOSE x \in msgs : x.type = "send").c
    BY <2>1, <2>2 DEF DealtCommitment
  <2>4. (CHOOSE x \in msgs : x.type = "send") \in msgs
    BY <2>1, <2>2
  <2> QED
    BY <2>1, <2>3, <2>4 DEF IInv, OneDealing
<1> QED
  BY <1>1, <1>2 DEF DealtIsCarried

\* The protocol of share, send, echo and ready messages implements the abstract
\* sharing: the dealer fixes one commitment, and a node that ends does so with
\* that commitment.
THEOREM Refinement == Spec => ImplementsSharing
<1>1. Init => Abstract!Init
  BY DEF Init, Abstract!Init, DealtCommitment
<1>2. IInv /\ IInv' /\ [Next]_vars => [Abstract!Next]_(Abstract!vars)
  <2> SUFFICES ASSUME IInv, IInv', [Next]_vars
               PROVE  Abstract!Next \/ UNCHANGED <<DealtCommitment, cbar>>
    BY DEF Abstract!vars
  <2>0. /\ msgs = {} => DealtCommitment = NoC
        /\ \A m \in msgs : DealtCommitment = m.c /\ DealtCommitment \in Commitments
    BY DealtValue DEF DealtIsCarried
  <2>1. \A m \in msgs' : DealtCommitment' = m.c /\ DealtCommitment' \in Commitments
    <3>1. IInv' => DealtIsCarried'
      BY DealtValue, PTL
    <3> QED
      BY <3>1 DEF DealtIsCarried
  <2>2. ASSUME NEW m \in msgs, msgs \subseteq msgs'
        PROVE  DealtCommitment' = DealtCommitment
    BY <2>0, <2>1, <2>2
  <2>3. msgs' = msgs => DealtCommitment' = DealtCommitment
    BY DEF DealtCommitment
  <2>4. CASE UNCHANGED vars \/ ReceiveShare
    BY <2>3, <2>4 DEF vars, nodeVars, ReceiveShare
  <2>5. CASE ProcessShare
    <3>1. CASE msgs' = msgs
      BY <2>3, <2>5, <3>1 DEF ProcessShare
    <3>2. CASE \E c \in Commitments : msgs' = msgs \cup {Send(c)}
      <4>1. msgs = {} /\ DealtCommitment = NoC
        BY <2>0, <2>5 DEF ProcessShare, IInv, OneDealing
      <4>2. DealtCommitment' \in Commitments
        BY <2>1, <3>2
      <4>3. Abstract!Deal
        BY <2>5, <4>1, <4>2 DEF Abstract!Deal, ProcessShare
      <4> QED
        BY <4>3 DEF Abstract!Next
    <3> QED
      BY <2>5, <3>1, <3>2 DEF ProcessShare
  <2>6. ASSUME NEW n \in Nodes, NEW m \in msgs, ProcessSend(n, m) \/ ProcessEcho(n, m)
        PROVE  UNCHANGED <<DealtCommitment, cbar>>
    <3>1. msgs \subseteq msgs' /\ cbar' = cbar
      BY <2>6 DEF ProcessSend, ProcessEcho, nodeVars
    <3> QED
      BY <2>2, <3>1
  <2>7. ASSUME NEW n \in Nodes, NEW m \in msgs, ProcessReady(n, m)
        PROVE  Abstract!End(n) \/ UNCHANGED <<DealtCommitment, cbar>>
    <3>1. msgs \subseteq msgs' /\ (cbar' = cbar \/ cbar' = [cbar EXCEPT ![n] = m.c])
      BY <2>7 DEF ProcessReady
    <3>2. cbar[n] = NoC
      BY <2>7 DEF ProcessReady, IInv, EndedState
    <3>3. DealtCommitment = m.c /\ DealtCommitment # NoC
      BY <2>0, CommitmentAssumption
    <3> QED
      BY <2>2, <3>1, <3>2, <3>3 DEF Abstract!End
  <2>8. ASSUME NEW n \in Nodes, CleanUp(n) \/ Restart(n)
        PROVE  Abstract!Forget(n)
    <3>1. msgs' = msgs /\ cbar' = [cbar EXCEPT ![n] = NoC]
      BY <2>8 DEF CleanUp, Restart, ForgetSharing
    <3> QED
      BY <2>3, <3>1 DEF Abstract!Forget
  <2>9. CASE \E n \in Nodes : \E m \in msgs : ProcessMessage(n, m)
    BY <2>6, <2>7, <2>9 DEF ProcessMessage, Abstract!Next
  <2>10. CASE \E n \in Nodes : CleanUp(n) \/ Restart(n)
    BY <2>8, <2>10 DEF Abstract!Next
  <2> QED
    BY <2>4, <2>5, <2>9, <2>10 DEF Next
<1> QED
  BY <1>1, <1>2, Invariance, PTL DEF Spec, ImplementsSharing, Abstract!Spec
=============================================================================
