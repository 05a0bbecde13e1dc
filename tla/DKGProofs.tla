------------------------------ MODULE DKGProofs ------------------------------
(***************************************************************************)
(* The safety of the generation of one key, for every set of nodes, every   *)
(* K >= 1 and T >= 0 and any number of restarts.                            *)
(*                                                                          *)
(* The argument.  There is one decision (Decided) and everything a node     *)
(* sums up is that set.  A node can prove what it proposes since the        *)
(* sharings it heard about stay in its store until the DKG is cleaned up    *)
(* (Proposable).  The public key only goes out after K nodes sent a NIZKP   *)
(* (Backed), each with a share that only a restart takes away (Lost).       *)
(***************************************************************************)
EXTENDS DKG, FiniteSetTheorems, TLAPS

Senders == {m.from : m \in nizkps}

Decided ==
    /\ \A m \in nizkps : m.sum = decision /\ decision # {}
    /\ \A n \in Nodes : dkgStore[n] # "active" => Dbar[n] = {}
    /\ deciding # {} => decision # {}

Proposable ==
    \A n \in Nodes :
        /\ dkgStore[n] # "complete" => completes[n] \subseteq ended[n]
        /\ dkgStore[n] = "complete" => DMap[n] = {}

Backed ==
    /\ \A n \in Nodes : NIZKPStore[n] \subseteq Senders
    /\ pubKeyWaiting # {} \/ pubKeySent \/ created => Cardinality(Senders) >= K

Lost == Cardinality(Senders \ Holders) <= restarts

IInv ==
    /\ TypeOK
    /\ Decided
    /\ SharesAgree
    /\ Proposable
    /\ ProposalProvable
    /\ Backed
    /\ Lost
-----------------------------------------------------------------------------
\* Sets of nodes are finite, and so is everything counted here.
LEMMA CardinalityOfNodes ==
  ASSUME NEW S \in SUBSET Nodes
  PROVE  /\ IsFiniteSet(S)
         /\ Cardinality(S) \in Nat
         /\ \A R \in SUBSET S : Cardinality(R) \in Nat /\ Cardinality(R) <= Cardinality(S)
         /\ \A x \in Nodes : /\ Cardinality(S \cup {x}) \in Nat
                             /\ Cardinality(S \cup {x}) <= Cardinality(S) + 1
<1>1. IsFiniteSet(S)
  BY NodesAssumption, FS_Subset
<1>2. Cardinality(S) \in Nat
  BY <1>1, FS_CardinalityType
<1>3. \A R \in SUBSET S : Cardinality(R) \in Nat /\ Cardinality(R) <= Cardinality(S)
  <2> TAKE R \in SUBSET S
  <2>1. IsFiniteSet(R) /\ Cardinality(R) <= Cardinality(S)
    BY <1>1, FS_Subset
  <2> QED
    BY <2>1, FS_CardinalityType
<1>4. ASSUME NEW x \in Nodes
      PROVE  Cardinality(S \cup {x}) \in Nat /\ Cardinality(S \cup {x}) <= Cardinality(S) + 1
  <2>1. CASE x \in S
    <3>1. S \cup {x} = S
      BY <2>1
    <3> QED
      BY <1>2, <3>1
  <2>2. CASE x \notin S
    <3>1. Cardinality(S \cup {x}) = Cardinality(S) + 1
      BY <1>1, <2>2, FS_AddElement
    <3> QED
      BY <1>2, <3>1
  <2> QED
    BY <2>1, <2>2
<1> QED
  BY <1>1, <1>2, <1>3, <1>4

\* The senders of NIZKPs are nodes.
LEMMA SendersAreNodes == TypeOK => Senders \in SUBSET Nodes
BY DEF TypeOK, Senders

\* A node that keeps its shares, and a network without new NIZKPs, keep Lost.
LEMMA LostKept ==
  ASSUME TypeOK, Lost, nizkps' = nizkps, restarts' = restarts, Holders \subseteq Holders'
  PROVE  Lost'
<1>1. Senders' = Senders
  BY DEF Senders
<1>2. (Senders \ Holders)' \in SUBSET (Senders \ Holders)
  BY <1>1
<1>3. Senders \ Holders \in SUBSET Nodes
  BY SendersAreNodes
<1>4. /\ Cardinality((Senders \ Holders)') \in Nat /\ Cardinality(Senders \ Holders) \in Nat
      /\ Cardinality((Senders \ Holders)') <= Cardinality(Senders \ Holders)
  BY <1>2, <1>3, CardinalityOfNodes
<1>5. restarts \in Int
  BY DEF TypeOK
<1> QED
  BY <1>4, <1>5 DEF Lost

\* Initially nothing has happened.
LEMMA InitIInv == Init => IInv
<1> SUFFICES ASSUME Init PROVE IInv
  OBVIOUS
<1> USE DEF Init, None
<1>1. TypeOK
  <2>1. \A n \in Nodes : Cardinality(NIZKPStore[n]) < K
    BY FS_EmptySet, ThresholdAssumption
  <2>2. pubKeySent \in BOOLEAN /\ created \in BOOLEAN
    OBVIOUS
  <2>3. restarts \in 0..MaxRestarts
    BY BoundAssumption
  <2> QED
    BY <2>1, <2>2, <2>3 DEF TypeOK
<1>2. Decided /\ SharesAgree /\ Proposable /\ ProposalProvable
  BY DEF Decided, SharesAgree, Proposable, ProposalProvable
<1>3. Senders = {}
  BY DEF Senders
<1>4. Backed
  BY <1>3 DEF Backed
<1>5. Lost
  <2>1. Senders \ Holders = {}
    BY <1>3
  <2> QED
    BY <2>1, FS_EmptySet DEF Lost
<1> QED
  BY <1>1, <1>2, <1>4, <1>5 DEF IInv

\* Ending a sharing only extends what the node can prove.
LEMMA EndSharingIInv ==
  ASSUME IInv, NEW n \in Nodes, NEW d \in Dealers, EndSharing(n, d)
  PROVE  IInv'
<1> USE DEF IInv
<1>0. UNCHANGED <<dkgStore, DMap, staggered, deciding, Dbar, NIZKPStore, storing,
                  pubKeyWaiting, chainVars, nizkps, completedShare, restarts>>
  BY DEF EndSharing
<1>1. TypeOK'
  <2>1. ended' \in [Nodes -> SUBSET Dealers] /\ completes' \in [Nodes -> SUBSET Dealers]
    BY DEF EndSharing, TypeOK
  <2> QED
    BY <1>0, <2>1 DEF TypeOK, chainVars
<1>2. Decided' /\ SharesAgree' /\ Backed'
  BY <1>0 DEF Decided, SharesAgree, Backed, Senders, chainVars
<1>3. Proposable' /\ ProposalProvable'
  BY <1>0 DEF Proposable, ProposalProvable, EndSharing, TypeOK
<1>4. Lost'
  BY <1>0, LostKept DEF Holders
<1> QED
  BY <1>1, <1>2, <1>3, <1>4

\* A complete message adds a sharing that is in the store.
LEMMA ProcessCompleteIInv ==
  ASSUME IInv, NEW n \in Nodes, NEW d \in completes[n], ProcessComplete(n, d)
  PROVE  IInv'
<1> USE DEF IInv
<1>0. UNCHANGED <<ended, deciding, Dbar, NIZKPStore, storing, pubKeyWaiting, chainVars,
                  nizkps, completedShare, restarts>>
  BY DEF ProcessComplete
<1>1. d \in Dealers
  BY DEF TypeOK
<1>2. completes' = [completes EXCEPT ![n] = @ \ {d}]
  BY DEF ProcessComplete
<1>3. \/ /\ dkgStore[n] = "complete" /\ UNCHANGED <<dkgStore, DMap, staggered>>
      \/ /\ dkgStore[n] # "complete"
         /\ dkgStore' = [dkgStore EXCEPT ![n] = "active"]
         /\ DMap' = [DMap EXCEPT ![n] = DMap[n] \cup {d}]
         /\ staggered' \in {staggered, [staggered EXCEPT ![n] = DMap[n] \cup {d}]}
  BY DEF ProcessComplete
<1>4. TypeOK'
  <2>1. completes' \in [Nodes -> SUBSET Dealers]
    BY <1>2 DEF TypeOK
  <2>2. DMap' \in [Nodes -> SUBSET Dealers]
    BY <1>1, <1>3 DEF TypeOK
  <2>3. staggered' \in [Nodes -> SUBSET Dealers]
    <3>1. DMap[n] \cup {d} \in SUBSET Dealers
      BY <1>1 DEF TypeOK
    <3> QED
      BY <1>3, <3>1 DEF TypeOK
  <2>4. dkgStore' \in [Nodes -> {"none", "active", "complete"}]
    BY <1>3 DEF TypeOK
  <2> QED
    BY <1>0, <2>1, <2>2, <2>3, <2>4 DEF TypeOK, chainVars
<1>5. Decided' /\ SharesAgree' /\ Backed'
  <2>1. \A p \in Nodes : dkgStore'[p] # "active" => Dbar'[p] = {}
    BY <1>0, <1>3 DEF Decided, TypeOK
  <2> QED
    BY <1>0, <2>1 DEF Decided, SharesAgree, Backed, Senders, chainVars
<1>6. Proposable' /\ ProposalProvable'
  BY <1>0, <1>2, <1>3 DEF Proposable, ProposalProvable, TypeOK
<1>7. Lost'
  BY <1>0, LostKept DEF Holders
<1> QED
  BY <1>4, <1>5, <1>6, <1>7

\* A proposal, or the decision not to make it, touches nothing else.
LEMMA SendProposeIInv ==
  ASSUME IInv, NEW n \in Nodes, SendPropose(n)
  PROVE  IInv'
<1> USE DEF IInv
<1>0. UNCHANGED <<ended, completes, dkgStore, DMap, deciding, Dbar, NIZKPStore, storing,
                  pubKeyWaiting, decision, decideSeen, pubKeySent, created, pubKeySeen,
                  nizkps, completedShare, restarts>>
  BY DEF SendPropose
<1>1. TypeOK'
  <2>1. staggered' \in [Nodes -> SUBSET Dealers]
    BY DEF SendPropose, TypeOK
  <2>2. staggered[n] \in SUBSET Dealers
    BY DEF TypeOK
  <2>3. proposes' \subseteq SUBSET Dealers
    BY <2>2 DEF SendPropose, TypeOK
  <2> QED
    BY <1>0, <2>1, <2>3 DEF TypeOK
<1>2. Decided' /\ SharesAgree' /\ Backed' /\ Proposable' /\ ProposalProvable'
  BY <1>0 DEF Decided, SharesAgree, Backed, Senders, Proposable, ProposalProvable
<1>3. Lost'
  BY <1>0, LostKept DEF Holders
<1> QED
  BY <1>1, <1>2, <1>3

\* The first proposal decides: no node has summed anything up before it.
LEMMA DeliverProposeIInv ==
  ASSUME IInv, NEW P \in proposes, DeliverPropose(P)
  PROVE  IInv'
<1> USE DEF IInv
<1>0. UNCHANGED <<dkgVars, proposes, decideSeen, pubKeySent, created, pubKeySeen, nizkps,
                  completedShare, restarts>>
  BY DEF DeliverPropose
<1>1. decision = {} /\ decision' = P /\ P \in SUBSET Dealers
  BY DEF DeliverPropose, ProposeAccepted, TypeOK
<1>2. TypeOK'
  BY <1>0, <1>1 DEF TypeOK, dkgVars
<1>3. nizkps = {} /\ deciding = {}
  BY <1>1 DEF Decided
<1>4. Decided' /\ SharesAgree'
  BY <1>0, <1>1, <1>3 DEF Decided, SharesAgree, dkgVars
<1>5. Backed' /\ Proposable' /\ ProposalProvable'
  BY <1>0 DEF Backed, Senders, Proposable, ProposalProvable, dkgVars
<1>6. Lost'
  BY <1>0, LostKept DEF Holders, dkgVars
<1> QED
  BY <1>2, <1>4, <1>5, <1>6

\* A node that executes the deciding transaction starts to wait.
LEMMA DeliverDecideIInv ==
  ASSUME IInv, NEW n \in Nodes, DeliverDecide(n)
  PROVE  IInv'
<1> USE DEF IInv
<1>0. /\ UNCHANGED <<ended, completes, dkgStore, DMap, staggered, Dbar, NIZKPStore, storing,
                     pubKeyWaiting, proposes, decision, pubKeySent, created, pubKeySeen,
                     nizkps, completedShare, restarts>>
      /\ decision # {}
      /\ decideSeen' = decideSeen \cup {n} /\ deciding' = deciding \cup {n}
  BY DEF DeliverDecide
<1>1. TypeOK'
  BY <1>0 DEF TypeOK
<1>2. Decided' /\ SharesAgree' /\ Backed' /\ Proposable' /\ ProposalProvable'
  BY <1>0 DEF Decided, SharesAgree, Backed, Senders, Proposable, ProposalProvable
<1>3. Lost'
  BY <1>0, LostKept DEF Holders
<1> QED
  BY <1>1, <1>2, <1>3

\* The sum is over the decided set, and its NIZKP comes from a node that holds it.
LEMMA ProcessDecideIInv ==
  ASSUME IInv, NEW n \in Nodes, ProcessDecide(n)
  PROVE  IInv'
<1> USE DEF IInv
<1>0. /\ UNCHANGED <<ended, completes, dkgStore, DMap, staggered, NIZKPStore, storing,
                     pubKeyWaiting, chainVars, completedShare, restarts>>
      /\ deciding' = deciding \ {n} /\ decision # {}
  BY DEF ProcessDecide, Decided
<1> DEFINE msg == [from |-> n, sum |-> decision]
<1>1. CASE UNCHANGED <<Dbar, nizkps>>
  <2>1. TypeOK'
    BY <1>0, <1>1 DEF TypeOK, chainVars
  <2>2. Decided' /\ SharesAgree' /\ Backed' /\ Proposable' /\ ProposalProvable'
    BY <1>0, <1>1 DEF Decided, SharesAgree, Backed, Senders, Proposable, ProposalProvable,
                      chainVars
  <2>3. Lost'
    BY <1>0, <1>1, LostKept DEF Holders
  <2> QED
    BY <2>1, <2>2, <2>3
<1>2. CASE /\ dkgStore[n] = "active" /\ SharingsEnded(n)
           /\ Dbar' = [Dbar EXCEPT ![n] = decision \cap ended[n]]
           /\ nizkps' = nizkps \cup {[from |-> n, sum |-> decision \cap ended[n]]}
  <2>1. decision \cap ended[n] = decision
    BY <1>2 DEF SharingsEnded
  <2>2. Dbar' = [Dbar EXCEPT ![n] = decision] /\ nizkps' = nizkps \cup {msg}
    BY <1>2, <2>1
  <2>3. msg \in [from : Nodes, sum : SUBSET Dealers]
    BY DEF TypeOK
  <2>4. TypeOK'
    <3>1. Dbar' \in [Nodes -> SUBSET Dealers]
      BY <2>2 DEF TypeOK
    <3>2. nizkps' \subseteq [from : Nodes, sum : SUBSET Dealers]
      BY <2>2, <2>3 DEF TypeOK
    <3> QED
      BY <1>0, <3>1, <3>2 DEF TypeOK, chainVars
  <2>5. Senders' = Senders \cup {n}
    <3>1. msg.from = n
      OBVIOUS
    <3> HIDE DEF msg
    <3> QED
      BY <2>2, <3>1 DEF Senders
  <2>6. Decided'
    <3>1. \A m \in nizkps' : m.sum = decision
      BY <2>2 DEF Decided
    <3>2. \A p \in Nodes : dkgStore'[p] # "active" => Dbar'[p] = {}
      BY <1>0, <1>2, <2>2 DEF Decided, TypeOK
    <3> QED
      BY <1>0, <3>1, <3>2 DEF Decided, chainVars
  <2>7. SharesAgree' /\ Proposable' /\ ProposalProvable'
    <3>1. \A p \in Nodes : Dbar'[p] \in {{}, decision}
      BY <2>2 DEF SharesAgree, TypeOK
    <3> QED
      BY <1>0, <3>1 DEF SharesAgree, Proposable, ProposalProvable, chainVars
  <2>8. Backed'
    <3>1. Senders \in SUBSET Nodes /\ Senders' \in SUBSET Nodes
      BY <2>5, SendersAreNodes
    <3>2. /\ Cardinality(Senders) \in Nat /\ Cardinality(Senders') \in Nat
          /\ Cardinality(Senders) <= Cardinality(Senders')
      BY <2>5, <3>1, CardinalityOfNodes
    <3>3. Cardinality(Senders) >= K => Cardinality(Senders') >= K
      BY <3>2, ThresholdAssumption
    <3> QED
      BY <1>0, <2>5, <3>3 DEF Backed, chainVars
  <2>9. Lost'
    <3>1. Holders' = Holders \cup {n}
      BY <1>0, <2>2 DEF Holders, TypeOK
    <3>2. (Senders \ Holders)' \in SUBSET (Senders \ Holders)
      BY <2>5, <3>1
    <3>3. Senders \ Holders \in SUBSET Nodes
      BY SendersAreNodes
    <3>4. /\ Cardinality((Senders \ Holders)') \in Nat /\ Cardinality(Senders \ Holders) \in Nat
          /\ Cardinality((Senders \ Holders)') <= Cardinality(Senders \ Holders)
      BY <3>2, <3>3, CardinalityOfNodes
    <3>5. restarts \in Int
      BY DEF TypeOK
    <3> QED
      BY <1>0, <3>4, <3>5 DEF Lost
  <2> QED
    BY <2>4, <2>6, <2>7, <2>8, <2>9
<1> QED
  BY <1>1, <1>2 DEF ProcessDecide

\* The K-th NIZKP proves that K nodes sent one; the share moves on to be stored.
LEMMA ProcessNIZKPIInv ==
  ASSUME IInv, NEW n \in Nodes, NEW m \in nizkps, ProcessNIZKP(n, m)
  PROVE  IInv'
<1> USE DEF IInv
<1> DEFINE senders == NIZKPStore[n] \cup {m.from}
<1>0. UNCHANGED <<completes, staggered, deciding, chainVars, nizkps, completedShare,
                  restarts>>
  BY DEF ProcessNIZKP
<1>1. /\ dkgStore[n] = "active" /\ Dbar[n] # {} /\ Dbar[n] = decision
      /\ Dbar[n] \in SUBSET Dealers
  BY DEF ProcessNIZKP, SharesAgree, TypeOK
<1>2. senders \in SUBSET Senders /\ Senders \in SUBSET Nodes /\ senders \in SUBSET Nodes
      /\ Senders' = Senders
  BY <1>0, SendersAreNodes DEF Backed, Senders
<1>3. /\ Cardinality(senders) \in Nat /\ Cardinality(Senders) \in Nat
      /\ Cardinality(senders) <= Cardinality(Senders)
  BY <1>2, CardinalityOfNodes
<1>4. CASE EnoughNIZKPs(senders)
  <2>1. /\ storing' = [storing EXCEPT ![n] = Dbar[n]]
        /\ pubKeyWaiting' = pubKeyWaiting \cup {n}
        /\ dkgStore' = [dkgStore EXCEPT ![n] = "complete"]
        /\ ended' = [ended EXCEPT ![n] = {}]
        /\ DMap' = [DMap EXCEPT ![n] = {}]
        /\ Dbar' = [Dbar EXCEPT ![n] = {}]
        /\ NIZKPStore' = [NIZKPStore EXCEPT ![n] = {}]
    BY <1>4 DEF ProcessNIZKP, CleanUp
  <2>2. TypeOK'
    <3>1. /\ storing' \in [Nodes -> SUBSET Dealers] /\ Dbar' \in [Nodes -> SUBSET Dealers]
          /\ ended' \in [Nodes -> SUBSET Dealers] /\ DMap' \in [Nodes -> SUBSET Dealers]
      BY <1>1, <2>1 DEF TypeOK
    <3>2. /\ pubKeyWaiting' \subseteq Nodes
          /\ dkgStore' \in [Nodes -> {"none", "active", "complete"}]
          /\ NIZKPStore' \in [Nodes -> SUBSET Nodes]
      BY <2>1 DEF TypeOK
    <3>3. \A p \in Nodes : Cardinality(NIZKPStore'[p]) < K
      BY <2>1, FS_EmptySet, ThresholdAssumption DEF TypeOK
    <3> QED
      BY <1>0, <3>1, <3>2, <3>3 DEF TypeOK, chainVars
  <2>3. Decided' /\ SharesAgree'
    BY <1>0, <1>1, <2>1 DEF Decided, SharesAgree, TypeOK, chainVars
  <2>4. Proposable' /\ ProposalProvable'
    BY <1>0, <2>1 DEF Proposable, ProposalProvable, TypeOK
  <2>5. Backed'
    <3>1. Cardinality(Senders) >= K
      BY <1>3, <1>4, ThresholdAssumption DEF EnoughNIZKPs
    <3>2. \A p \in Nodes : NIZKPStore'[p] \subseteq Senders
      BY <2>1 DEF Backed, TypeOK
    <3> QED
      BY <1>2, <3>1, <3>2 DEF Backed
  <2>6. Lost'
    <3>1. Holders \subseteq Holders'
      BY <1>0, <1>1, <2>1 DEF Holders, TypeOK
    <3> QED
      BY <1>0, <3>1, LostKept
  <2> QED
    BY <2>2, <2>3, <2>4, <2>5, <2>6
<1>5. CASE ~EnoughNIZKPs(senders)
  <2>1. /\ NIZKPStore' = [NIZKPStore EXCEPT ![n] = senders]
        /\ UNCHANGED <<storing, pubKeyWaiting, dkgStore, ended, DMap, Dbar>>
    BY <1>5 DEF ProcessNIZKP
  <2>2. Cardinality(senders) < K
    <3>1. Cardinality(NIZKPStore[n]) < K /\ NIZKPStore[n] \in SUBSET Nodes /\ m.from \in Nodes
      BY DEF TypeOK
    <3>2. /\ Cardinality(NIZKPStore[n]) \in Nat
          /\ Cardinality(senders) <= Cardinality(NIZKPStore[n]) + 1
      BY <3>1, CardinalityOfNodes
    <3> QED
      BY <1>3, <1>5, <3>1, <3>2, ThresholdAssumption DEF EnoughNIZKPs
  <2>3. TypeOK'
    <3>1. NIZKPStore' \in [Nodes -> SUBSET Nodes]
      BY <1>2, <2>1 DEF TypeOK
    <3>2. \A p \in Nodes : Cardinality(NIZKPStore'[p]) < K
      BY <2>1, <2>2 DEF TypeOK
    <3> QED
      BY <1>0, <2>1, <3>1, <3>2 DEF TypeOK, chainVars
  <2>4. Decided' /\ SharesAgree' /\ Proposable' /\ ProposalProvable'
    BY <1>0, <2>1 DEF Decided, SharesAgree, Proposable, ProposalProvable, chainVars
  <2>5. Backed'
    <3>1. \A p \in Nodes : NIZKPStore'[p] \subseteq Senders
      BY <1>2, <2>1 DEF Backed, TypeOK
    <3> QED
      BY <1>0, <1>2, <2>1, <3>1 DEF Backed, chainVars
  <2>6. Lost'
    BY <1>0, <2>1, LostKept DEF Holders
  <2> QED
    BY <2>3, <2>4, <2>5, <2>6
<1> QED
  BY <1>4, <1>5

\* Storing the share, sending the public key, and its way through the chain.
LEMMA OutputIInv ==
  ASSUME IInv, NEW n \in Nodes, Output(n)
  PROVE  IInv'
<1> USE DEF IInv
<1>0. /\ UNCHANGED <<ended, completes, dkgStore, DMap, staggered, deciding, Dbar, NIZKPStore,
                     pubKeyWaiting, chainVars, nizkps, restarts>>
      /\ storing[n] # {}
      /\ completedShare' = [completedShare EXCEPT ![n] = storing[n]]
      /\ storing' = [storing EXCEPT ![n] = {}]
  BY DEF Output
<1>1. TypeOK'
  <2>1. /\ completedShare' \in [Nodes -> SUBSET Dealers]
        /\ storing' \in [Nodes -> SUBSET Dealers]
    BY <1>0 DEF TypeOK
  <2> QED
    BY <1>0, <2>1 DEF TypeOK, chainVars
<1>2. SharesAgree'
  BY <1>0 DEF SharesAgree, TypeOK, chainVars
<1>3. Decided' /\ Backed' /\ Proposable' /\ ProposalProvable'
  BY <1>0 DEF Decided, Backed, Senders, Proposable, ProposalProvable, chainVars
<1>4. Lost'
  <2>1. Holders \subseteq Holders'
    BY <1>0 DEF Holders, TypeOK
  <2> QED
    BY <1>0, <2>1, LostKept
<1> QED
  BY <1>1, <1>2, <1>3, <1>4

LEMMA PubKeyIInv ==
  ASSUME IInv, NEW n \in Nodes, SendPubKey(n) \/ DeliverPubKey \/ ApplyPubKey(n)
  PROVE  IInv'
<1> USE DEF IInv
<1>0. /\ UNCHANGED <<ended, completes, dkgStore, DMap, staggered, deciding, Dbar, NIZKPStore,
                     storing, proposes, decision, decideSeen, nizkps, completedShare, restarts>>
      /\ pubKeyWaiting' \subseteq pubKeyWaiting
      /\ pubKeySeen' \subseteq pubKeySeen \cup {n}
  BY DEF SendPubKey, DeliverPubKey, ApplyPubKey, dkgVars
<1>1. pubKeySent' \in BOOLEAN /\ created' \in BOOLEAN
  BY DEF SendPubKey, DeliverPubKey, ApplyPubKey, TypeOK
<1>2. /\ pubKeySent' => pubKeySent \/ pubKeyWaiting # {}
      /\ created' => created \/ pubKeySent
  BY DEF SendPubKey, DeliverPubKey, ApplyPubKey
<1>3. TypeOK'
  <2>1. pubKeyWaiting' \subseteq Nodes /\ pubKeySeen' \subseteq Nodes
    BY <1>0 DEF TypeOK
  <2> QED
    BY <1>0, <1>1, <2>1 DEF TypeOK
<1>4. Decided' /\ SharesAgree' /\ Proposable' /\ ProposalProvable'
  BY <1>0 DEF Decided, SharesAgree, Proposable, ProposalProvable
<1>5. Backed'
  <2>1. Senders' = Senders
    BY <1>0 DEF Senders
  <2> QED
    BY <1>0, <1>2, <2>1 DEF Backed
<1>6. Lost'
  BY <1>0, LostKept DEF Holders
<1> QED
  BY <1>3, <1>4, <1>5, <1>6

\* A restart takes at most one share away.
LEMMA RestartIInv ==
  ASSUME IInv, NEW n \in Nodes, Restart(n)
  PROVE  IInv'
<1> USE DEF IInv
<1>0. /\ restarts < MaxRestarts /\ restarts' = restarts + 1
      /\ UNCHANGED <<proposes, decision, pubKeySent, created, pubKeySeen, nizkps,
                     completedShare>>
      /\ deciding' \subseteq deciding /\ decideSeen' \subseteq decideSeen
      /\ pubKeyWaiting' \subseteq pubKeyWaiting
  BY DEF Restart
<1>1. /\ dkgStore' = [dkgStore EXCEPT ![n] = "none"]
      /\ ended' = [ended EXCEPT ![n] = {}]
      /\ DMap' = [DMap EXCEPT ![n] = {}]
      /\ Dbar' = [Dbar EXCEPT ![n] = {}]
      /\ NIZKPStore' = [NIZKPStore EXCEPT ![n] = {}]
      /\ completes' = [completes EXCEPT ![n] = {}]
      /\ staggered' = [staggered EXCEPT ![n] = {}]
      /\ storing' = [storing EXCEPT ![n] = {}]
  BY DEF Restart
<1>2. TypeOK'
  <2>1. /\ dkgStore' \in [Nodes -> {"none", "active", "complete"}]
        /\ ended' \in [Nodes -> SUBSET Dealers] /\ DMap' \in [Nodes -> SUBSET Dealers]
        /\ Dbar' \in [Nodes -> SUBSET Dealers] /\ completes' \in [Nodes -> SUBSET Dealers]
    BY <1>1 DEF TypeOK
  <2>2. /\ staggered' \in [Nodes -> SUBSET Dealers] /\ storing' \in [Nodes -> SUBSET Dealers]
        /\ NIZKPStore' \in [Nodes -> SUBSET Nodes]
    BY <1>1 DEF TypeOK
  <2>3. \A p \in Nodes : Cardinality(NIZKPStore'[p]) < K
    BY <1>1, FS_EmptySet, ThresholdAssumption DEF TypeOK
  <2>4. restarts' \in 0..MaxRestarts
    BY <1>0, BoundAssumption DEF TypeOK
  <2>5. deciding' \subseteq Nodes /\ decideSeen' \subseteq Nodes /\ pubKeyWaiting' \subseteq Nodes
    BY <1>0 DEF TypeOK
  <2> QED
    BY <1>0, <2>1, <2>2, <2>3, <2>4, <2>5 DEF TypeOK
<1>3. Decided' /\ SharesAgree' /\ Proposable' /\ ProposalProvable'
  BY <1>0, <1>1 DEF Decided, SharesAgree, Proposable, ProposalProvable, TypeOK
<1>4. Senders' = Senders /\ Senders \in SUBSET Nodes
  BY <1>0, SendersAreNodes DEF Senders
<1>5. Backed'
  BY <1>0, <1>1, <1>4 DEF Backed, TypeOK
<1>6. Lost'
  <2>1. Holders \subseteq Holders' \cup {n}
    BY <1>0, <1>1 DEF Holders, TypeOK
  <2>2. (Senders \ Holders)' \in SUBSET ((Senders \ Holders) \cup {n})
    BY <1>4, <2>1
  <2>3. /\ Senders \ Holders \in SUBSET Nodes
        /\ (Senders \ Holders) \cup {n} \in SUBSET Nodes
    BY <1>4
  <2>4. /\ Cardinality((Senders \ Holders) \cup {n}) \in Nat
        /\ Cardinality(Senders \ Holders) \in Nat
        /\ Cardinality((Senders \ Holders) \cup {n}) <= Cardinality(Senders \ Holders) + 1
    BY <2>3, CardinalityOfNodes
  <2>5. /\ Cardinality((Senders \ Holders)') \in Nat
        /\ Cardinality((Senders \ Holders)') <= Cardinality((Senders \ Holders) \cup {n})
    BY <2>2, <2>3, CardinalityOfNodes
  <2>6. restarts \in Int
    BY DEF TypeOK
  <2> QED
    BY <1>0, <2>4, <2>5, <2>6 DEF Lost
<1> QED
  BY <1>2, <1>3, <1>5, <1>6

\* Every step, of any node or of the chain, preserves the invariant.
LEMMA NextIInv == IInv /\ [Next]_vars => IInv'
<1> SUFFICES ASSUME IInv, [Next]_vars PROVE IInv'
  OBVIOUS
<1>1. CASE UNCHANGED vars
  BY <1>1 DEF vars, dkgVars, chainVars, IInv, TypeOK, Decided, SharesAgree, Proposable,
              ProposalProvable, Backed, Lost, Senders, Holders
<1>2. ASSUME NEW n \in Nodes, Step(n) PROVE IInv'
  BY <1>2, ProcessCompleteIInv, SendProposeIInv, DeliverDecideIInv, ProcessDecideIInv,
     OutputIInv, PubKeyIInv DEF Step
<1>3. CASE DeliverPubKey
  <2>1. Nodes # {}
    <3>1. Senders \in SUBSET Nodes /\ Cardinality(Senders) >= K
      BY <1>3, SendersAreNodes DEF DeliverPubKey, IInv, Backed
    <3> QED
      BY <3>1, FS_EmptySet, ThresholdAssumption
  <2> QED
    BY <1>3, <2>1, PubKeyIInv
<1>4. CASE Next
  BY <1>2, <1>3, <1>4, EndSharingIInv, ProcessNIZKPIInv, DeliverProposeIInv, RestartIInv
  DEF Next
<1> QED
  BY <1>1, <1>4

\* The invariant holds in every state of a key generation.
THEOREM Invariance == Spec => []IInv
BY InitIInv, NextIInv, PTL DEF Spec
-----------------------------------------------------------------------------
\* The stores keep their types, and a node with K NIZKPs has finished: the == in
\* processNIZKPMessage is never jumped over.
THEOREM TypeCorrect == Spec => []TypeOK
<1>1. IInv => TypeOK
  BY DEF IInv
<1> QED
  BY <1>1, Invariance, PTL

\* All stored shares are sums over the one decided set.
THEOREM SharesAgreeHolds == Spec => []SharesAgree
<1>1. IInv => SharesAgree
  BY DEF IInv
<1> QED
  BY <1>1, Invariance, PTL

\* The proposal of a node never fails for want of a commitment.
THEOREM ProposalProvableHolds == Spec => []ProposalProvable
<1>1. IInv => ProposalProvable
  BY DEF IInv
<1> QED
  BY <1>1, Invariance, PTL

\* A created key has K holders, less one for every restart there was.
THEOREM KeyRecoverableHolds == Spec => []KeyRecoverable
<1>1. IInv => KeyRecoverable
  <2> SUFFICES ASSUME IInv, created PROVE Cardinality(Holders) + restarts >= K
    BY DEF KeyRecoverable
  <2>1. Senders \in SUBSET Nodes /\ Holders \in SUBSET Nodes
    BY SendersAreNodes DEF IInv, Holders
  <2>2. IsFiniteSet(Holders) /\ IsFiniteSet(Senders \ Holders)
    BY <2>1, CardinalityOfNodes
  <2>3. (Senders \ Holders) \cap Holders = {}
    OBVIOUS
  <2>4. Cardinality((Senders \ Holders) \cup Holders)
          = Cardinality(Senders \ Holders) + Cardinality(Holders) - Cardinality({})
    BY <2>2, <2>3, FS_Union
  <2>5. Senders \in SUBSET ((Senders \ Holders) \cup Holders)
        /\ (Senders \ Holders) \cup Holders \in SUBSET Nodes
    BY <2>1
  <2>6. Cardinality(Senders) <= Cardinality((Senders \ Holders) \cup Holders)
    BY <2>5, CardinalityOfNodes
  <2>7. /\ Cardinality(Senders) \in Nat /\ Cardinality(Holders) \in Nat
        /\ Cardinality(Senders \ Holders) \in Nat
    BY <2>1, CardinalityOfNodes
  <2>8. restarts \in Nat /\ Cardinality(Senders) >= K /\ Cardinality(Senders \ Holders) <= restarts
    BY DEF IInv, TypeOK, Backed, Lost
  <2> QED
    BY <2>4, <2>6, <2>7, <2>8, FS_EmptySet, ThresholdAssumption
<1> QED
  BY <1>1, Invariance, PTL
=============================================================================
