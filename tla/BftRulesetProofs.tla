--------------------------- MODULE BftRulesetProofs ---------------------------
(***************************************************************************)
(* The safety of the chain state, for every buffer size, every number of    *)
(* nodes and users, and every number of transferred keys.                   *)
(*                                                                          *)
(* The argument.  In the first epoch the started key generations are an     *)
(* initial segment of the naturals and contain every created key, so the    *)
(* count LastCreatedIndex never exceeds the length of the segment (Started, *)
(* Created): EndBlock, which uses the count as an index, leaves no gap.     *)
(* Assigned indexes lie below LastUnassignedIndex, transferred ones below   *)
(* TransferLUI, and the two ranges do not meet once assignments are allowed *)
(* (Assigned), so no index is handed out over an earlier owner.  Until the  *)
(* summary is confirmed LastUnassignedIndex is 0, so the summary can only   *)
(* raise it.                                                                *)
(***************************************************************************)
EXTENDS BftRuleset, FiniteSetTheorems, TLAPS

Started ==
    Epoch = 1 => \A i \in keygenStarted :
                    /\ i < LastUnassignedIndex + KeyBuffer
                    /\ \A j \in 0..i : j \in keygenStarted

Created ==
    Epoch = 1 => /\ KeygenDecisions \subseteq keygenStarted
                 /\ decidedKeys \subseteq KeygenDecisions \ publicKeys
                 /\ publicKeys \subseteq KeygenDecisions
                 /\ LastCreatedIndex = Cardinality(publicKeys)

\* The owner that the previous epoch recorded for a transferred index.
OldOwner(e) == Epoch # 1 /\ e[1] \in Transferred /\ e[2] = Owners[e[1]]

Assigned ==
    /\ \A e \in keyMapping :
          \/ OldOwner(e)
          \/ /\ e[1] < LastUnassignedIndex
             /\ Epoch # 1 => SummaryConfirmed /\ e[1] \notin Transferred
    /\ Epoch # 1 /\ SummaryConfirmed => LastUnassignedIndex >= TransferLUI
    /\ Epoch # 1 /\ ~SummaryConfirmed => LastUnassignedIndex = 0

IInv ==
    /\ TypeOK
    /\ Started
    /\ Created
    /\ Assigned
    /\ AssignedOnce
    /\ BufferNonNegative
-----------------------------------------------------------------------------
(***************************************************************************)
(* A set of naturals without gaps contains the indexes below the size of    *)
(* any of its subsets.                                                      *)
(***************************************************************************)
LEMMA PrefixContainsCount ==
  ASSUME NEW S \in SUBSET Nat, NEW b \in Int,
         \A i \in S : i < b /\ \A j \in 0..i : j \in S,
         NEW P \in SUBSET S
  PROVE  /\ IsFiniteSet(P) /\ Cardinality(P) \in Nat
         /\ \A i \in Nat : i < Cardinality(P) => i \in S
<1>1. S \subseteq 0..b - 1
  OBVIOUS
<1>2. IsFiniteSet(0..b - 1)
  BY FS_Interval
<1>3. IsFiniteSet(P) /\ Cardinality(P) \in Nat
  BY <1>1, <1>2, FS_Subset, FS_CardinalityType
<1>4. ASSUME NEW i \in Nat, i < Cardinality(P), i \notin S
      PROVE  FALSE
  <2>1. P \subseteq 0..i - 1
    <3> SUFFICES ASSUME NEW j \in P, ~(j < i) PROVE FALSE
      OBVIOUS
    <3>1. j \in Nat /\ i \in 0..j
      OBVIOUS
    <3> QED
      BY <1>4, <3>1
  <2>2. IsFiniteSet(0..i - 1) /\ Cardinality(0..i - 1) = i
    <3>1. IsFiniteSet(0..i - 1)
          /\ Cardinality(0..i - 1) = IF 0 > i - 1 THEN 0 ELSE i - 1 - 0 + 1
      BY FS_Interval
    <3> QED
      BY <3>1
  <2>3. Cardinality(P) <= i
    BY <2>1, <2>2, FS_Subset
  <2> QED
    BY <1>3, <1>4, <2>3
<1> QED
  BY <1>3, <1>4

LEMMA CreatedAreStarted ==
  ASSUME IInv, Epoch = 1
  PROVE  /\ IsFiniteSet(publicKeys)
         /\ \A i \in Nat : i < LastCreatedIndex => i \in keygenStarted
<1>1. /\ keygenStarted \in SUBSET Nat
      /\ LastUnassignedIndex + KeyBuffer \in Int
      /\ \A i \in keygenStarted : /\ i < LastUnassignedIndex + KeyBuffer
                                  /\ \A j \in 0..i : j \in keygenStarted
      /\ publicKeys \in SUBSET keygenStarted
      /\ LastCreatedIndex = Cardinality(publicKeys)
  BY BufferAssumption DEF IInv, TypeOK, Started, Created
<1> QED
  BY <1>1, PrefixContainsCount
-----------------------------------------------------------------------------
LEMMA InitIInv == Init => IInv
<1> SUFFICES ASSUME Init PROVE IInv
  OBVIOUS
<1> USE DEF Init
<1>1. TypeOK
  <2>1. thawed \in BOOLEAN
    OBVIOUS
  <2>2. proposeKeys \in [Transferred -> SUBSET Nodes]
    BY DEF NoProposals
  <2> QED
    BY <2>1, <2>2, FailedAssumption DEF TypeOK
<1>2. Started /\ Created
  BY FS_EmptySet DEF Started, Created
<1>3. Assigned /\ AssignedOnce
  <2>1. Cardinality(proposeSummarys) = 0
    BY FS_EmptySet
  <2>2. ~SummaryConfirmed
    BY <2>1, ThresholdAssumption DEF SummaryConfirmed
  <2> QED
    BY <2>2 DEF Assigned, AssignedOnce
<1> QED
  BY <1>1, <1>2, <1>3 DEF IInv, BufferNonNegative

\* AssignedOnce, index by index.
Indexed ==
    \A u \in VerifierIDs, i \in Nat :
        <<i, u>> \in keyMapping <=> i \in verifierToKeyIndex[u]

LEMMA AssignedOnceIndexed == TypeOK => (AssignedOnce <=> Indexed)
<1> SUFFICES ASSUME TypeOK PROVE AssignedOnce <=> Indexed
  OBVIOUS
<1>1. /\ keyMapping \subseteq Nat \X (VerifierIDs \cup {NoOne})
      /\ \A u \in VerifierIDs : verifierToKeyIndex[u] \subseteq Nat
  BY DEF TypeOK
<1>2. ASSUME NEW u \in VerifierIDs, NEW i \in Nat
      PROVE  i \in {e[1] : e \in {f \in keyMapping : f[2] = u}} <=> <<i, u>> \in keyMapping
  <2>1. ASSUME NEW e \in keyMapping, e[2] = u, i = e[1] PROVE <<i, u>> \in keyMapping
    <3>1. e = <<e[1], e[2]>>
      BY <1>1
    <3> QED
      BY <2>1, <3>1
  <2>2. <<i, u>> \in keyMapping =>
           <<i, u>> \in {f \in keyMapping : f[2] = u} /\ <<i, u>>[1] = i
    OBVIOUS
  <2> QED
    BY <2>1, <2>2
<1>3. \A u \in VerifierIDs : {e[1] : e \in {f \in keyMapping : f[2] = u}} \subseteq Nat
  BY <1>1
<1>4. ASSUME AssignedOnce PROVE Indexed
  BY <1>2, <1>4 DEF AssignedOnce, Indexed
<1>5. ASSUME Indexed PROVE AssignedOnce
  <2> SUFFICES ASSUME NEW u \in VerifierIDs, NEW i \in Nat
               PROVE  i \in verifierToKeyIndex[u] <=>
                         i \in {e[1] : e \in {f \in keyMapping : f[2] = u}}
    BY <1>1, <1>3 DEF AssignedOnce
  <2> QED
    BY <1>2, <1>5 DEF Indexed
<1> QED
  BY <1>4, <1>5

\* Storing the owner of an index that has no other owner keeps the lists right.
LEMMA StoreIndexed ==
  ASSUME Indexed, TypeOK, NEW i \in Nat, NEW u \in VerifierIDs \cup {NoOne},
         \A e \in keyMapping : e[1] = i => e[2] = u,
         keyMapping' = StoreKeyMapping(i, u),
         \A w \in VerifierIDs : verifierToKeyIndex'[w] =
             IF w = u THEN verifierToKeyIndex[w] \cup {i} ELSE verifierToKeyIndex[w]
  PROVE  Indexed'
<1> SUFFICES ASSUME NEW w \in VerifierIDs, NEW j \in Nat
             PROVE  <<j, w>> \in keyMapping' <=> j \in verifierToKeyIndex'[w]
  BY DEF Indexed
<1>1. <<j, w>> \in keyMapping <=> j \in verifierToKeyIndex[w]
  BY DEF Indexed
<1>2. <<j, w>> \in keyMapping' <=> (<<j, w>> \in keyMapping /\ j # i) \/ (j = i /\ w = u)
  BY DEF StoreKeyMapping
<1>3. j = i /\ w # u => <<j, w>> \notin keyMapping
  OBVIOUS
<1>4. CASE w = u
  BY <1>1, <1>2, <1>3, <1>4
<1>5. CASE w # u
  BY <1>1, <1>2, <1>3, <1>5
<1> QED
  BY <1>4, <1>5

LEMMA StoreType ==
  ASSUME TypeOK, NEW i \in Nat, NEW u \in VerifierIDs \cup {NoOne}
  PROVE  StoreKeyMapping(i, u) \subseteq Nat \X (VerifierIDs \cup {NoOne})
BY DEF TypeOK, StoreKeyMapping
-----------------------------------------------------------------------------
LEMMA AssignmentIInv ==
  ASSUME IInv, NEW u \in VerifierIDs, DeliverAssignment(u)
  PROVE  IInv'
<1> DEFINE lui == LastUnassignedIndex
<1>0. /\ UNCHANGED <<LastCreatedIndex, KeygenDecisions, decidedKeys, keygenStarted,
                     publicKeys>>
      /\ UNCHANGED <<proposeFreezes, freezeState, frozenIndex>>
      /\ UNCHANGED <<proposeSummarys, proposeKeys, requiredCount, keyCount, thawed>>
      /\ lui \in Nat /\ lui < LastCreatedIndex /\ LastCreatedIndex \in Nat
      /\ Epoch # 1 => SummaryConfirmed
      /\ SummaryConfirmed' <=> SummaryConfirmed
  BY DEF DeliverAssignment, AssignmentAllowed, freezeVars, mappingVars, IInv, TypeOK,
         SummaryConfirmed
<1>1. CASE DumpBuffer \/ PubKeyNotFound
  <2>1. /\ LastUnassignedIndex' \in Nat /\ LastUnassignedIndex' >= lui
        /\ LastUnassignedIndex' <= LastCreatedIndex
        /\ ConsecutiveFailedPubKeyAssigns' \in 0..MaxFailedPubKeyAssigns
        /\ UNCHANGED <<createdKeys, keyMapping, verifierToKeyIndex>>
    BY <1>0, <1>1, FailedAssumption
    DEF DumpBuffer, PubKeyNotFound, assignVars, IInv, TypeOK
  <2>2. TypeOK'
    BY <1>0, <2>1 DEF IInv, TypeOK
  <2>3. Started' /\ Created'
    <3>1. \A i \in keygenStarted : i \in Nat
      BY DEF IInv, TypeOK
    <3>2. Started'
      BY <1>0, <2>1, <3>1, BufferAssumption DEF IInv, Started
    <3> QED
      BY <1>0, <3>2 DEF IInv, Created
  <2>4. Assigned'
    BY <1>0, <2>1, TransferAssumption DEF IInv, TypeOK, Assigned, OldOwner
  <2>5. AssignedOnce' /\ BufferNonNegative'
    BY <1>0, <2>1 DEF IInv, AssignedOnce, BufferNonNegative
  <2> QED
    BY <2>2, <2>3, <2>4, <2>5 DEF IInv
<1>2. CASE AssignKey(u)
  <2>1. /\ LastUnassignedIndex' = lui + 1
        /\ ConsecutiveFailedPubKeyAssigns' = 0
        /\ createdKeys' = createdKeys \ {lui}
        /\ keyMapping' = StoreKeyMapping(lui, u)
        /\ verifierToKeyIndex' = [verifierToKeyIndex EXCEPT ![u] = @ \cup {lui}]
    BY <1>2 DEF AssignKey
  <2>2. TypeOK'
    <3>1. keyMapping' \subseteq Nat \X (VerifierIDs \cup {NoOne})
      BY <1>0, <2>1, StoreType DEF IInv
    <3>2. verifierToKeyIndex' \in [VerifierIDs -> SUBSET Nat]
      BY <1>0, <2>1 DEF IInv, TypeOK
    <3> QED
      BY <1>0, <2>1, <3>1, <3>2, FailedAssumption DEF IInv, TypeOK
  <2>3. Started' /\ Created'
    BY <1>0, <2>1, BufferAssumption DEF IInv, TypeOK, Started, Created
  <2>4. \A e \in keyMapping : e[1] # lui
    BY <1>0, TransferAssumption DEF IInv, TypeOK, Assigned, OldOwner, Transferred
  <2>5. Assigned'
    <3>1. Epoch # 1 => lui \notin Transferred /\ lui >= TransferLUI
      BY <1>0, TransferAssumption DEF IInv, Assigned, Transferred
    <3>2. \A e \in keyMapping' : e \in keyMapping \/ e = <<lui, u>>
      BY <2>1 DEF StoreKeyMapping
    <3>3. \A e \in keyMapping : e[1] \in Nat
      BY DEF IInv, TypeOK
    <3> QED
      BY <1>0, <2>1, <3>1, <3>2, <3>3, TransferAssumption DEF IInv, Assigned, OldOwner
  <2>6. Indexed'
    <3>1. \A w \in VerifierIDs : verifierToKeyIndex'[w] =
             IF w = u THEN verifierToKeyIndex[w] \cup {lui} ELSE verifierToKeyIndex[w]
      BY <2>1 DEF IInv, TypeOK
    <3>2. Indexed
      BY AssignedOnceIndexed DEF IInv
    <3> QED
      BY <1>0, <2>1, <2>4, <3>1, <3>2, StoreIndexed DEF IInv
  <2>7. AssignedOnce'
    <3>1. TypeOK' => (AssignedOnce' <=> Indexed')
      BY AssignedOnceIndexed, PTL
    <3> QED
      BY <2>2, <2>6, <3>1
  <2>8. BufferNonNegative'
    BY <1>0, <2>1 DEF BufferNonNegative
  <2> QED
    BY <2>2, <2>3, <2>5, <2>7, <2>8 DEF IInv
<1> QED
  BY <1>1, <1>2 DEF DeliverAssignment

\* What the parts of the invariant about assignments depend on.
LEMMA AssignedUnchanged ==
  ASSUME IInv, UNCHANGED <<keyMapping, verifierToKeyIndex, LastUnassignedIndex,
                           proposeSummarys>>
  PROVE  Assigned' /\ AssignedOnce'
BY DEF IInv, Assigned, AssignedOnce, OldOwner, SummaryConfirmed

LEMMA ProposeIInv ==
  ASSUME IInv, NEW i \in keygenStarted, DeliverPropose(i)
  PROVE  IInv'
<1>1. /\ KeygenDecisions' = KeygenDecisions \cup {i}
      /\ decidedKeys' = decidedKeys \cup {i} /\ createdKeys' = createdKeys \ {i}
      /\ i \notin KeygenDecisions
      /\ UNCHANGED <<bufferVars, keygenStarted, assignVars, publicKeys, freezeVars,
                     mappingVars>>
  BY DEF DeliverPropose, ProposeAllowed
<1> USE <1>1 DEF bufferVars, assignVars, freezeVars, mappingVars
<1>2. TypeOK'
  BY DEF IInv, TypeOK
<1>3. Started' /\ Created' /\ BufferNonNegative'
  BY DEF IInv, Started, Created, BufferNonNegative
<1> QED
  BY <1>2, <1>3, AssignedUnchanged DEF IInv

LEMMA PubKeyIInv ==
  ASSUME IInv, NEW i \in decidedKeys, DeliverPubKey(i)
  PROVE  IInv'
<1>1. /\ decidedKeys' = decidedKeys \ {i} /\ createdKeys' = createdKeys \cup {i}
      /\ publicKeys' = publicKeys \cup {i}
      /\ LastCreatedIndex' = LastCreatedIndex + 1
      /\ UNCHANGED <<LastUnassignedIndex, ConsecutiveFailedPubKeyAssigns, KeygenDecisions,
                     keygenStarted, keyMapping, verifierToKeyIndex>>
      /\ UNCHANGED <<proposeFreezes, freezeState, frozenIndex>>
      /\ UNCHANGED <<proposeSummarys, proposeKeys, requiredCount, keyCount, thawed>>
  BY DEF DeliverPubKey, assignVars, freezeVars, mappingVars
<1>2. TypeOK'
  BY <1>1 DEF IInv, TypeOK
<1>3. Started'
  BY <1>1 DEF IInv, Started
<1>4. Created'
  <2> SUFFICES ASSUME Epoch = 1
               PROVE  /\ KeygenDecisions \subseteq keygenStarted
                      /\ decidedKeys' \subseteq KeygenDecisions \ publicKeys'
                      /\ publicKeys' \subseteq KeygenDecisions
                      /\ LastCreatedIndex' = Cardinality(publicKeys')
    BY <1>1 DEF Created
  <2>1. i \notin publicKeys /\ IsFiniteSet(publicKeys)
    BY CreatedAreStarted DEF IInv, Created
  <2>2. Cardinality(publicKeys \cup {i}) = Cardinality(publicKeys) + 1
    BY <2>1, FS_AddElement
  <2> QED
    BY <1>1, <2>2 DEF IInv, Created
<1>5. BufferNonNegative'
  BY <1>1 DEF IInv, TypeOK, BufferNonNegative
<1> QED
  BY <1>1, <1>2, <1>3, <1>4, <1>5, AssignedUnchanged DEF IInv

\* EndBlock extends the initial segment of started key generations.
LEMMA EndBlockIInv ==
  ASSUME IInv, EndBlock
  PROVE  IInv'
<1>1. UNCHANGED <<bufferVars, KeygenDecisions, decidedKeys, createdKeys, assignVars,
                  publicKeys, freezeVars, mappingVars>>
  BY DEF EndBlock
<1> USE DEF bufferVars, assignVars, freezeVars, mappingVars
<1>2. \A i \in keygenStarted' :
         \/ i \in keygenStarted
         \/ i \in Int /\ LastCreatedIndex <= i /\ i < LastUnassignedIndex + KeyBuffer
  <2>1. keygenStarted' \subseteq keygenStarted \cup KeygensToStart
    BY DEF EndBlock
  <2>2. LastCreatedIndex \in Nat /\ LastUnassignedIndex \in Nat
    BY DEF IInv, TypeOK
  <2> QED
    BY <2>1, <2>2, BufferAssumption DEF KeygensToStart
<1>3. keygenStarted \subseteq keygenStarted'
  BY DEF EndBlock
<1>4. keygenStarted' \subseteq Nat
  <2>1. LastCreatedIndex \in Nat /\ keygenStarted \subseteq Nat
    BY DEF IInv, TypeOK
  <2> SUFFICES ASSUME NEW i \in keygenStarted' PROVE i \in Nat
    OBVIOUS
  <2>2. CASE i \in keygenStarted
    BY <2>1, <2>2
  <2>3. CASE i \in Int /\ LastCreatedIndex <= i
    BY <2>1, <2>3
  <2> QED
    BY <1>2, <2>2, <2>3
<1>5. TypeOK'
  BY <1>1, <1>4 DEF IInv, TypeOK
<1>6. Started'
  <2> SUFFICES ASSUME Epoch = 1, NEW i \in keygenStarted'
               PROVE  /\ i < LastUnassignedIndex + KeyBuffer
                      /\ \A j \in 0..i : j \in keygenStarted'
    BY <1>1 DEF Started
  <2>1. CASE i \in keygenStarted
    BY <1>3, <2>1 DEF IInv, Started
  <2>2. CASE i \notin keygenStarted
    <3>1. /\ i \in Nat /\ LastCreatedIndex <= i /\ i < LastUnassignedIndex + KeyBuffer
          /\ keygenStarted' = keygenStarted \cup KeygensToStart
      BY <1>2, <1>4, <2>2 DEF EndBlock
    <3>2. \A j \in 0..i : j < LastCreatedIndex => j \in keygenStarted
      BY CreatedAreStarted
    <3>3. \A j \in 0..i : j >= LastCreatedIndex => j \in KeygensToStart
      BY <3>1, BufferAssumption DEF KeygensToStart, IInv, TypeOK
    <3> QED
      BY <3>1, <3>2, <3>3 DEF IInv, TypeOK
  <2> QED
    BY <2>1, <2>2
<1>7. Created' /\ BufferNonNegative'
  BY <1>1, <1>3 DEF IInv, Created, BufferNonNegative
<1> QED
  BY <1>1, <1>5, <1>6, <1>7, AssignedUnchanged DEF IInv

LEMMA FreezeIInv ==
  ASSUME IInv, (\E n \in Nodes : DeliverProposeFreeze(n)) \/ SetFreezeState
  PROVE  IInv'
<1>1. /\ UNCHANGED <<bufferVars, keygenVars, assignVars, publicKeys, mappingVars>>
      /\ proposeFreezes' \subseteq Nodes /\ freezeState' \in 0..2 /\ frozenIndex' \in Nat
  BY DEF DeliverProposeFreeze, SetFreezeState, IInv, TypeOK
<1> USE <1>1 DEF bufferVars, keygenVars, assignVars, mappingVars
<1>2. TypeOK'
  BY DEF IInv, TypeOK
<1>3. Started' /\ Created' /\ BufferNonNegative'
  BY DEF IInv, Started, Created, BufferNonNegative
<1> QED
  BY <1>2, <1>3, AssignedUnchanged DEF IInv

LEMMA ThawType ==
  ASSUME IInv, NEW required \in Nat, NEW count \in Nat,
         NEW proposals \in [Transferred -> SUBSET Nodes],
         Thaw(required, count, proposals)
  PROVE  /\ requiredCount' \in Nat /\ keyCount' \in Nat /\ thawed' \in BOOLEAN
         /\ proposeKeys' \in [Transferred -> SUBSET Nodes]
<1>1. NoProposals \in [Transferred -> SUBSET Nodes]
  BY DEF NoProposals
<1>2. CASE required # 0 /\ required = count
  BY <1>1, <1>2 DEF Thaw
<1>3. CASE ~(required # 0 /\ required = count)
  BY <1>3 DEF Thaw, IInv, TypeOK
<1> QED
  BY <1>2, <1>3

\* The summary is applied once, before any assignment.
LEMMA SummaryIInv ==
  ASSUME IInv, NEW n \in Nodes, DeliverSummary(n)
  PROVE  IInv'
<1>0. /\ UNCHANGED <<ConsecutiveFailedPubKeyAssigns, KeygenDecisions, decidedKeys,
                     createdKeys, keygenStarted, keyMapping, verifierToKeyIndex, publicKeys>>
      /\ UNCHANGED <<proposeFreezes, freezeState, frozenIndex>>
      /\ Epoch # 1 /\ n \notin proposeSummarys
      /\ proposeSummarys' = proposeSummarys \cup {n}
  BY DEF DeliverSummary, keygenVars, assignVars, freezeVars
<1>1. /\ Cardinality(proposeSummarys) \in Nat
      /\ Cardinality(proposeSummarys') = Cardinality(proposeSummarys) + 1
  <2>1. IsFiniteSet(proposeSummarys)
    BY NodesAssumption, FS_Subset DEF IInv, TypeOK
  <2> QED
    BY <1>0, <2>1, FS_CardinalityType, FS_AddElement
<1>2. Started' /\ Created'
  BY <1>0 DEF Started, Created
<1>3. AssignedOnce'
  BY <1>0 DEF IInv, AssignedOnce
<1>4. CASE Cardinality(proposeSummarys') = K
  <2>1. ~SummaryConfirmed /\ SummaryConfirmed'
    BY <1>1, <1>4, ThresholdAssumption DEF SummaryConfirmed
  <2>2. /\ LastUnassignedIndex' = TransferLUI
        /\ LastCreatedIndex' \in Nat /\ LastCreatedIndex' >= TransferLUI
        /\ Thaw(TransferLUI, keyCount, proposeKeys)
    BY <1>4, TransferAssumption DEF DeliverSummary, ApplySummary, IInv, TypeOK
  <2>3. TypeOK'
    <3>1. /\ requiredCount' \in Nat /\ keyCount' \in Nat /\ thawed' \in BOOLEAN
          /\ proposeKeys' \in [Transferred -> SUBSET Nodes]
      BY <2>2, TransferAssumption, ThawType DEF IInv, TypeOK
    <3> QED
      BY <1>0, <2>2, <3>1, TransferAssumption DEF IInv, TypeOK
  <2>4. Assigned'
    BY <1>0, <2>1, <2>2, TransferAssumption DEF IInv, Assigned, OldOwner
  <2>5. BufferNonNegative'
    BY <2>2 DEF BufferNonNegative
  <2> QED
    BY <1>2, <1>3, <2>3, <2>4, <2>5 DEF IInv
<1>5. CASE Cardinality(proposeSummarys') # K
  <2>1. SummaryConfirmed' <=> SummaryConfirmed
    BY <1>1, <1>5, ThresholdAssumption DEF SummaryConfirmed
  <2>2. UNCHANGED <<LastUnassignedIndex, LastCreatedIndex, requiredCount, keyCount,
                    proposeKeys, thawed>>
    BY <1>5 DEF DeliverSummary
  <2>3. TypeOK'
    BY <1>0, <2>2 DEF IInv, TypeOK
  <2>4. Assigned' /\ BufferNonNegative'
    BY <1>0, <2>1, <2>2 DEF IInv, Assigned, OldOwner, BufferNonNegative
  <2> QED
    BY <1>2, <1>3, <2>3, <2>4 DEF IInv
<1> QED
  BY <1>4, <1>5

LEMMA KeyIInv ==
  ASSUME IInv, NEW n \in Nodes, NEW i \in Transferred, DeliverKey(n, i)
  PROVE  IInv'
<1> DEFINE proposals == [proposeKeys EXCEPT ![i] = @ \cup {n}]
<1>0. /\ UNCHANGED <<LastUnassignedIndex, LastCreatedIndex, ConsecutiveFailedPubKeyAssigns>>
      /\ UNCHANGED <<KeygenDecisions, decidedKeys, createdKeys, keygenStarted>>
      /\ UNCHANGED <<proposeFreezes, freezeState, frozenIndex, proposeSummarys>>
      /\ Epoch # 1
      /\ proposals \in [Transferred -> SUBSET Nodes]
      /\ i \in Nat /\ Owners[i] \in VerifierIDs \cup {NoOne}
  BY TransferAssumption
  DEF DeliverKey, bufferVars, keygenVars, freezeVars, IInv, TypeOK, Transferred
<1>1. Started' /\ Created' /\ BufferNonNegative'
  BY <1>0 DEF IInv, Started, Created, BufferNonNegative
<1>2. CASE KeyConfirmed(proposals, i)
  <2>1. /\ publicKeys' = publicKeys \cup {i}
        /\ keyMapping' = StoreKeyMapping(i, Owners[i])
        /\ verifierToKeyIndex' = [u \in VerifierIDs |->
              IF u = Owners[i] THEN verifierToKeyIndex[u] \cup {i} ELSE verifierToKeyIndex[u]]
        /\ Thaw(requiredCount, keyCount + 1, proposals)
    BY <1>2 DEF DeliverKey, ApplyKey
  <2>2. TypeOK'
    <3>1. /\ requiredCount' \in Nat /\ keyCount' \in Nat /\ thawed' \in BOOLEAN
          /\ proposeKeys' \in [Transferred -> SUBSET Nodes]
      <4>1. requiredCount \in Nat /\ keyCount + 1 \in Nat
        BY DEF IInv, TypeOK
      <4> QED
        BY <1>0, <2>1, <4>1, ThawType
    <3>2. keyMapping' \subseteq Nat \X (VerifierIDs \cup {NoOne})
      BY <1>0, <2>1, StoreType DEF IInv
    <3>3. verifierToKeyIndex' \in [VerifierIDs -> SUBSET Nat]
      BY <1>0, <2>1 DEF IInv, TypeOK
    <3> QED
      BY <1>0, <2>1, <3>1, <3>2, <3>3 DEF IInv, TypeOK
  <2>3. \A e \in keyMapping : e[1] = i => e[2] = Owners[i]
    BY <1>0 DEF IInv, Assigned, OldOwner
  <2>4. Assigned'
    <3>1. \A e \in keyMapping' : e \in keyMapping \/ e = <<i, Owners[i]>>
      BY <2>1 DEF StoreKeyMapping
    <3>2. SummaryConfirmed' <=> SummaryConfirmed
      BY <1>0 DEF SummaryConfirmed
    <3> QED
      BY <1>0, <3>1, <3>2 DEF IInv, Assigned, OldOwner
  <2>5. Indexed'
    <3>1. Indexed
      BY AssignedOnceIndexed DEF IInv
    <3>2. \A w \in VerifierIDs : verifierToKeyIndex'[w] =
             IF w = Owners[i] THEN verifierToKeyIndex[w] \cup {i} ELSE verifierToKeyIndex[w]
      BY <2>1
    <3> QED
      BY <1>0, <2>1, <2>3, <3>1, <3>2, StoreIndexed DEF IInv
  <2>6. AssignedOnce'
    <3>1. TypeOK' => (AssignedOnce' <=> Indexed')
      BY AssignedOnceIndexed, PTL
    <3> QED
      BY <2>2, <2>5, <3>1
  <2> QED
    BY <1>1, <2>2, <2>4, <2>6 DEF IInv
<1>3. CASE ~KeyConfirmed(proposals, i)
  <2>1. /\ proposeKeys' = proposals
        /\ UNCHANGED <<publicKeys, keyMapping, verifierToKeyIndex, requiredCount, keyCount,
                       thawed>>
    BY <1>3 DEF DeliverKey, assignVars
  <2>2. TypeOK'
    BY <1>0, <2>1 DEF IInv, TypeOK
  <2> QED
    BY <1>0, <1>1, <2>1, <2>2, AssignedUnchanged DEF IInv
<1> QED
  BY <1>2, <1>3

LEMMA NextIInv == IInv /\ [Next]_vars => IInv'
<1> SUFFICES ASSUME IInv, [Next]_vars PROVE IInv'
  OBVIOUS
<1>1. CASE UNCHANGED vars
  <2> USE <1>1 DEF vars, bufferVars, keygenVars, assignVars, freezeVars, mappingVars
  <2>1. TypeOK'
    BY DEF IInv, TypeOK
  <2>2. Started' /\ Created' /\ BufferNonNegative'
    BY DEF IInv, Started, Created, BufferNonNegative
  <2> QED
    BY <2>1, <2>2, AssignedUnchanged DEF IInv
<1>2. CASE Next
  BY <1>2, AssignmentIInv, ProposeIInv, PubKeyIInv, EndBlockIInv, FreezeIInv, SummaryIInv,
     KeyIInv
  DEF Next, DeliverKeygenTx
<1> QED
  BY <1>1, <1>2

\* The invariant holds of every state of the chain: the rules of DeliverTx and
\* EndBlock preserve it from the empty state NewABCIApp starts an epoch with.
THEOREM Invariance == Spec => []IInv
BY InitIInv, NextIInv, PTL DEF Spec
-----------------------------------------------------------------------------
\* The counters of the chain state stay natural numbers and the failure counter
\* stays within its limit.
THEOREM TypeCorrect == Spec => []TypeOK
<1>1. IInv => TypeOK
  BY DEF IInv
<1> QED
  BY <1>1, Invariance, PTL

\* In the first epoch LastCreatedIndex counts every created key exactly once.
THEOREM CountsKeysHolds ==
  ASSUME Epoch = 1
  PROVE  Spec => []CountsKeys
<1>1. IInv => CountsKeys
  BY DEF IInv, Created, CountsKeys
<1> QED
  BY <1>1, Invariance, PTL

\* An index is in the list of its owner and in no other, in every epoch and
\* whatever is taken over from the previous one.
THEOREM AssignedOnceHolds == Spec => []AssignedOnce
<1>1. IInv => AssignedOnce
  BY DEF IInv
<1> QED
  BY <1>1, Invariance, PTL

\* EndBlock never subtracts a larger counter from a smaller one.
THEOREM BufferNonNegativeHolds == Spec => []BufferNonNegative
<1>1. IInv => BufferNonNegative
  BY DEF IInv
<1> QED
  BY <1>1, Invariance, PTL

\* In the first epoch every block leaves the whole buffer started.  (Later epochs
\* are different: see the run BufferGap.)
THEOREM BufferTriggeredHolds ==
  ASSUME Epoch = 1
  PROVE  Spec => BufferTriggered
<1> DEFINE Triggered ==
      EndBlock => LastUnassignedIndex..LastUnassignedIndex + KeyBuffer - 1
                     \subseteq keygenStarted'
<1>1. IInv /\ [Next]_vars => [Triggered]_vars
  <2> SUFFICES ASSUME IInv, EndBlock,
                      NEW i \in LastUnassignedIndex..LastUnassignedIndex + KeyBuffer - 1
               PROVE  i \in keygenStarted'
    OBVIOUS
  <2>1. LastUnassignedIndex \in Nat /\ LastCreatedIndex \in Nat /\ i \in Nat
    BY BufferAssumption DEF IInv, TypeOK
  <2>2. CASE i < LastCreatedIndex
    <3>1. i \in keygenStarted
      BY <2>1, <2>2, CreatedAreStarted
    <3> QED
      BY <3>1 DEF EndBlock
  <2>3. CASE ~(i < LastCreatedIndex)
    <3>1. /\ LastCreatedIndex - LastUnassignedIndex < KeyBuffer
          /\ i \in KeygensToStart
      BY <2>1, <2>3, BufferAssumption DEF KeygensToStart
    <3> QED
      BY <3>1 DEF EndBlock
  <2> QED
    BY <2>2, <2>3
<1> QED
  BY <1>1, Invariance, PTL DEF Spec, BufferTriggered

\* After the freeze is confirmed no transaction moves the next index.
THEOREM FreezeFinalHolds == Spec => FreezeFinal
<1> DEFINE Final == FreezeConfirmed /\ (Epoch # 1 => SummaryConfirmed) =>
                        LastUnassignedIndex' = LastUnassignedIndex
<1>1. IInv /\ [Next]_vars => [Final]_vars
  <2> SUFFICES ASSUME IInv, Next, FreezeConfirmed, Epoch # 1 => SummaryConfirmed
               PROVE  LastUnassignedIndex' = LastUnassignedIndex
    OBVIOUS
  <2>1. ASSUME NEW u \in VerifierIDs, DeliverAssignment(u) PROVE FALSE
    BY <2>1 DEF DeliverAssignment, AssignmentAllowed
  <2>2. ASSUME NEW n \in Nodes, DeliverSummary(n)
        PROVE  LastUnassignedIndex' = LastUnassignedIndex
    <3>1. IsFiniteSet(proposeSummarys) /\ Cardinality(proposeSummarys) \in Nat
      BY NodesAssumption, FS_Subset, FS_CardinalityType DEF IInv, TypeOK
    <3>2. Cardinality(proposeSummarys') = Cardinality(proposeSummarys) + 1
      BY <2>2, <3>1, FS_AddElement DEF DeliverSummary
    <3>3. Cardinality(proposeSummarys') # K
      BY <2>2, <3>1, <3>2, ThresholdAssumption DEF DeliverSummary, SummaryConfirmed
    <3> QED
      BY <2>2, <3>3 DEF DeliverSummary
  <2> QED
    BY <2>1, <2>2
    DEF Next, DeliverKeygenTx, DeliverPropose, DeliverPubKey, EndBlock,
        DeliverProposeFreeze, SetFreezeState, DeliverKey, bufferVars
<1> QED
  BY <1>1, Invariance, PTL DEF Spec, FreezeFinal

\* The next index only grows: in an epoch after the first no assignment comes
\* before the summary, and the proposals after the K-th do not apply it again.
THEOREM IndexNeverBackHolds == Spec => IndexNeverBack
<1>1. IInv /\ [Next]_vars => [LastUnassignedIndex' >= LastUnassignedIndex]_vars
  <2> SUFFICES ASSUME IInv, Next
               PROVE  LastUnassignedIndex' >= LastUnassignedIndex
    OBVIOUS
  <2>0. LastUnassignedIndex \in Nat /\ LastCreatedIndex \in Nat
    BY DEF IInv, TypeOK
  <2>1. ASSUME NEW u \in VerifierIDs, DeliverAssignment(u)
        PROVE  LastUnassignedIndex' >= LastUnassignedIndex
    BY <2>0, <2>1
    DEF DeliverAssignment, AssignmentAllowed, DumpBuffer, PubKeyNotFound, AssignKey
  <2>2. ASSUME NEW n \in Nodes, DeliverSummary(n)
        PROVE  LastUnassignedIndex' >= LastUnassignedIndex
    <3>1. IsFiniteSet(proposeSummarys) /\ Cardinality(proposeSummarys) \in Nat
      BY NodesAssumption, FS_Subset, FS_CardinalityType DEF IInv, TypeOK
    <3>2. Cardinality(proposeSummarys') = Cardinality(proposeSummarys) + 1
      BY <2>2, <3>1, FS_AddElement DEF DeliverSummary
    <3>3. CASE Cardinality(proposeSummarys') = K
      <4>1. ~SummaryConfirmed /\ Epoch # 1
        BY <2>2, <3>1, <3>2, <3>3, ThresholdAssumption DEF DeliverSummary, SummaryConfirmed
      <4>2. LastUnassignedIndex = 0
        BY <4>1 DEF IInv, Assigned
      <4>3. LastUnassignedIndex' = TransferLUI
        BY <2>2, <3>3 DEF DeliverSummary, ApplySummary
      <4> QED
        BY <4>2, <4>3, TransferAssumption
    <3>4. CASE Cardinality(proposeSummarys') # K
      BY <2>0, <2>2, <3>4 DEF DeliverSummary
    <3> QED
      BY <3>3, <3>4
  <2>3. ASSUME UNCHANGED LastUnassignedIndex
        PROVE  LastUnassignedIndex' >= LastUnassignedIndex
    BY <2>0, <2>3
  <2> QED
    BY <2>1, <2>2, <2>3
    DEF Next, DeliverKeygenTx, DeliverPropose, DeliverPubKey, EndBlock,
        DeliverProposeFreeze, SetFreezeState, DeliverKey, bufferVars
<1> QED
  BY <1>1, Invariance, PTL DEF Spec, IndexNeverBack
=============================================================================
