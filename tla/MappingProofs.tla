----------------------------- MODULE MappingProofs -----------------------------
(***************************************************************************)
(* What the new chain stores of the old mapping, for every number of old   *)
(* and new nodes, every handed-over index and any number of restarts.      *)
(***************************************************************************)
EXTENDS Mapping, FiniteSetTheorems, TLAPS

Senders(item) == {o \in OldNodes : item \in sent[o]}

Backed(item) == Cardinality(Senders(item)) >= OldK

\* The variables have their types; the bound on keyCount is a consequence of
\* the counting.
Types ==
    /\ sent \in [OldNodes -> SUBSET Items]
    /\ sendCount \in [NewNodes -> [Items -> SUBSET OldNodes]]
    /\ outbox \subseteq NewNodes \X Items
    /\ proposed \in [Items -> SUBSET NewNodes]
    /\ requiredCount \in Nat
    /\ keyCount \in Nat
    /\ keyMapping \subseteq Keys
    /\ thawed \in BOOLEAN
    /\ restarts \in 0..MaxRestarts

\* An old node sends the keys in order, one form of each.
SentInOrder ==
    \A o \in OldNodes :
        /\ IsFiniteSet(sent[o])
        /\ \A k \in sent[o] \cap Keys : k.index < Cardinality(sent[o]) - 1
        /\ \A j, k \in sent[o] \cap Keys : j.index = k.index => j = k

\* A new node counts what was sent, broadcasts what OldK nodes sent, and the
\* chain takes no more than that.
ItemsBacked ==
    /\ \A n \in NewNodes, item \in Items : sendCount[n][item] \subseteq Senders(item)
    /\ \A x \in outbox : Backed(x[2])
    /\ \A item \in Items : proposed[item] # {} => Backed(item)
    /\ \A key \in keyMapping : Backed(key)

\* Until it thaws, the chain has stored and counted the confirmed keys.
Counted ==
    ~thawed => /\ keyMapping = {k \in Keys : Cardinality(proposed[k]) >= NewK}
               /\ keyCount = Cardinality(keyMapping)
               /\ requiredCount = IF Cardinality(proposed[Summary]) >= NewK THEN EndIndex ELSE 0

Cleaned == thawed => requiredCount = 0 /\ keyCount = 0

IInv == Types /\ SentInOrder /\ ItemsBacked /\ Counted /\ Cleaned /\ ThawComplete

\* A summary is not a key.
LEMMA SummaryNotKey == Summary \notin Keys /\ Summary \in Items /\ Keys \subseteq Items
BY EndIndexAssumption DEF Summary, Keys, Items, Indices

\* Two sets of OldK old nodes have a node in common.
LEMMA QuorumsMeet ==
    ASSUME NEW A \in SUBSET OldNodes, NEW B \in SUBSET OldNodes,
           Cardinality(A) >= OldK, Cardinality(B) >= OldK
    PROVE  A \cap B # {}
<1>1. IsFiniteSet(A) /\ IsFiniteSet(B) /\ IsFiniteSet(A \cup B) /\ A \cup B \subseteq OldNodes
      BY NodesAssumption, FS_Subset, FS_Union
<1>2. Cardinality(A \cup B) <= Cardinality(OldNodes) BY <1>1, NodesAssumption, FS_Subset
<1>3. Cardinality(A \cup B) = Cardinality(A) + Cardinality(B) - Cardinality(A \cap B)
      BY <1>1, FS_Union
<1>4. /\ Cardinality(A) \in Nat /\ Cardinality(B) \in Nat /\ Cardinality(OldNodes) \in Nat
      /\ Cardinality(A \cup B) \in Nat
      BY <1>1, NodesAssumption, FS_CardinalityType
<1>5. SUFFICES ASSUME A \cap B = {} PROVE FALSE OBVIOUS
<1>6. Cardinality(A \cap B) = 0 BY <1>5, FS_EmptySet
<1> QED BY <1>2, <1>3, <1>4, <1>6, ThresholdAssumption

\* Backed keys with the same index are the same: an old node sent both.
LEMMA BackedUnique ==
    ASSUME SentInOrder, NEW j \in Keys, NEW k \in Keys, j.index = k.index, Backed(j), Backed(k)
    PROVE  j = k
<1>1. PICK o \in OldNodes : o \in Senders(j) /\ o \in Senders(k)
      BY QuorumsMeet DEF Backed, Senders
<1> QED BY <1>1 DEF SentInOrder, Senders

\* A set of keys with distinct indexes has at most EndIndex members, and with
\* EndIndex members it has one for every index.
LEMMA CountingKeys ==
    ASSUME NEW S \in SUBSET Keys, \A j, k \in S : j.index = k.index => j = k
    PROVE  /\ IsFiniteSet(S) /\ Cardinality(S) \in Nat /\ Cardinality(S) <= EndIndex
           /\ Cardinality(S) = EndIndex => \A i \in Indices : \E k \in S : k.index = i
<1> DEFINE f == [k \in S |-> k.index]
<1>1. IsFiniteSet(Indices) /\ Cardinality(Indices) = EndIndex
      BY FS_Interval, EndIndexAssumption DEF Indices
<1>2. f \in [S -> Indices] BY DEF Keys
<1>3. \A j, k \in S : f[j] = f[k] => j = k OBVIOUS
<1> HIDE DEF f
<1>4. f \in Injection(S, Indices) BY <1>2, <1>3 DEF Injection, IsInjective
<1>5. /\ IsFiniteSet(S) /\ Cardinality(S) <= EndIndex
      /\ Cardinality(S) = EndIndex => f \in Surjection(S, Indices)
      BY <1>1, <1>4, FS_Injection
<1>6. f \in Surjection(S, Indices) => \A i \in Indices : \E k \in S : f[k] = i
      BY DEF Surjection
<1>7. \A k \in S : f[k] = k.index BY DEF f
<1> QED BY <1>5, <1>6, <1>7, FS_CardinalityType

\* The invariant gives the three properties and the type invariant.
LEMMA Consequences ==
    ASSUME IInv PROVE TypeOK /\ KeyBacked /\ OneKeyPerIndex /\ ThawComplete
<1>1. OneKeyPerIndex
      BY BackedUnique DEF IInv, ItemsBacked, Types, OneKeyPerIndex
<1>2. KeyBacked BY DEF IInv, ItemsBacked, KeyBacked, Backed, Senders
<1>3. keyCount <= EndIndex /\ requiredCount \in {0, EndIndex}
  <2>1. keyMapping \in SUBSET Keys BY DEF IInv, Types
  <2>2. Cardinality(keyMapping) <= EndIndex
        BY <2>1, <1>1, CountingKeys DEF OneKeyPerIndex
  <2> QED BY <2>2, EndIndexAssumption DEF IInv, Types, Counted, Cleaned
<1>4. TypeOK BY <1>3, EndIndexAssumption DEF IInv, Types, TypeOK
<1> QED BY <1>1, <1>2, <1>4 DEF IInv

\* Init establishes the invariant.
LEMMA InitIInv == Init => IInv
<1> SUFFICES ASSUME Init PROVE IInv OBVIOUS
<1>1. Types
  <2>1. restarts \in 0..MaxRestarts BY BoundAssumption DEF Init
  <2>2. sendCount \in [NewNodes -> [Items -> SUBSET OldNodes]]
    <3> DEFINE e == [item \in Items |-> {}]
    <3>1. e \in [Items -> SUBSET OldNodes] /\ sendCount = [n \in NewNodes |-> e] BY DEF Init
    <3> HIDE DEF e
    <3> QED BY <3>1
  <2>3. sent \in [OldNodes -> SUBSET Items] /\ proposed \in [Items -> SUBSET NewNodes] BY DEF Init
  <2> QED BY <2>1, <2>2, <2>3 DEF Init, Types
<1>2. SentInOrder
  <2> SUFFICES ASSUME NEW o \in OldNodes PROVE IsFiniteSet(sent[o]) /\ sent[o] = {}
      BY DEF SentInOrder
  <2> QED BY FS_EmptySet DEF Init
<1>3. ItemsBacked BY DEF Init, ItemsBacked
<1>4. Counted
  <2>1. \A item \in Items : Cardinality(proposed[item]) = 0 BY FS_EmptySet DEF Init
  <2>2. ~(0 >= NewK) BY ThresholdAssumption
  <2>3. {k \in Keys : Cardinality(proposed[k]) >= NewK} = {} BY <2>1, <2>2, SummaryNotKey
  <2>4. ~(Cardinality(proposed[Summary]) >= NewK) BY <2>1, <2>2, SummaryNotKey
  <2> QED BY <2>3, <2>4, FS_EmptySet DEF Init, Counted
<1> QED BY <1>1, <1>2, <1>3, <1>4 DEF IInv, Init, Cleaned, ThawComplete

\* An old node's sends add an item that it had not sent.
LEMMA SendIInv ==
    ASSUME IInv, NEW o \in OldNodes, SendSummary(o) \/ SendKey(o) PROVE IInv'
<1>0. UNCHANGED <<sendCount, outbox, chainVars, restarts>> BY DEF SendSummary, SendKey
<1>1. PICK item \in Items :
        /\ sent' = [sent EXCEPT ![o] = sent[o] \cup {item}]
        /\ item = Summary \/ (item \in Keys /\ item.index = Cardinality(sent[o]) - 1)
  <2>1. CASE SendSummary(o) BY <2>1, SummaryNotKey DEF SendSummary
  <2>2. CASE SendKey(o)
    <3> DEFINE i == Cardinality(sent[o]) - 1
    <3>1. PICK v \in Retrieved(i) :
            sent' = [sent EXCEPT ![o] = sent[o] \cup {[index |-> i, view |-> v]}]
          BY <2>2 DEF SendKey
    <3>2. i < EndIndex /\ Summary \in sent[o] BY <2>2 DEF SendKey
    <3>3. IsFiniteSet(sent[o]) /\ Cardinality(sent[o]) \in Nat
          BY FS_CardinalityType DEF IInv, SentInOrder
    <3>4. Cardinality(sent[o]) # 0 BY <3>2, <3>3, FS_EmptySet
    <3>5. i \in Indices BY <3>2, <3>3, <3>4, EndIndexAssumption DEF Indices
    <3>6. [index |-> i, view |-> v] \in Keys BY <3>5 DEF Keys, Retrieved
    <3> QED BY <3>1, <3>6, SummaryNotKey
  <2> QED BY <2>1, <2>2
<1>2. \A p \in OldNodes : sent[p] \subseteq sent'[p] /\ (p # o => sent'[p] = sent[p])
      BY <1>1 DEF IInv, Types
<1>3. sent'[o] = sent[o] \cup {item} BY <1>1 DEF IInv, Types
<1>4. Types' BY <1>0, <1>1 DEF IInv, Types, chainVars
<1>5. SentInOrder'
  <2> SUFFICES ASSUME NEW p \in OldNodes
      PROVE /\ IsFiniteSet(sent'[p])
            /\ \A k \in sent'[p] \cap Keys : k.index < Cardinality(sent'[p]) - 1
            /\ \A j, k \in sent'[p] \cap Keys : j.index = k.index => j = k
      BY DEF SentInOrder
  <2>1. CASE p # o BY <2>1, <1>2 DEF IInv, SentInOrder
  <2>2. CASE p = o
    <3> DEFINE c == Cardinality(sent[o])
    <3>1. IsFiniteSet(sent[o]) /\ c \in Nat BY FS_CardinalityType DEF IInv, SentInOrder
    <3>0. \A k \in Keys : k.index \in Int BY EndIndexAssumption DEF Keys, Indices
    <3>2. \A k \in sent[o] \cap Keys : k.index < c - 1 /\ k.index \in Int
      <4> SUFFICES ASSUME NEW k \in sent[o] \cap Keys PROVE k.index < c - 1 /\ k.index \in Int
          OBVIOUS
      <4>1. k.index < c - 1 BY DEF IInv, SentInOrder
      <4> QED BY <3>0, <4>1
    <3>3. IsFiniteSet(sent'[o]) /\ Cardinality(sent'[o]) = IF item \in sent[o] THEN c ELSE c + 1
      <4>1. /\ IsFiniteSet(sent[o] \cup {item})
            /\ Cardinality(sent[o] \cup {item}) = IF item \in sent[o] THEN c ELSE c + 1
            BY <3>1, FS_AddElement
      <4> QED BY <4>1, <1>3
    <3>4. CASE item = Summary
      <4>1. sent'[o] \cap Keys = sent[o] \cap Keys BY <3>4, <1>3, SummaryNotKey
      <4>2. Cardinality(sent'[o]) \in Nat /\ c <= Cardinality(sent'[o]) BY <3>1, <3>3
      <4>3. \A k \in sent[o] \cap Keys : k.index < Cardinality(sent'[o]) - 1
            BY <3>1, <3>2, <4>2
      <4> QED BY <2>2, <3>3, <4>1, <4>3 DEF IInv, SentInOrder
    <3>5. CASE item \in Keys /\ item.index = c - 1
      <4>1. item \notin sent[o] BY <3>1, <3>2, <3>5
      <4>2. Cardinality(sent'[o]) = c + 1 BY <3>3, <4>1
      <4>3. \A k \in sent'[o] \cap Keys : k = item \/ k \in sent[o] \cap Keys BY <1>3
      <4>4. \A k \in sent'[o] \cap Keys : k.index < Cardinality(sent'[o]) - 1
            BY <4>2, <4>3, <3>1, <3>2, <3>5
      <4>5. ASSUME NEW j \in sent'[o] \cap Keys, NEW k \in sent'[o] \cap Keys, j.index = k.index
            PROVE  j = k
            BY <4>3, <4>5, <3>1, <3>2, <3>5 DEF IInv, SentInOrder
      <4> QED BY <2>2, <3>3, <4>4, <4>5
    <3> QED BY <3>4, <3>5, <1>1
  <2> QED BY <2>1, <2>2
<1>6. \A x : /\ Senders(x) \subseteq Senders(x)'
             /\ Backed(x) => Backed(x)'
  <2> SUFFICES ASSUME NEW x PROVE Senders(x) \subseteq Senders(x)' /\ (Backed(x) => Backed(x)')
      OBVIOUS
  <2>1. Senders(x) \subseteq Senders(x)' BY <1>2 DEF Senders
  <2>2. IsFiniteSet(Senders(x)') /\ IsFiniteSet(Senders(x))
        BY NodesAssumption, FS_Subset DEF Senders
  <2>3. Cardinality(Senders(x)) <= Cardinality(Senders(x)') BY <2>1, <2>2, FS_Subset
  <2>4. Cardinality(Senders(x)) \in Nat /\ Cardinality(Senders(x)') \in Nat
        BY <2>2, FS_CardinalityType
  <2> QED BY <2>1, <2>3, <2>4, ThresholdAssumption DEF Backed
<1>7. ItemsBacked'
  <2>1. \A n \in NewNodes, x \in Items : sendCount[n][x] \subseteq Senders(x)'
        BY <1>6 DEF IInv, ItemsBacked
  <2>2. \A x \in outbox : Backed(x[2])' BY <1>6 DEF IInv, ItemsBacked
  <2>3. /\ \A x \in Items : proposed[x] # {} => Backed(x)'
        /\ \A key \in keyMapping : Backed(key)'
        BY <1>6 DEF IInv, ItemsBacked
  <2> QED BY <1>0, <2>1, <2>2, <2>3 DEF ItemsBacked, chainVars
<1>8. Counted' /\ Cleaned' /\ ThawComplete'
      BY <1>0 DEF IInv, Counted, Cleaned, ThawComplete, chainVars
<1> QED BY <1>4, <1>5, <1>7, <1>8 DEF IInv

\* A new node broadcasts only what OldK old nodes have sent.
LEMMA ProcessMessageIInv ==
    ASSUME IInv, NEW n \in NewNodes, NEW o \in OldNodes, NEW item \in Items,
           ProcessMessage(n, o, item)
    PROVE  IInv'
<1>0. UNCHANGED <<sent, chainVars, restarts>> BY DEF ProcessMessage
<1>1. item \in sent[o] BY DEF ProcessMessage
<1>2. sendCount' = [sendCount EXCEPT ![n][item] = @ \cup {o}] BY DEF ProcessMessage
<1>3. \A m \in NewNodes, x \in Items :
        sendCount'[m][x] = IF m = n /\ x = item THEN sendCount[m][x] \cup {o} ELSE sendCount[m][x]
      BY <1>2 DEF IInv, Types
<1>4. \A x : Senders(x)' = Senders(x) /\ Backed(x)' = Backed(x) BY <1>0 DEF Senders, Backed
<1>5. \A m \in NewNodes, x \in Items : sendCount'[m][x] \subseteq Senders(x)
  <2> SUFFICES ASSUME NEW m \in NewNodes, NEW x \in Items PROVE sendCount'[m][x] \subseteq Senders(x)
      OBVIOUS
  <2>1. sendCount[m][x] \subseteq Senders(x) BY DEF IInv, ItemsBacked
  <2>2. o \in Senders(item) BY <1>1 DEF Senders
  <2>3. CASE m = n /\ x = item BY <2>1, <2>2, <2>3, <1>3
  <2>4. CASE ~(m = n /\ x = item) BY <2>1, <2>4, <1>3
  <2> QED BY <2>3, <2>4
<1>6. \A x \in outbox' : x \in outbox \/ (x = <<n, item>> /\ Backed(item))
  <2> SUFFICES ASSUME EnoughSenders(sendCount'[n][item]) PROVE Backed(item)
      BY DEF ProcessMessage
  <2>1. IsFiniteSet(Senders(item)) BY NodesAssumption, FS_Subset DEF Senders
  <2>2. OldK <= Cardinality(Senders(item)) BY <1>5, <2>1, FS_Subset DEF EnoughSenders
  <2> QED BY <2>1, <2>2, FS_CardinalityType, ThresholdAssumption DEF Backed
<1>7. Types'
  <2>1. sendCount' \in [NewNodes -> [Items -> SUBSET OldNodes]] BY <1>2 DEF IInv, Types
  <2>2. outbox' \subseteq NewNodes \X Items BY <1>6 DEF IInv, Types
  <2> QED BY <1>0, <2>1, <2>2 DEF IInv, Types, chainVars
<1>8. ItemsBacked'
  <2>1. \A x \in outbox' : Backed(x[2]) BY <1>6 DEF IInv, ItemsBacked
  <2> QED BY <1>0, <1>4, <1>5, <2>1 DEF IInv, ItemsBacked, chainVars
<1>9. SentInOrder' /\ Counted' /\ Cleaned' /\ ThawComplete'
      BY <1>0 DEF IInv, SentInOrder, Counted, Cleaned, ThawComplete, chainVars
<1> QED BY <1>7, <1>8, <1>9 DEF IInv

\* A restart forgets counts and broadcasts.
LEMMA RestartIInv ==
    ASSUME IInv, NEW n \in NewNodes, Restart(n) PROVE IInv'
<1>0. UNCHANGED <<sent, chainVars>> BY DEF Restart
<1>1. outbox' \subseteq outbox BY DEF Restart
<1>2. sendCount' = [sendCount EXCEPT ![n] = [item \in Items |-> {}]] BY DEF Restart
<1>3. \A m \in NewNodes, x \in Items : sendCount'[m][x] \subseteq sendCount[m][x]
      BY <1>2 DEF IInv, Types
<1>4. restarts' \in 0..MaxRestarts BY BoundAssumption DEF IInv, Types, Restart
<1>5. Types' BY <1>0, <1>1, <1>2, <1>4 DEF IInv, Types, chainVars
<1>6. \A x : Senders(x)' = Senders(x) /\ Backed(x)' = Backed(x) BY <1>0 DEF Senders, Backed
<1>7. \A m \in NewNodes, x \in Items : sendCount'[m][x] \subseteq Senders(x)
      BY <1>3 DEF IInv, ItemsBacked
<1>8. ItemsBacked' BY <1>0, <1>1, <1>6, <1>7 DEF IInv, ItemsBacked, chainVars
<1>9. SentInOrder' /\ Counted' /\ Cleaned' /\ ThawComplete'
      BY <1>0 DEF IInv, SentInOrder, Counted, Cleaned, ThawComplete, chainVars
<1> QED BY <1>5, <1>8, <1>9 DEF IInv

\* With the stored keys the confirmed ones, one for each index, a thaw finds a
\* key for every index.
LEMMA ThawCounts ==
    ASSUME Types, thawed = FALSE,
           NEW P \in [Items -> SUBSET NewNodes], NEW M \in SUBSET Keys, keyMapping' = M,
           NEW required, required = IF Cardinality(P[Summary]) >= NewK THEN EndIndex ELSE 0,
           M = {k \in Keys : Cardinality(P[k]) >= NewK},
           \A j, k \in M : j.index = k.index => j = k,
           Thaw(required, Cardinality(M), P)
    PROVE  /\ Counted' /\ Cleaned' /\ ThawComplete'
           /\ proposed' \in [Items -> SUBSET NewNodes]
           /\ \A x \in Items : proposed'[x] \subseteq P[x]
           /\ requiredCount' \in Nat /\ keyCount' \in Nat /\ thawed' \in BOOLEAN
<1>1. /\ Cardinality(M) \in Nat
      /\ Cardinality(M) = EndIndex => \A i \in Indices : \E k \in M : k.index = i
      BY CountingKeys
<1>2. required \in Nat BY EndIndexAssumption
<1>3. CASE isThawed(required, Cardinality(M))
  <2>1. /\ thawed' = TRUE /\ requiredCount' = 0 /\ keyCount' = 0
        /\ proposed' = [x \in Items |-> IF x = Summary THEN P[x] ELSE {}]
        BY <1>3 DEF Thaw
  <2>2. Cardinality(P[Summary]) >= NewK /\ Cardinality(M) = EndIndex BY <1>3 DEF isThawed
  <2>3. proposed'[Summary] = P[Summary] BY <2>1, SummaryNotKey
  <2>4. ThawComplete' BY <2>2, <2>3, <1>1 DEF ThawComplete, Indices
  <2>5. Counted' /\ Cleaned' BY <2>1 DEF Counted, Cleaned
  <2>6. /\ proposed' \in [Items -> SUBSET NewNodes]
        /\ \A x \in Items : proposed'[x] \subseteq P[x]
        BY <2>1
  <2> QED BY <2>1, <2>4, <2>5, <2>6
<1>4. CASE ~isThawed(required, Cardinality(M))
  <2>1. /\ thawed' = FALSE /\ requiredCount' = required /\ keyCount' = Cardinality(M)
        /\ proposed' = P
        BY <1>4 DEF Thaw
  <2>2. Counted' BY <2>1 DEF Counted
  <2>3. Cleaned' /\ ThawComplete' BY <2>1 DEF Cleaned, ThawComplete
  <2> QED BY <2>1, <2>2, <2>3, <1>1, <1>2
<1> QED BY <1>3, <1>4

\* A transaction on the new chain keeps the invariant.
LEMMA DeliverTxIInv ==
    ASSUME IInv, NEW n \in NewNodes, NEW item \in Items, DeliverTx(n, item) PROVE IInv'
<1>0. /\ UNCHANGED <<sent, sendCount, restarts>> /\ outbox' \subseteq outbox
      /\ <<n, item>> \in outbox
      BY DEF DeliverTx
<1>1. \A x : Senders(x)' = Senders(x) /\ Backed(x)' = Backed(x) BY <1>0 DEF Senders, Backed
<1>2. Backed(item) BY <1>0 DEF IInv, ItemsBacked
<1>3. /\ \A m \in NewNodes, x \in Items : (sendCount[m][x] \subseteq Senders(x))'
      /\ \A x \in outbox' : Backed(x[2])'
      BY <1>0, <1>1 DEF IInv, ItemsBacked
<1>4. SentInOrder' BY <1>0 DEF IInv, SentInOrder
<1>5. CASE thawed \/ n \in proposed[item]
  <2>1. UNCHANGED chainVars BY <1>5 DEF DeliverTx
  <2>2. Types' BY <1>0, <2>1 DEF IInv, Types, chainVars
  <2>3. ItemsBacked' BY <1>1, <1>3, <2>1 DEF IInv, ItemsBacked, chainVars
  <2>4. Counted' /\ Cleaned' /\ ThawComplete'
        BY <2>1 DEF IInv, Counted, Cleaned, ThawComplete, chainVars
  <2> QED BY <1>4, <2>2, <2>3, <2>4 DEF IInv
<1>6. CASE ~thawed /\ n \notin proposed[item]
  <2> DEFINE P == [proposed EXCEPT ![item] = @ \cup {n}]
             c == Cardinality(proposed[item])
             M == {k \in Keys : Cardinality(P[k]) >= NewK}
             required == IF Cardinality(P[Summary]) >= NewK THEN EndIndex ELSE 0
  <2>1. /\ P \in [Items -> SUBSET NewNodes] /\ P[item] = proposed[item] \cup {n}
        /\ \A x \in Items : x # item => P[x] = proposed[x]
        BY DEF IInv, Types
  <2>2. IsFiniteSet(proposed[item]) /\ c \in Nat
        BY NodesAssumption, FS_Subset, FS_CardinalityType DEF IInv, Types
  <2>3. Cardinality(P[item]) = c + 1
    <3>1. Cardinality(proposed[item] \cup {n}) = c + 1 BY <1>6, <2>2, FS_AddElement
    <3> QED BY <3>1, <2>1
  <2>4. /\ thawed = FALSE
        /\ keyMapping = {k \in Keys : Cardinality(proposed[k]) >= NewK}
        /\ keyCount = Cardinality(keyMapping)
        /\ requiredCount = IF Cardinality(proposed[Summary]) >= NewK THEN EndIndex ELSE 0
    <3>1. thawed = FALSE BY <1>6 DEF IInv, Types
    <3> QED BY <3>1 DEF IInv, Counted
  <2>5. /\ ~Confirmed(P[item]) => /\ proposed' = P
                                  /\ UNCHANGED <<requiredCount, keyCount, keyMapping, thawed>>
        /\ Confirmed(P[item]) /\ item = Summary =>
              Thaw(EndIndex, keyCount, P) /\ UNCHANGED keyMapping
        /\ Confirmed(P[item]) /\ item # Summary =>
              Thaw(requiredCount, keyCount + 1, P) /\ keyMapping' = keyMapping \cup {item}
        BY <1>6 DEF DeliverTx
  <2> HIDE DEF P, c
  <2>6. /\ item \in Keys /\ c + 1 = NewK => M = keyMapping \cup {item} /\ item \notin keyMapping
        /\ ~(item \in Keys /\ c + 1 = NewK) => M = keyMapping
    <3>1. \A k \in Keys : k # item => (k \in M <=> k \in keyMapping)
          BY <2>1, <2>4, SummaryNotKey
    <3>2. item \in Keys => /\ item \in M <=> c + 1 >= NewK
                           /\ item \in keyMapping <=> c >= NewK
          BY <2>3, <2>4 DEF c
    <3>3. M \subseteq Keys /\ keyMapping \subseteq Keys BY <2>4
    <3>4. c + 1 = NewK => c + 1 >= NewK /\ ~(c >= NewK) BY <2>2, ThresholdAssumption
    <3>5. c + 1 # NewK => (c + 1 >= NewK <=> c >= NewK) BY <2>2, ThresholdAssumption
    <3> HIDE DEF M
    <3>6. CASE item \in Keys /\ c + 1 = NewK BY <3>1, <3>2, <3>3, <3>4, <3>6
    <3>7. CASE ~(item \in Keys /\ c + 1 = NewK)
      <4>1. \A k \in Keys : k \in M <=> k \in keyMapping BY <3>1, <3>2, <3>5, <3>7
      <4> QED BY <4>1, <3>3, <3>7
    <3> QED BY <3>6, <3>7
  <2>7. /\ item = Summary /\ c + 1 = NewK => required = EndIndex
        /\ ~(item = Summary /\ c + 1 = NewK) => required = requiredCount
    <3>1. CASE item # Summary
      <4>1. P[Summary] = proposed[Summary] BY <3>1, <2>1, SummaryNotKey
      <4> QED BY <3>1, <4>1, <2>4
    <3>2. CASE item = Summary
      <4>1. Cardinality(P[Summary]) = c + 1 /\ Cardinality(proposed[Summary]) = c
            BY <3>2, <2>3 DEF c
      <4> QED BY <3>2, <4>1, <2>2, <2>4, ThresholdAssumption
    <3> QED BY <3>1, <3>2
  <2>8. Confirmed(P[item]) <=> c + 1 = NewK BY <2>3 DEF Confirmed
  <2>9. M \in SUBSET Keys /\ \A k \in M : Backed(k)
    <3>1. \A k \in M : k \in keyMapping \/ k = item BY <2>6
    <3>2. M \in SUBSET Keys OBVIOUS
    <3> QED BY <3>1, <3>2, <1>2 DEF IInv, ItemsBacked
  <2>10. \A j, k \in M : j.index = k.index => j = k BY <2>9, BackedUnique DEF IInv
  <2>11. keyMapping' = M
    <3>1. item \in Keys <=> item # Summary BY SummaryNotKey DEF Items
    <3> HIDE DEF M
    <3> QED BY <2>5, <2>6, <2>8, <3>1
  <2>12. \A x \in Items : P[x] # {} => Backed(x)
         BY <1>2, <2>1 DEF IInv, ItemsBacked
  <2>13. /\ Counted' /\ Cleaned' /\ ThawComplete'
         /\ proposed' \in [Items -> SUBSET NewNodes]
         /\ \A x \in Items : proposed'[x] \subseteq P[x]
         /\ requiredCount' \in Nat /\ keyCount' \in Nat /\ thawed' \in BOOLEAN
    <3>1. CASE ~Confirmed(P[item])
      <4>1. /\ proposed' = P /\ requiredCount' = requiredCount /\ keyCount' = keyCount
            /\ keyMapping' = keyMapping /\ thawed' = FALSE
            BY <3>1, <2>4, <2>5
      <4>2. M = keyMapping /\ required = requiredCount BY <3>1, <2>6, <2>7, <2>8
      <4>3. Counted' BY <4>1, <4>2, <2>4 DEF Counted
      <4>4. Cleaned' /\ ThawComplete' BY <4>1 DEF Cleaned, ThawComplete
      <4> QED BY <4>1, <4>3, <4>4, <2>1 DEF IInv, Types
    <3>2. CASE Confirmed(P[item])
      <4>1. Thaw(required, Cardinality(M), P)
        <5>1. CASE item = Summary
          <6>1. required = EndIndex /\ M = keyMapping
                BY <3>2, <5>1, <2>6, <2>7, <2>8, SummaryNotKey
          <6> HIDE DEF M, required
          <6> QED BY <3>2, <5>1, <6>1, <2>4, <2>5
        <5>2. CASE item # Summary
          <6>1. item \in Keys BY <5>2 DEF Items
          <6>2. required = requiredCount /\ M = keyMapping \cup {item} /\ item \notin keyMapping
                BY <3>2, <5>2, <6>1, <2>6, <2>7, <2>8
          <6>3. IsFiniteSet(M) BY <2>9, <2>10, CountingKeys
          <6> HIDE DEF M, required
          <6>4. IsFiniteSet(keyMapping) BY <6>2, <6>3, FS_Subset
          <6>5. Cardinality(M) = keyCount + 1 BY <6>2, <6>4, <2>4, FS_AddElement
          <6> QED BY <3>2, <5>2, <6>2, <6>5, <2>5
        <5> QED BY <5>1, <5>2
      <4>2. Types BY DEF IInv
      <4> HIDE DEF required
      <4>3. required = IF Cardinality(P[Summary]) >= NewK THEN EndIndex ELSE 0 BY DEF required
      <4>4. M = {k \in Keys : Cardinality(P[k]) >= NewK} OBVIOUS
      <4> HIDE DEF M
      <4> QED BY <4>1, <4>2, <4>3, <4>4, <2>1, <2>4, <2>9, <2>10, <2>11, ThawCounts
    <3> QED BY <3>1, <3>2
  <2>14. Types' BY <1>0, <2>9, <2>11, <2>13 DEF IInv, Types
  <2>15. ItemsBacked'
    <3>1. \A x \in Items : proposed'[x] # {} => Backed(x)' BY <1>1, <2>12, <2>13
    <3>2. \A key \in keyMapping' : Backed(key)' BY <1>1, <2>9, <2>11
    <3> QED BY <1>3, <3>1, <3>2 DEF ItemsBacked
  <2> QED BY <1>4, <2>13, <2>14, <2>15 DEF IInv
<1> QED BY <1>5, <1>6
-----------------------------------------------------------------------------
\* IInv is inductive: what the chain counts is stored, what is stored was
\* confirmed, what was confirmed had OldK senders.
THEOREM Invariance == Spec => []IInv
<1>1. ASSUME IInv, [Next]_vars PROVE IInv'
  <2>1. CASE UNCHANGED vars
    <3>1. \A x : Senders(x)' = Senders(x) /\ Backed(x)' = Backed(x)
          BY <2>1 DEF vars, Senders, Backed
    <3>2. Types' /\ SentInOrder' /\ Counted' /\ Cleaned' /\ ThawComplete'
          BY <1>1, <2>1
          DEF vars, chainVars, IInv, Types, SentInOrder, Counted, Cleaned, ThawComplete
    <3>3. ItemsBacked' BY <1>1, <2>1, <3>1 DEF vars, chainVars, IInv, ItemsBacked
    <3> QED BY <3>2, <3>3 DEF IInv
  <2>2. CASE Next
        BY <1>1, <2>2, SendIInv, ProcessMessageIInv, RestartIInv, DeliverTxIInv DEF Next
  <2> QED BY <1>1, <2>1, <2>2
<1> QED BY InitIInv, <1>1, PTL DEF Spec

\* The type invariant, with the bound on the chain's key counter.
THEOREM TypeCorrect == Spec => []TypeOK
<1>1. IInv => TypeOK BY Consequences
<1> QED BY <1>1, Invariance, PTL

\* Every key the new chain stores was sent in that form by OldK old nodes.
THEOREM KeyBackedHolds == Spec => []KeyBacked
<1>1. IInv => KeyBacked BY Consequences
<1> QED BY <1>1, Invariance, PTL

\* The new chain never stores a key and its placeholder for one index.
THEOREM OneKeyPerIndexHolds == Spec => []OneKeyPerIndex
<1>1. IInv => OneKeyPerIndex BY Consequences
<1> QED BY <1>1, Invariance, PTL

\* A thawed mapping is complete, although isThawed compares only counters.
THEOREM ThawCompleteHolds == Spec => []ThawComplete
<1>1. IInv => ThawComplete BY Consequences
<1> QED BY <1>1, Invariance, PTL
=============================================================================
