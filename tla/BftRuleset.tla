------------------------------ MODULE BftRuleset ------------------------------
(***************************************************************************)
(* The replicated state of one epoch's chain: the rules by which DeliverTx  *)
(* applies a transaction to the ABCI state and EndBlock tops up the buffer  *)
(* of keys.                                                                 *)
(*                                                                          *)
(* Tendermint delivers the same transactions in the same order everywhere,  *)
(* so one copy of the state stands for all; a block may end after any       *)
(* transaction.  A rejected transaction changes nothing and is no step.     *)
(* The generation of a key between the share message and the propose        *)
(* transaction, and from there to the pubkey transaction, takes any time;   *)
(* the keys in Failing are never finished.                                  *)
(***************************************************************************)
EXTENDS Integers, FiniteSets

CONSTANTS Nodes,                  \* senders of mapping transactions
          K, T,                   \* thresholds of the epoch
          KeyBuffer,              \* config.GlobalConfig.KeyBuffer
          MaxFailedPubKeyAssigns, \* 100 in the code
          VerifierIDs,            \* users, a (verifier, verifierID) each
          NoOne,                  \* owner of a transferred index that is no one's
          Epoch,                  \* current epoch, 1 has no predecessor
          TransferLUI,            \* LastUnassignedIndex of the incoming summary
          Owners,                 \* owners of the incoming keys
          Failing,                \* key indexes whose generation never finishes
          MaxLUI                  \* bound: assignments below this index only

ASSUME NodesAssumption == IsFiniteSet(Nodes)
ASSUME ThresholdAssumption == K \in Nat \ {0} /\ T \in Nat
ASSUME BufferAssumption == KeyBuffer \in Nat
ASSUME FailedAssumption == MaxFailedPubKeyAssigns \in Nat \ {0}
ASSUME OwnerAssumption == NoOne \notin VerifierIDs
ASSUME EpochAssumption == Epoch \in Nat \ {0}
ASSUME TransferAssumption ==
    /\ TransferLUI \in Nat
    /\ Owners \in [0..TransferLUI - 1 -> VerifierIDs \cup {NoOne}]
ASSUME FailingAssumption == Failing \subseteq Nat
ASSUME BoundAssumption == MaxLUI \in Nat

VARIABLES
    LastUnassignedIndex, LastCreatedIndex,
    ConsecutiveFailedPubKeyAssigns,
    KeygenDecisions,       \* indexes with a decided DKG
    decidedKeys,           \* KeygenPubKeys entries with GS still zero
    createdKeys,           \* KeygenPubKeys entries with GS set
    keyMapping,            \* storeKeyMapping: pairs <<index, owner>>
    verifierToKeyIndex,    \* storeVerifierToKeyIndex
    publicKeys,            \* StorePublicKeyToIndex: indexes with a public key
    keygenStarted,         \* indexes whose share message was handed out
    proposeFreezes,        \* MappingProposeFreezes[outgoing mapping]
    freezeState,           \* 0: open; 1: goroutine started; 2: SetFreezeState ran
    frozenIndex,           \* LastUnassignedIndex it passed on
    proposeSummarys,       \* MappingProposeSummarys[incoming mapping][summary]
    proposeKeys,           \* MappingProposeKeys[incoming mapping]
    requiredCount, keyCount, \* MappingCounters[incoming mapping]
    thawed                 \* MappingThawed[incoming mapping]

bufferVars == <<LastUnassignedIndex, LastCreatedIndex, ConsecutiveFailedPubKeyAssigns>>
keygenVars == <<KeygenDecisions, decidedKeys, createdKeys, keygenStarted>>
assignVars == <<keyMapping, verifierToKeyIndex>>
freezeVars == <<proposeFreezes, freezeState, frozenIndex>>
mappingVars == <<proposeSummarys, proposeKeys, requiredCount, keyCount, thawed>>
vars == <<bufferVars, keygenVars, assignVars, publicKeys, freezeVars, mappingVars>>

Transferred == 0..TransferLUI - 1

NoProposals == [i \in Transferred |-> {}]

Init ==
    /\ LastUnassignedIndex = 0
    /\ LastCreatedIndex = 0
    /\ ConsecutiveFailedPubKeyAssigns = 0
    /\ KeygenDecisions = {} /\ decidedKeys = {} /\ createdKeys = {}
    /\ keyMapping = {}
    /\ verifierToKeyIndex = [u \in VerifierIDs |-> {}]
    /\ publicKeys = {}
    /\ keygenStarted = {}
    /\ proposeFreezes = {} /\ freezeState = 0 /\ frozenIndex = 0
    /\ proposeSummarys = {}
    /\ proposeKeys = NoProposals
    /\ requiredCount = 0 /\ keyCount = 0
    /\ thawed = FALSE

FreezeConfirmed == Cardinality(proposeFreezes) >= K + T
SummaryConfirmed == Cardinality(proposeSummarys) >= K

\* One owner per index in the database: a second one replaces the first.
StoreKeyMapping(i, u) == {e \in keyMapping : e[1] # i} \cup {<<i, u>>}
-----------------------------------------------------------------------------
\* Mutants of AssignmentAllowed: the freeze is not looked at; off by one.
AssignmentAllowedFrozen ==
    /\ Epoch # 1 => SummaryConfirmed
    /\ LastUnassignedIndex < LastCreatedIndex
    /\ LastUnassignedIndex < MaxLUI
AssignmentAllowedAtEnd ==
    /\ ~FreezeConfirmed
    /\ Epoch # 1 => SummaryConfirmed
    /\ LastUnassignedIndex <= LastCreatedIndex
    /\ LastUnassignedIndex < MaxLUI

(***************************************************************************)
(* AssignmentBFTTx: the user gets the key of the next unassigned index.     *)
(***************************************************************************)
AssignmentAllowed ==
    /\ ~FreezeConfirmed
    /\ Epoch # 1 => SummaryConfirmed
    /\ LastUnassignedIndex < LastCreatedIndex
    /\ LastUnassignedIndex < MaxLUI

\* Mutant of DumpBuffer: the counter is reset but no index is skipped.
DumpBufferInPlace ==
    /\ ConsecutiveFailedPubKeyAssigns = MaxFailedPubKeyAssigns
    /\ ConsecutiveFailedPubKeyAssigns' = 0
    /\ UNCHANGED <<LastUnassignedIndex, createdKeys, assignVars>>

\* Too many attempts in a row found a key missing: whether or not the key of the
\* index is there by now, everything that was created so far is skipped.
DumpBuffer ==
    /\ ConsecutiveFailedPubKeyAssigns = MaxFailedPubKeyAssigns
    /\ ConsecutiveFailedPubKeyAssigns' = 0
    /\ LastUnassignedIndex' = LastCreatedIndex
    /\ UNCHANGED <<createdKeys, assignVars>>

\* Mutant of PubKeyNotFound: failures are counted past the limit.
PubKeyNotFoundUnbounded ==
    /\ LastUnassignedIndex \notin createdKeys
    /\ ConsecutiveFailedPubKeyAssigns' = ConsecutiveFailedPubKeyAssigns + 1
    /\ UNCHANGED <<LastUnassignedIndex, createdKeys, assignVars>>

PubKeyNotFound ==
    /\ ConsecutiveFailedPubKeyAssigns # MaxFailedPubKeyAssigns
    /\ LastUnassignedIndex \notin createdKeys
    /\ ConsecutiveFailedPubKeyAssigns' = ConsecutiveFailedPubKeyAssigns + 1
    /\ UNCHANGED <<LastUnassignedIndex, createdKeys, assignVars>>

\* Mutant of AssignKey: the index is given out without moving on.
AssignKeyInPlace(u) ==
    /\ ConsecutiveFailedPubKeyAssigns # MaxFailedPubKeyAssigns
    /\ LastUnassignedIndex \in createdKeys
    /\ ConsecutiveFailedPubKeyAssigns' = 0
    /\ keyMapping' = StoreKeyMapping(LastUnassignedIndex, u)
    /\ verifierToKeyIndex' = [verifierToKeyIndex EXCEPT ![u] = @ \cup {LastUnassignedIndex}]
    /\ UNCHANGED <<LastUnassignedIndex, createdKeys>>

AssignKey(u) ==
    /\ ConsecutiveFailedPubKeyAssigns # MaxFailedPubKeyAssigns
    /\ LastUnassignedIndex \in createdKeys
    /\ ConsecutiveFailedPubKeyAssigns' = 0
    /\ keyMapping' = StoreKeyMapping(LastUnassignedIndex, u)
    /\ verifierToKeyIndex' = [verifierToKeyIndex EXCEPT ![u] = @ \cup {LastUnassignedIndex}]
    /\ LastUnassignedIndex' = LastUnassignedIndex + 1
    /\ createdKeys' = createdKeys \ {LastUnassignedIndex}

DeliverAssignment(u) ==
    /\ AssignmentAllowed
    /\ DumpBuffer \/ PubKeyNotFound \/ AssignKey(u)
    /\ UNCHANGED <<LastCreatedIndex, KeygenDecisions, decidedKeys, keygenStarted,
                   publicKeys, freezeVars, mappingVars>>
-----------------------------------------------------------------------------
(***************************************************************************)
(* Key generation transactions.                                             *)
(***************************************************************************)
\* Mutant of ProposeAllowed: looks for the pending key, not for the decision.
ProposeAllowedWithoutKey(i) == i \notin decidedKeys \cup createdKeys

ProposeAllowed(i) == i \notin KeygenDecisions

DeliverPropose(i) ==
    /\ i \in keygenStarted \ Failing
    /\ ProposeAllowed(i)
    /\ KeygenDecisions' = KeygenDecisions \cup {i}
    /\ decidedKeys' = decidedKeys \cup {i}
    /\ createdKeys' = createdKeys \ {i}
    /\ UNCHANGED <<bufferVars, keygenStarted, assignVars, publicKeys, freezeVars,
                   mappingVars>>

DeliverPubKey(i) ==
    /\ i \in decidedKeys
    /\ decidedKeys' = decidedKeys \ {i}
    /\ createdKeys' = createdKeys \cup {i}
    /\ publicKeys' = publicKeys \cup {i}
    /\ LastCreatedIndex' = LastCreatedIndex + 1
    /\ UNCHANGED <<LastUnassignedIndex, ConsecutiveFailedPubKeyAssigns, KeygenDecisions,
                   keygenStarted, assignVars, freezeVars, mappingVars>>

\* Mutant of KeygensToStart: the key that makes the buffer full is left out.
KeygensToStartExclusive == LastCreatedIndex..LastUnassignedIndex + KeyBuffer - 2

\* The share messages EndBlock hands to the key generation service, which
\* ignores those it has already seen.
KeygensToStart == LastCreatedIndex..LastUnassignedIndex + KeyBuffer - 1

EndBlock ==
    /\ keygenStarted' = IF LastCreatedIndex - LastUnassignedIndex < KeyBuffer
                        THEN keygenStarted \cup KeygensToStart
                        ELSE keygenStarted
    /\ UNCHANGED <<bufferVars, KeygenDecisions, decidedKeys, createdKeys, assignVars,
                   publicKeys, freezeVars, mappingVars>>
-----------------------------------------------------------------------------
(***************************************************************************)
(* Mapping transactions: freezing this epoch's assignments, and taking over *)
(* the assignments of the previous epoch.                                   *)
(***************************************************************************)
DeliverProposeFreeze(n) ==
    /\ n \notin proposeFreezes
    /\ proposeFreezes' = proposeFreezes \cup {n}
    /\ freezeState' = IF Cardinality(proposeFreezes') = K + T THEN 1 ELSE freezeState
    /\ UNCHANGED <<bufferVars, keygenVars, assignVars, publicKeys, frozenIndex,
                   mappingVars>>

\* The goroutine DeliverProposeFreeze started reads the index when it runs.
SetFreezeState ==
    /\ freezeState = 1
    /\ freezeState' = 2
    /\ frozenIndex' = LastUnassignedIndex
    /\ UNCHANGED <<bufferVars, keygenVars, assignVars, publicKeys, proposeFreezes,
                   mappingVars>>

\* isThawed, with the clean-up it does, on the counters (required, count).
Thaw(required, count, proposals) ==
    IF required # 0 /\ required = count
    THEN /\ thawed' = TRUE
         /\ requiredCount' = 0 /\ keyCount' = 0
         /\ proposeKeys' = NoProposals
    ELSE /\ requiredCount' = required /\ keyCount' = count
         /\ proposeKeys' = proposals
         /\ UNCHANGED thawed

\* Mutant of ApplySummary: the keys may all be there already, but only a
\* further key would be looked at.
ApplySummaryWithoutThaw ==
    /\ LastUnassignedIndex' = TransferLUI
    /\ LastCreatedIndex' =
          IF LastCreatedIndex < TransferLUI THEN TransferLUI ELSE LastCreatedIndex
    /\ requiredCount' = TransferLUI
    /\ UNCHANGED <<keyCount, proposeKeys, thawed>>

\* Mutant of ApplySummary: the created index is not raised with the other one.
ApplySummaryUnraised ==
    /\ LastUnassignedIndex' = TransferLUI
    /\ UNCHANGED LastCreatedIndex
    /\ Thaw(TransferLUI, keyCount, proposeKeys)

\* The summary is confirmed: assignments go on after the transferred indexes.
ApplySummary ==
    /\ LastUnassignedIndex' = TransferLUI
    /\ LastCreatedIndex' =
          IF LastCreatedIndex < TransferLUI THEN TransferLUI ELSE LastCreatedIndex
    /\ Thaw(TransferLUI, keyCount, proposeKeys)

\* Mutant of DeliverSummary: the summary is applied again for every proposal
\* after the K-th.
DeliverSummaryAgain(n) ==
    /\ Epoch # 1 /\ ~thawed
    /\ n \notin proposeSummarys
    /\ proposeSummarys' = proposeSummarys \cup {n}
    /\ IF Cardinality(proposeSummarys') >= K
       THEN ApplySummary
       ELSE UNCHANGED <<LastUnassignedIndex, LastCreatedIndex, requiredCount, keyCount,
                        proposeKeys, thawed>>
    /\ UNCHANGED <<ConsecutiveFailedPubKeyAssigns, keygenVars, assignVars, publicKeys,
                   freezeVars>>

DeliverSummary(n) ==
    /\ Epoch # 1 /\ ~thawed
    /\ n \notin proposeSummarys
    /\ proposeSummarys' = proposeSummarys \cup {n}
    /\ IF Cardinality(proposeSummarys') = K
       THEN ApplySummary
       ELSE UNCHANGED <<LastUnassignedIndex, LastCreatedIndex, requiredCount, keyCount,
                        proposeKeys, thawed>>
    /\ UNCHANGED <<ConsecutiveFailedPubKeyAssigns, keygenVars, assignVars, publicKeys,
                   freezeVars>>

\* Key i of the previous epoch is confirmed: it is stored and indexed.
ApplyKey(i) ==
    /\ publicKeys' = publicKeys \cup {i}
    /\ keyMapping' = StoreKeyMapping(i, Owners[i])
    /\ verifierToKeyIndex' =
          [u \in VerifierIDs |->
              IF u = Owners[i] THEN verifierToKeyIndex[u] \cup {i}
                               ELSE verifierToKeyIndex[u]]

KeyConfirmed(proposals, i) == Cardinality(proposals[i]) = K

DeliverKey(n, i) ==
    /\ Epoch # 1 /\ ~thawed
    /\ n \notin proposeKeys[i]
    /\ LET proposals == [proposeKeys EXCEPT ![i] = @ \cup {n}]
       IN  IF KeyConfirmed(proposals, i)
           THEN /\ ApplyKey(i)
                /\ Thaw(requiredCount, keyCount + 1, proposals)
           ELSE /\ proposeKeys' = proposals
                /\ UNCHANGED <<publicKeys, assignVars, requiredCount, keyCount, thawed>>
    /\ UNCHANGED <<bufferVars, keygenVars, freezeVars, proposeSummarys>>
-----------------------------------------------------------------------------
DeliverKeygenTx ==
    \/ \E i \in keygenStarted : DeliverPropose(i)
    \/ \E i \in decidedKeys : DeliverPubKey(i)

Next ==
    \/ \E u \in VerifierIDs : DeliverAssignment(u)
    \/ DeliverKeygenTx
    \/ EndBlock
    \/ \E n \in Nodes : DeliverProposeFreeze(n)
    \/ SetFreezeState
    \/ \E n \in Nodes : DeliverSummary(n)
    \/ \E n \in Nodes, i \in Transferred : DeliverKey(n, i)

Spec == Init /\ [][Next]_vars

(***************************************************************************)
(* Blocks keep ending, key generations that do not fail finish, and users   *)
(* without a key keep asking for one.                                       *)
(***************************************************************************)
Fairness ==
    /\ WF_vars(EndBlock)
    /\ WF_vars(DeliverKeygenTx)
    /\ WF_vars(\E u \in VerifierIDs : DeliverAssignment(u))

FairSpec == Spec /\ Fairness
-----------------------------------------------------------------------------
\* The failure counter stays within its limit, the indexes are natural numbers.
TypeOK ==
    /\ LastUnassignedIndex \in Nat /\ LastCreatedIndex \in Nat
    /\ ConsecutiveFailedPubKeyAssigns \in 0..MaxFailedPubKeyAssigns
    /\ KeygenDecisions \subseteq Nat
    /\ decidedKeys \subseteq Nat /\ createdKeys \subseteq Nat
    /\ keyMapping \subseteq Nat \X (VerifierIDs \cup {NoOne})
    /\ verifierToKeyIndex \in [VerifierIDs -> SUBSET Nat]
    /\ publicKeys \subseteq Nat /\ keygenStarted \subseteq Nat
    /\ proposeFreezes \subseteq Nodes
    /\ freezeState \in 0..2 /\ frozenIndex \in Nat
    /\ proposeSummarys \subseteq Nodes
    /\ proposeKeys \in [Transferred -> SUBSET Nodes]
    /\ requiredCount \in Nat /\ keyCount \in Nat
    /\ thawed \in BOOLEAN

\* LastCreatedIndex, which is compared with indexes but incremented once per
\* pubkey transaction, is the number of keys that were created: a key is counted
\* once although its KeygenPubKeys entry is deleted when it is assigned and
\* proposals of slow nodes still arrive.
CountsKeys == LastCreatedIndex = Cardinality(publicKeys)

\* After a block every index of the buffer has been handed to key generation
\* ("Here we trigger keygens up to the buffer amount"): the loop of EndBlock
\* starts at LastCreatedIndex, a count, and leaves no index below it out.
BufferTriggered ==
    [][EndBlock => LastUnassignedIndex..LastUnassignedIndex + KeyBuffer - 1
                      \subseteq keygenStarted']_vars

\* An index is in the list of its owner and in no other: it is never given to
\* a second user while the first still finds it under their name, through
\* assignments, dumps of the buffer and keys taken over from the last epoch.
AssignedOnce ==
    \A u \in VerifierIDs :
        verifierToKeyIndex[u] = {e[1] : e \in {f \in keyMapping : f[2] = u}}

\* The next index stays at or behind the last created one, so that int() of the
\* difference of the two unsigned counters in EndBlock is a natural number.
BufferNonNegative == LastUnassignedIndex <= LastCreatedIndex

\* The next index never goes back, so no index is reached a second time: the
\* summary of the previous epoch sets it without looking at its value
\* (bftruleset.go:511), but comes before the first assignment of this epoch and
\* is applied once, however many nodes propose it and whenever they do.
IndexNeverBack == [][LastUnassignedIndex' >= LastUnassignedIndex]_vars

\* Once the freeze is confirmed in an epoch that has taken over its predecessor's
\* keys the next index stands still: whenever the
\* goroutine reads it, every node passes the same number of keys on.
FreezeFinal ==
    [][FreezeConfirmed /\ (Epoch # 1 => SummaryConfirmed) =>
          LastUnassignedIndex' = LastUnassignedIndex]_vars

\* The mapping is thawed exactly when the summary and every key of it are
\* confirmed, whichever came last.
ThawComplete ==
    thawed <=> /\ SummaryConfirmed /\ TransferLUI # 0
               /\ \A i \in Transferred : <<i, Owners[i]>> \in keyMapping

\* While users ask for keys and the epoch is not frozen, the next index moves:
\* a key whose generation failed is skipped ("counter to dump buffer when
\* keygeneration fails across the system").
AssignmentProgress ==
    \A v \in 0..MaxLUI - 1 :
        LastUnassignedIndex = v ~> LastUnassignedIndex > v \/ FreezeConfirmed
=============================================================================
