------------------------------- MODULE Mapping -------------------------------
(***************************************************************************)
(* The transfer of the mapping to the nodes of the next epoch.  Each old   *)
(* node, once triggered (module Freeze), sends every new node a summary and *)
(* the keys below the handed-over index as it finds them in its database;   *)
(* a new node broadcasts what OldK old nodes sent alike; the new chain      *)
(* stores what NewK new nodes broadcast, and thaws when the keys are there. *)
(***************************************************************************)
EXTENDS Integers, FiniteSets

CONSTANTS OldNodes, OldK,   \* mappingNode.OldNodes
          NewNodes, NewK,   \* mappingNode.NewNodes
          EndIndex,         \* the index of the transfer summary
          Settled,          \* indices every old node has a key mapping for
          Correct,          \* new nodes that do not restart
          MaxRestarts       \* bound: restarts of new nodes in a behaviour

ASSUME NodesAssumption == IsFiniteSet(OldNodes) /\ IsFiniteSet(NewNodes)
\* More than half of the old nodes, see the trust assumptions of the README.
ASSUME ThresholdAssumption ==
    /\ OldK \in Nat \ {0} /\ 2 * OldK > Cardinality(OldNodes)
    /\ NewK \in Nat \ {0}
ASSUME EndIndexAssumption == EndIndex \in Nat /\ Settled \subseteq 0..(EndIndex - 1)
ASSUME CorrectAssumption == Correct \subseteq NewNodes
ASSUME BoundAssumption == MaxRestarts \in Nat

VARIABLES
    sent,           \* items an old node sends to all new nodes
    sendCount,      \* MappingSummary.SendCount and MappingKeys.SendCount
    outbox,         \* broadcasts on their way to the new chain
    proposed,       \* MappingProposeSummarys and MappingProposeKeys
    requiredCount,  \* MappingCounters[mappingID].RequiredCount
    keyCount,       \* MappingCounters[mappingID].KeyCount
    keyMapping,     \* the key mappings written to the new chain's database
    thawed,         \* MappingThawed[mappingID]
    restarts        \* restarts so far

chainVars == <<proposed, requiredCount, keyCount, keyMapping, thawed>>
vars == <<sent, sendCount, outbox, chainVars, restarts>>

Indices == 0..(EndIndex - 1)

\* A key as an old node sends it: "missing" is the placeholder without a
\* public key or verifiers.
Keys == [index : Indices, view : {"key", "missing"}]

Summary == [index |-> EndIndex, view |-> "summary"]

Items == Keys \cup {Summary}

Init ==
    /\ sent = [o \in OldNodes |-> {}]
    /\ sendCount = [n \in NewNodes |-> [item \in Items |-> {}]]
    /\ outbox = {}
    /\ proposed = [item \in Items |-> {}]
    /\ requiredCount = 0 /\ keyCount = 0
    /\ keyMapping = {}
    /\ thawed = FALSE
    /\ restarts = 0
-----------------------------------------------------------------------------
\* triggerMapping: the summary goes out ...
SendSummary(o) ==
    /\ sent[o] = {}
    /\ sent' = [sent EXCEPT ![o] = {Summary}]
    /\ UNCHANGED <<sendCount, outbox, chainVars, restarts>>

\* RetrieveKeyMapping; an error makes the sender fall back to the placeholder.
Retrieved(i) == IF i \in Settled THEN {"key"} ELSE {"key", "missing"}

\* ... and a goroutine sends the keys in the order of their indices.
SendKey(o) ==
    /\ Summary \in sent[o]
    /\ LET i == Cardinality(sent[o]) - 1
       IN  /\ i < EndIndex
           /\ \E v \in Retrieved(i) :
                 sent' = [sent EXCEPT ![o] = @ \cup {[index |-> i, view |-> v]}]
    /\ UNCHANGED <<sendCount, outbox, chainVars, restarts>>

\* Mutant of EnoughSenders: one old node is enough.
EnoughSendersOne(senders) == Cardinality(senders) = 1

\* Mutant of EnoughSenders: more than the threshold.
EnoughSendersMore(senders) == Cardinality(senders) = OldK + 1

\* Exactly the OldK-th sender of an item makes a new node broadcast it.
EnoughSenders(senders) == Cardinality(senders) = OldK

\* The mapping_summary and mapping_key handlers: a sender is counted once.
ProcessMessage(n, o, item) ==
    /\ item \in sent[o]
    /\ o \notin sendCount[n][item]
    /\ sendCount' = [sendCount EXCEPT ![n][item] = @ \cup {o}]
    /\ outbox' = IF EnoughSenders(sendCount'[n][item])
                 THEN outbox \cup {<<n, item>>}
                 ELSE outbox
    /\ UNCHANGED <<sent, chainVars, restarts>>
-----------------------------------------------------------------------------
\* Mutant of isThawed: thaws when a key is still to come.
isThawedEarly(required, count) == required # 0 /\ count >= required - 1

\* The new chain thaws when it holds as many keys as the summary announced.
isThawed(required, count) == required # 0 /\ count = required

\* The clean-up of a thaw, or the counters and proposals as they now are.
Thaw(required, count, proposals) ==
    IF isThawed(required, count)
    THEN /\ thawed' = TRUE
         /\ requiredCount' = 0 /\ keyCount' = 0
         /\ proposed' = [item \in Items |-> IF item = Summary THEN proposals[item] ELSE {}]
    ELSE /\ requiredCount' = required /\ keyCount' = count
         /\ proposed' = proposals
         /\ UNCHANGED thawed

\* Mutant of Confirmed: every proposal past the threshold counts again.
ConfirmedAgain(proposers) == Cardinality(proposers) >= NewK

Confirmed(proposers) == Cardinality(proposers) = NewK

\* A mapping_summary_broadcast or mapping_key_broadcast transaction; it is
\* rejected once the mapping is thawed, and when n has proposed the item.
DeliverTx(n, item) ==
    /\ <<n, item>> \in outbox
    /\ outbox' = outbox \ {<<n, item>>}
    /\ IF thawed \/ n \in proposed[item]
       THEN UNCHANGED chainVars
       ELSE LET proposals == [proposed EXCEPT ![item] = @ \cup {n}]
            IN  CASE ~Confirmed(proposals[item]) ->
                        /\ proposed' = proposals
                        /\ UNCHANGED <<requiredCount, keyCount, keyMapping, thawed>>
                  [] Confirmed(proposals[item]) /\ item = Summary ->
                        /\ Thaw(EndIndex, keyCount, proposals)
                        /\ UNCHANGED keyMapping
                  [] OTHER ->
                        /\ Thaw(requiredCount, keyCount + 1, proposals)
                        /\ keyMapping' = keyMapping \cup {item}
    /\ UNCHANGED <<sent, sendCount, restarts>>

\* A new node restarts: what it counted and was about to broadcast was in
\* memory.
Restart(n) ==
    /\ n \notin Correct
    /\ restarts < MaxRestarts
    /\ restarts' = restarts + 1
    /\ sendCount' = [sendCount EXCEPT ![n] = [item \in Items |-> {}]]
    /\ \E lost \in SUBSET {x \in outbox : x[1] = n} : outbox' = outbox \ lost
    /\ UNCHANGED <<sent, chainVars>>

Next ==
    \/ \E o \in OldNodes : SendSummary(o) \/ SendKey(o)
    \/ \E n \in NewNodes, o \in OldNodes, item \in Items : ProcessMessage(n, o, item)
    \/ \E n \in NewNodes, item \in Items : DeliverTx(n, item)
    \/ \E n \in NewNodes : Restart(n)

Spec == Init /\ [][Next]_vars

\* Old nodes go on sending, and a correct new node goes on handling what was sent
\* and getting its transactions to the chain; in which order is left open, since
\* each is done once.  Assumed: one of the bounded retries of each send succeeds.
Fairness ==
    /\ \A o \in OldNodes : WF_vars(SendSummary(o) \/ SendKey(o))
    /\ \A n \in Correct :
          /\ WF_vars(\E o \in OldNodes : \E item \in sent[o] : ProcessMessage(n, o, item))
          /\ WF_vars(\E item \in Items : DeliverTx(n, item))

FairSpec == Spec /\ Fairness
-----------------------------------------------------------------------------
\* The chain counts each key once, so its counter never passes the number of
\* keys in the summary.
TypeOK ==
    /\ sent \in [OldNodes -> SUBSET Items]
    /\ sendCount \in [NewNodes -> [Items -> SUBSET OldNodes]]
    /\ outbox \subseteq NewNodes \X Items
    /\ proposed \in [Items -> SUBSET NewNodes]
    /\ requiredCount \in {0, EndIndex}
    /\ keyCount \in 0..EndIndex
    /\ keyMapping \subseteq Keys
    /\ thawed \in BOOLEAN
    /\ restarts \in 0..MaxRestarts

\* A key the new chain stores was sent in that form by OldK old nodes, although
\* new nodes lose their counts in restarts and broadcast again.
KeyBacked ==
    \A key \in keyMapping : Cardinality({o \in OldNodes : key \in sent[o]}) >= OldK

\* The old nodes read their databases at different times and may send a key and
\* its placeholder for the same index; the new chain never stores both.
OneKeyPerIndex ==
    \A j, k \in keyMapping : j.index = k.index => j = k

\* isThawed compares two counters; a thawed mapping has the summary and a key
\* mapping for every index below it.
ThawComplete ==
    thawed => /\ Cardinality(proposed[Summary]) >= NewK
              /\ \A i \in Indices : \E key \in keyMapping : key.index = i

\* OldK old nodes found the same form of the key with index i.
Alike(i) ==
    \E key \in Keys : key.index = i /\ Cardinality({o \in OldNodes : key \in sent[o]}) >= OldK

\* The transfer ends once OldK old nodes have sent each key alike: whatever else
\* old nodes send and whichever new node restarts, the new chain thaws.  What was
\* sent stays sent and a thawed mapping stays thawed, so this is the same as
\* (\A i : Alike(i)) ~> thawed.
Thaws == []<>((\A i \in Indices : Alike(i)) => thawed)
=============================================================================
