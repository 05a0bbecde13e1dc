--------------------------------- MODULE DKG ---------------------------------
(***************************************************************************)
(* One distributed key: from the sharings that end at a node (module        *)
(* Keygen, here the abstraction of module Sharing) to a proposal on the     *)
(* chain, the chain's decision on a set of sharings, the exchange of NIZKPs *)
(* and the public key transaction.                                          *)
(*                                                                          *)
(* complete and nizkp messages carry the NullKeygenID, so the handlers of a *)
(* node exclude each other on the lock of that Keygen, which the nizkp      *)
(* handler gives back while it waits: each is one action, enabled when its  *)
(* waiting is over.  The chain delivers the decision and the public key to  *)
(* each node in its own time.                                               *)
(***************************************************************************)
EXTENDS Integers, FiniteSets

CONSTANTS Nodes,        \* CurrNodes.Nodes, those that are up
          K, T,         \* CurrNodes.K, CurrNodes.T
          Dealers,      \* CurrNodes.Nodes, those whose sharing is dealt
          Correct,      \* nodes that do not restart
          MaxRestarts   \* bound: node restarts in a behaviour

ASSUME NodesAssumption == IsFiniteSet(Nodes) /\ IsFiniteSet(Dealers)
ASSUME ThresholdAssumption == K \in Nat \ {0} /\ T \in Nat
ASSUME CorrectAssumption == Correct \subseteq Nodes
ASSUME BoundAssumption == MaxRestarts \in Nat

VARIABLES
    ended,          \* sharings with Phase Ended in the KeygenStore
    completes,      \* complete messages a node has sent itself
    dkgStore,       \* "none", "active", or "complete": cleaned up
    DMap,           \* dkg.DMap: sharings whose complete message was processed
    staggered,      \* the set a goroutine is about to propose, {} if there is none
    proposes,       \* propose transactions handed to Tendermint
    decision,       \* the decided set of sharings, {} if undecided
    decideSeen,     \* nodes that have executed the deciding transaction
    deciding,       \* nodes whose decide handler is waiting
    Dbar,           \* dkg.Dbar and dkg.Si: the sharings summed up, {} if not set
    nizkps,         \* nizkp messages sent, with the sharings they are about
    NIZKPStore,     \* dkg.NIZKPStore: senders
    storing,        \* the share a goroutine is about to store, {} if there is none
    completedShare, \* database: the sharings the stored share is a sum of
    pubKeyWaiting,  \* nodes with a goroutine about to send the public key
    pubKeySent,     \* a pubkey transaction was handed to Tendermint
    created,        \* the pubkey transaction was accepted
    pubKeySeen,     \* nodes that have executed it: IndexToPublicKeyExists
    restarts        \* restarts so far

dkgVars == <<ended, completes, dkgStore, DMap, staggered, deciding, Dbar, NIZKPStore,
             storing, pubKeyWaiting>>
chainVars == <<proposes, decision, decideSeen, pubKeySent, created, pubKeySeen>>
vars == <<dkgVars, chainVars, nizkps, completedShare, restarts>>

None == [n \in Nodes |-> {}]

Init ==
    /\ ended = None /\ completes = None /\ DMap = None /\ staggered = None
    /\ dkgStore = [n \in Nodes |-> "none"]
    /\ proposes = {} /\ decision = {} /\ decideSeen = {} /\ deciding = {}
    /\ Dbar = None /\ nizkps = {} /\ NIZKPStore = None
    /\ storing = None /\ completedShare = None
    /\ pubKeyWaiting = {} /\ pubKeySent = FALSE /\ created = FALSE /\ pubKeySeen = {}
    /\ restarts = 0
-----------------------------------------------------------------------------
\* The K + T-th ready of sharing d arrives at n, which tells itself.
EndSharing(n, d) ==
    /\ dkgStore[n] # "complete"
    /\ d \notin ended[n]
    /\ ended' = [ended EXCEPT ![n] = @ \cup {d}]
    /\ completes' = [completes EXCEPT ![n] = @ \cup {d}]
    /\ UNCHANGED <<dkgStore, DMap, staggered, deciding, Dbar, NIZKPStore, storing,
                   pubKeyWaiting, chainVars, nizkps, completedShare, restarts>>

\* Mutant of ReadyToPropose: proposes with the first sharing past the threshold.
ReadyToProposeLate(dmap) == Cardinality(dmap) = K + T + 1

\* Exactly the K + T-th sharing makes a node propose.
ReadyToPropose(dmap) == Cardinality(dmap) = K + T

\* processCompleteMessage.
ProcessComplete(n, d) ==
    /\ d \in completes[n]
    /\ completes' = [completes EXCEPT ![n] = @ \ {d}]
    /\ IF dkgStore[n] = "complete"
       THEN UNCHANGED <<dkgStore, DMap, staggered>>
       ELSE LET dmap == DMap[n] \cup {d}
            IN  /\ dkgStore' = [dkgStore EXCEPT ![n] = "active"]
                /\ DMap' = [DMap EXCEPT ![n] = dmap]
                /\ staggered' = IF ReadyToPropose(dmap) /\ dmap \subseteq ended[n]
                                THEN [staggered EXCEPT ![n] = dmap]
                                ELSE staggered
    /\ UNCHANGED <<ended, deciding, Dbar, NIZKPStore, storing, pubKeyWaiting, chainVars,
                   nizkps, completedShare, restarts>>

\* The goroutine started there, after its delay: nothing to propose any more
\* when the decision has been processed in the meantime.  dkg.Si of the object
\* it captured is then set, and stays set when the store has dropped the DKG.
SendPropose(n) ==
    /\ staggered[n] # {}
    /\ staggered' = [staggered EXCEPT ![n] = {}]
    /\ proposes' = IF Dbar[n] = {} /\ dkgStore[n] # "complete"
                    THEN proposes \cup {staggered[n]}
                    ELSE proposes
    /\ UNCHANGED <<ended, completes, dkgStore, DMap, deciding, Dbar, NIZKPStore, storing,
                   pubKeyWaiting, decision, decideSeen, pubKeySent, created, pubKeySeen,
                   nizkps, completedShare, restarts>>

\* Mutant of ProposeAccepted: a later proposal replaces the decision.
ProposeAcceptedAgain(P) == Cardinality(P) >= K

\* The first proposal with enough sharings is the decision.
ProposeAccepted(P) == decision = {} /\ Cardinality(P) >= K

DeliverPropose(P) ==
    /\ ProposeAccepted(P)
    /\ decision' = P
    /\ UNCHANGED <<dkgVars, proposes, decideSeen, pubKeySent, created, pubKeySeen, nizkps,
                   completedShare, restarts>>

\* Node n executes the transaction and hands the decision to the DKG.
DeliverDecide(n) ==
    /\ decision # {} /\ n \notin decideSeen
    /\ decideSeen' = decideSeen \cup {n}
    /\ deciding' = deciding \cup {n}
    /\ UNCHANGED <<ended, completes, dkgStore, DMap, staggered, Dbar, NIZKPStore, storing,
                   pubKeyWaiting, proposes, decision, pubKeySent, created, pubKeySeen,
                   nizkps, completedShare, restarts>>

\* Mutant of SharingsEnded: one sharing of the set is as good as all.
SharingsEndedSome(n) == \E d \in decision : d \in ended[n]

SharingsEnded(n) == decision \subseteq ended[n]

\* ProcessBroadcastMessage of "decide", once it has stopped waiting.
ProcessDecide(n) ==
    /\ n \in deciding
    /\ deciding' = deciding \ {n}
    /\ \/ /\ dkgStore[n] = "complete"
          /\ UNCHANGED <<Dbar, nizkps>>
       \/ /\ dkgStore[n] = "active" /\ SharingsEnded(n)
          /\ LET sum == decision \cap ended[n]
             IN  /\ Dbar' = [Dbar EXCEPT ![n] = sum]
                 /\ nizkps' = nizkps \cup {[from |-> n, sum |-> sum]}
    /\ UNCHANGED <<ended, completes, dkgStore, DMap, staggered, NIZKPStore, storing,
                   pubKeyWaiting, chainVars, completedShare, restarts>>
-----------------------------------------------------------------------------
\* Mutant of CleanUp: DKGStore.Complete is left out.
CleanUpSharings(n) ==
    /\ ended' = [ended EXCEPT ![n] = {}]
    /\ UNCHANGED <<dkgStore, DMap, Dbar, NIZKPStore>>

\* dkgCleanUp: the stores hold nil for the DKG and for all of its sharings.
CleanUp(n) ==
    /\ dkgStore' = [dkgStore EXCEPT ![n] = "complete"]
    /\ ended' = [ended EXCEPT ![n] = {}]
    /\ DMap' = [DMap EXCEPT ![n] = {}]
    /\ Dbar' = [Dbar EXCEPT ![n] = {}]
    /\ NIZKPStore' = [NIZKPStore EXCEPT ![n] = {}]

\* Mutants of EnoughNIZKPs: off by one either way.
EnoughNIZKPsEarly(senders) == Cardinality(senders) = K - 1
EnoughNIZKPsLate(senders) == Cardinality(senders) = K + 1

EnoughNIZKPs(senders) == Cardinality(senders) = K

(***************************************************************************)
(* processNIZKPMessage, once Dbar is there.  It is verified against Dbar.    *)
(* With the K-th one the share goes to the database and the public key to   *)
(* the chain, by two goroutines.                                            *)
(***************************************************************************)
ProcessNIZKP(n, m) ==
    /\ dkgStore[n] = "active" /\ Dbar[n] # {}
    /\ m.sum = Dbar[n]
    /\ LET senders == NIZKPStore[n] \cup {m.from}
       IN  IF EnoughNIZKPs(senders)
           THEN /\ storing' = [storing EXCEPT ![n] = Dbar[n]]
                /\ pubKeyWaiting' = pubKeyWaiting \cup {n}
                /\ CleanUp(n)
           ELSE /\ NIZKPStore' = [NIZKPStore EXCEPT ![n] = senders]
                /\ UNCHANGED <<storing, pubKeyWaiting, dkgStore, ended, DMap, Dbar>>
    /\ UNCHANGED <<completes, staggered, deciding, chainVars, nizkps, completedShare,
                   restarts>>

\* Output: StoreCompletedKeygenShare.
Output(n) ==
    /\ storing[n] # {}
    /\ completedShare' = [completedShare EXCEPT ![n] = storing[n]]
    /\ storing' = [storing EXCEPT ![n] = {}]
    /\ UNCHANGED <<ended, completes, dkgStore, DMap, staggered, deciding, Dbar, NIZKPStore,
                   pubKeyWaiting, chainVars, nizkps, restarts>>

CheckIfNIZKPProcessed(n) == n \in pubKeySeen

SendPubKey(n) ==
    /\ n \in pubKeyWaiting
    /\ pubKeyWaiting' = pubKeyWaiting \ {n}
    /\ pubKeySent' = (pubKeySent \/ ~CheckIfNIZKPProcessed(n))
    /\ UNCHANGED <<ended, completes, dkgStore, DMap, staggered, deciding, Dbar, NIZKPStore,
                   storing, proposes, decision, decideSeen, created, pubKeySeen, nizkps,
                   completedShare, restarts>>

\* The chain accepts the public key of a decided DKG once.
DeliverPubKey ==
    /\ pubKeySent /\ decision # {} /\ ~created
    /\ created' = TRUE
    /\ UNCHANGED <<dkgVars, proposes, decision, decideSeen, pubKeySent, pubKeySeen, nizkps,
                   completedShare, restarts>>

\* Node n executes the transaction: StorePublicKeyToIndex.
ApplyPubKey(n) ==
    /\ created /\ n \in decideSeen /\ n \notin pubKeySeen
    /\ pubKeySeen' = pubKeySeen \cup {n}
    /\ UNCHANGED <<dkgVars, proposes, decision, decideSeen, pubKeySent, created, nizkps,
                   completedShare, restarts>>

(***************************************************************************)
(* The process restarts and loses the stores and its goroutines.  Tendermint *)
(* replays the deciding transaction when its block was not committed.        *)
(***************************************************************************)
Restart(n) ==
    /\ n \notin Correct
    /\ restarts < MaxRestarts
    /\ restarts' = restarts + 1
    /\ dkgStore' = [dkgStore EXCEPT ![n] = "none"]
    /\ ended' = [ended EXCEPT ![n] = {}]
    /\ DMap' = [DMap EXCEPT ![n] = {}]
    /\ Dbar' = [Dbar EXCEPT ![n] = {}]
    /\ NIZKPStore' = [NIZKPStore EXCEPT ![n] = {}]
    /\ completes' = [completes EXCEPT ![n] = {}]
    /\ staggered' = [staggered EXCEPT ![n] = {}]
    /\ storing' = [storing EXCEPT ![n] = {}]
    /\ deciding' = deciding \ {n}
    /\ pubKeyWaiting' = pubKeyWaiting \ {n}
    /\ \/ UNCHANGED decideSeen
       \/ n \notin pubKeySeen /\ decideSeen' = decideSeen \ {n}
    /\ UNCHANGED <<proposes, decision, pubKeySent, created, pubKeySeen, nizkps,
                   completedShare>>
-----------------------------------------------------------------------------
Step(n) ==
    \/ \E d \in completes[n] : ProcessComplete(n, d)
    \/ SendPropose(n)
    \/ DeliverDecide(n)
    \/ ProcessDecide(n)
    \/ Output(n)
    \/ SendPubKey(n)
    \/ ApplyPubKey(n)

Next ==
    \/ \E n \in Nodes, d \in Dealers : EndSharing(n, d)
    \/ \E n \in Nodes : Step(n)
    \/ \E n \in Nodes : \E m \in nizkps : ProcessNIZKP(n, m)
    \/ \E P \in proposes : DeliverPropose(P)
    \/ DeliverPubKey
    \/ \E n \in Nodes : Restart(n)

Spec == Init /\ [][Next]_vars

(***************************************************************************)
(* Goroutines run, Tendermint orders the transactions it is given and       *)
(* delivers them, and a dealt sharing ends at every correct node (Keygen:   *)
(* DealtEnds, Totality).  Assumed: one of the transport's bounded retries   *)
(* gets each nizkp message to its receiver.                                 *)
(***************************************************************************)
Fairness ==
    /\ \A n \in Correct :
          /\ WF_vars(Step(n))
          /\ \A d \in Dealers : WF_vars(EndSharing(n, d))
          /\ \A m \in Correct :
                WF_vars(\E msg \in nizkps : msg.from = m /\ m \notin NIZKPStore[n]
                                              /\ ProcessNIZKP(n, msg))
    /\ WF_vars(\E P \in proposes : DeliverPropose(P))
    /\ WF_vars(DeliverPubKey)

FairSpec == Spec /\ Fairness
-----------------------------------------------------------------------------
\* The handlers keep the types of the DKG's fields; a node never holds as many
\* NIZKPs as it takes to finish without having finished.
TypeOK ==
    /\ ended \in [Nodes -> SUBSET Dealers]
    /\ completes \in [Nodes -> SUBSET Dealers]
    /\ DMap \in [Nodes -> SUBSET Dealers]
    /\ staggered \in [Nodes -> SUBSET Dealers]
    /\ dkgStore \in [Nodes -> {"none", "active", "complete"}]
    /\ proposes \subseteq SUBSET Dealers
    /\ decision \subseteq Dealers
    /\ decideSeen \subseteq Nodes /\ deciding \subseteq Nodes
    /\ Dbar \in [Nodes -> SUBSET Dealers]
    /\ nizkps \subseteq [from : Nodes, sum : SUBSET Dealers]
    /\ NIZKPStore \in [Nodes -> SUBSET Nodes]
    /\ \A n \in Nodes : Cardinality(NIZKPStore[n]) < K
    /\ storing \in [Nodes -> SUBSET Dealers]
    /\ completedShare \in [Nodes -> SUBSET Dealers]
    /\ pubKeyWaiting \subseteq Nodes /\ pubKeySeen \subseteq Nodes
    /\ pubKeySent \in BOOLEAN /\ created \in BOOLEAN
    /\ restarts \in 0..MaxRestarts

\* All shares that are stored for the key, on any node, are sums over the same
\* sharings, the ones the chain decided on: they lie on one polynomial.
SharesAgree ==
    \A n \in Nodes :
        /\ completedShare[n] \in {{}, decision}
        /\ storing[n] \in {{}, decision}
        /\ Dbar[n] \in {{}, decision}

\* What a node proposes it can prove: the Cbar of every sharing in DMap is still
\* in the KeygenStore when the K + T-th complete message is processed, so none
\* of the handler's "could not get completed ..." errors loses the proposal.
ProposalProvable == \A n \in Nodes : DMap[n] \subseteq ended[n]

\* Nodes with a share of the key, in memory or in the database.
Holders ==
    {n \in Nodes : completedShare[n] # {} \/ storing[n] # {} \/ Dbar[n] # {}}

\* When the chain counts a key as created, K nodes computed a share of it, and
\* each restart costs at most one of them: a share is in memory only until K
\* NIZKPs have arrived and the goroutine has stored it.
KeyRecoverable == created => Cardinality(Holders) + restarts >= K

\* With enough correct dealers the chain gets the public key: the staggered
\* proposals and public keys are not all dropped.
KeyCreated == <>created

\* Every correct node stores its share of a decided key, also one that sees the
\* decision, or its own sharings end, after the others have cleaned up.
SharesStored == decision # {} ~> \A n \in Correct : completedShare[n] # {}
=============================================================================
