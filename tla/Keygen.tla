-------------------------------- MODULE Keygen --------------------------------
(***************************************************************************)
(* One secret sharing of the distributed key generation: the messages       *)
(* share, send, echo and ready of keygennofsm for a single KeygenID, at     *)
(* every node of the epoch.                                                 *)
(*                                                                          *)
(* ProcessMessage holds the lock of the Keygen for the whole handler, so a  *)
(* handler is one action.  Handlers hand their messages to goroutines, each *)
(* addressed to every node, so a broadcast is one record in `msgs`; records *)
(* are never removed, which lets any node receive any message at any later  *)
(* time, several times, in any order, or never.                             *)
(***************************************************************************)
EXTENDS Integers, FiniteSets

CONSTANTS Nodes,        \* CurrNodes.Nodes
          Dealer,       \* the node whose index is in the KeygenID
          K, T,         \* CurrNodes.K, CurrNodes.T
          Commitments,  \* commitment matrices, identified by their CID
          NoC,          \* "no commitment": keygen.Cbar not set
          Correct,      \* nodes that neither restart nor stop (liveness only)
          InDecidedSet, \* the chain decides on a set with this sharing in it
          MaxRestarts   \* bound: node restarts in a behaviour

ASSUME NodesAssumption == IsFiniteSet(Nodes) /\ Dealer \in Nodes
ASSUME ThresholdAssumption == K \in Nat \ {0} /\ T \in Nat
ASSUME CommitmentAssumption == NoC \notin Commitments
ASSUME CorrectAssumption == Correct \subseteq Nodes
ASSUME DecisionAssumption == InDecidedSet \in BOOLEAN
ASSUME BoundAssumption == MaxRestarts \in Nat

VARIABLES
    keygenStarted,  \* the dealer's database: KeygenStarted of this KeygenID
    dealing,        \* the dealer is between marking the database and dealing
    msgs,           \* messages ever handed to the transport
    phase,          \* keygen.State.Phase
    receivedEcho,   \* keygen.State.ReceivedEcho: senders marked True
    receivedReady,  \* keygen.State.ReceivedReady
    EC, RC,         \* CStore[cid].EC and .RC
    points,         \* CStore[cid]: senders with a point in AC, ACprime, BC, BCprime
    signedText,     \* CStore[cid].SignedTextStore: signers
    abar,           \* CStore[cid].Abar...: the senders interpolated over, {} if nil
    cbar,           \* keygen.Cbar, NoC if nil
    si,             \* keygen.Si: the points behind Abar[0], {} if not set
    complete,       \* nodes whose KeygenStore holds nil for this KeygenID
    restarts        \* restarts so far

store == <<EC, RC, points, signedText, abar>>
nodeVars == <<phase, receivedEcho, receivedReady, store, cbar, si, complete>>
vars == <<keygenStarted, dealing, msgs, nodeVars, restarts>>

N == Cardinality(Nodes)

\* The Keygen that GetOrSetIfNotComplete creates on the first message.
EmptyCount == [c \in Commitments |-> 0]
EmptySets == [c \in Commitments |-> {}]

\* max(roundUp((n+t+1)/2), k)
ecThreshold ==
    LET nkt1half == (N + T + 2) \div 2
    IN  IF nkt1half >= K THEN nkt1half ELSE K

\* A message carries values of a polynomial; pts is the number of values of the
\* dealt polynomial, of degree K - 1, that went into it (K determine it, more do
\* not change it).  The values verify against the commitment (AVSSVerifyPoly,
\* AVSSVerifyPoint) when they are those of the dealt polynomial.
Send(c) == [type |-> "send", from |-> Dealer, c |-> c, pts |-> K]
Echo(n, c) == [type |-> "echo", from |-> n, c |-> c, pts |-> K]
Ready(n, c, S) ==
    [type |-> "ready", from |-> n, c |-> c,
     pts |-> IF Cardinality(S) < K THEN Cardinality(S) ELSE K]

Message == [type : {"send", "echo", "ready"}, from : Nodes, c : Commitments, pts : Nat]

Verified(m) == m.pts >= K
-----------------------------------------------------------------------------
Init ==
    /\ keygenStarted = FALSE
    /\ dealing = FALSE
    /\ msgs = {}
    /\ phase = [n \in Nodes |-> "Initial"]
    /\ receivedEcho = [n \in Nodes |-> {}]
    /\ receivedReady = [n \in Nodes |-> {}]
    /\ EC = [n \in Nodes |-> EmptyCount]
    /\ RC = [n \in Nodes |-> EmptyCount]
    /\ points = [n \in Nodes |-> EmptySets]
    /\ signedText = [n \in Nodes |-> EmptySets]
    /\ abar = [n \in Nodes |-> EmptySets]
    /\ cbar = [n \in Nodes |-> NoC]
    /\ si = [n \in Nodes |-> {}]
    /\ complete = {}
    /\ restarts = 0

\* Node n no longer holds a Keygen for this KeygenID.
ForgetSharing(n) ==
    /\ phase' = [phase EXCEPT ![n] = "Initial"]
    /\ receivedEcho' = [receivedEcho EXCEPT ![n] = {}]
    /\ receivedReady' = [receivedReady EXCEPT ![n] = {}]
    /\ EC' = [EC EXCEPT ![n] = EmptyCount]
    /\ RC' = [RC EXCEPT ![n] = EmptyCount]
    /\ points' = [points EXCEPT ![n] = EmptySets]
    /\ signedText' = [signedText EXCEPT ![n] = EmptySets]
    /\ abar' = [abar EXCEPT ![n] = EmptySets]
    /\ cbar' = [cbar EXCEPT ![n] = NoC]
    /\ si' = [si EXCEPT ![n] = {}]

\* Mutant of ReceiveShare: the KeygenStarted mark is not consulted.
ReceiveShareUnguarded ==
    /\ ~dealing
    /\ keygenStarted' = TRUE
    /\ dealing' = TRUE
    /\ UNCHANGED <<msgs, nodeVars, restarts>>

(***************************************************************************)
(* The service hands a share message to its own node once: EndBlock asks   *)
(* for it in every block while the key is in the buffer, and the service    *)
(* marks the KeygenID in the database, under its lock, before dealing.      *)
(***************************************************************************)
ReceiveShare ==
    /\ ~dealing
    /\ ~keygenStarted
    /\ keygenStarted' = TRUE
    /\ dealing' = TRUE
    /\ UNCHANGED <<msgs, nodeVars, restarts>>

\* processShareMessage: draw the polynomials, send every node its part.
ProcessShare ==
    /\ dealing
    /\ dealing' = FALSE
    /\ IF Dealer \in complete \/ phase[Dealer] = "Ended"
       THEN UNCHANGED <<msgs, phase>>
       ELSE /\ \E c \in Commitments :
                  /\ \A m \in msgs : m.c # c      \* a random polynomial is fresh
                  /\ msgs' = msgs \cup {Send(c)}
            /\ phase' = [phase EXCEPT ![Dealer] = "Started"]
    /\ UNCHANGED <<keygenStarted, receivedEcho, receivedReady, store, cbar, si,
                   complete, restarts>>

\* processSendMessage: verify the dealt polynomials and echo them.
ProcessSend(n, m) ==
    /\ m.type = "send"
    /\ n \notin complete /\ phase[n] # "Ended"
    /\ m.from = Dealer /\ Verified(m)
    /\ msgs' = msgs \cup {Echo(n, m.c)}
    /\ UNCHANGED <<keygenStarted, dealing, nodeVars, restarts>>

\* Mutant of EchoAccepted: a second echo of a sender counts again.
EchoAcceptedTwice(n, m) == Verified(m)

(***************************************************************************)
(* processEchoMessage.  ProcessMessage marks the sender on every path, also *)
(* when the message does not verify.  At an ended sharing the mark is left  *)
(* out: nothing reads it any more.                                          *)
(***************************************************************************)
EchoAccepted(n, m) ==
    /\ m.from \notin receivedEcho[n]
    /\ Verified(m)

InterpolateOnEcho(n, c, ec) == ec = ecThreshold /\ RC[n][c] < K

ProcessEcho(n, m) ==
    /\ m.type = "echo"
    /\ n \notin complete /\ phase[n] # "Ended"
    /\ receivedEcho' = [receivedEcho EXCEPT ![n] = @ \cup {m.from}]
    /\ IF EchoAccepted(n, m)
       THEN LET ec == EC[n][m.c] + 1
                pts == points[n][m.c] \cup {m.from}
            IN  /\ EC' = [EC EXCEPT ![n][m.c] = ec]
                /\ points' = [points EXCEPT ![n][m.c] = pts]
                /\ IF InterpolateOnEcho(n, m.c, ec)
                   THEN /\ abar' = [abar EXCEPT ![n][m.c] = pts]
                        /\ msgs' = msgs \cup {Ready(n, m.c, pts)}
                   ELSE UNCHANGED <<abar, msgs>>
       ELSE UNCHANGED <<EC, points, abar, msgs>>
    /\ UNCHANGED <<keygenStarted, dealing, phase, receivedReady, RC, signedText,
                   cbar, si, complete, restarts>>

\* Mutants of the ready handler: a second ready of a sender counts again; the
\* threshold is >= instead of ==; ready is not amplified.
ReadyAcceptedTwice(n, m) == Verified(m)
InterpolateFromK(n, c, rc) == rc >= K /\ EC[n][c] < ecThreshold
NeverInterpolateOnReady(n, c, rc) == FALSE

(***************************************************************************)
(* processReadyMessage.  The two thresholds are the branches of one         *)
(* if / else-if, so a node that interpolates on this message does not end   *)
(* on it.                                                                   *)
(***************************************************************************)
ReadyAccepted(n, m) ==
    /\ m.from \notin receivedReady[n]
    /\ Verified(m)

InterpolateOnReady(n, c, rc) == rc = K /\ EC[n][c] < ecThreshold

ProcessReady(n, m) ==
    /\ m.type = "ready"
    /\ n \notin complete /\ phase[n] # "Ended"
    /\ receivedReady' = [receivedReady EXCEPT ![n] = @ \cup {m.from}]
    /\ IF ReadyAccepted(n, m)
       THEN LET rc == RC[n][m.c] + 1
                pts == points[n][m.c] \cup {m.from}
            IN  /\ RC' = [RC EXCEPT ![n][m.c] = rc]
                /\ points' = [points EXCEPT ![n][m.c] = pts]
                /\ signedText' = [signedText EXCEPT ![n][m.c] = @ \cup {m.from}]
                /\ \/ /\ InterpolateOnReady(n, m.c, rc)
                      /\ abar' = [abar EXCEPT ![n][m.c] = pts]
                      /\ msgs' = msgs \cup {Ready(n, m.c, pts)}
                      /\ UNCHANGED <<phase, cbar, si>>
                   \/ /\ ~InterpolateOnReady(n, m.c, rc) /\ rc = K + T
                      /\ cbar' = [cbar EXCEPT ![n] = m.c]
                      /\ si' = [si EXCEPT ![n] = abar[n][m.c]]
                      /\ phase' = [phase EXCEPT ![n] = "Ended"]
                      /\ UNCHANGED <<abar, msgs>>
                   \/ /\ ~InterpolateOnReady(n, m.c, rc) /\ rc # K + T
                      /\ UNCHANGED <<phase, cbar, si, abar, msgs>>
       ELSE UNCHANGED <<phase, RC, points, signedText, abar, cbar, si, msgs>>
    /\ UNCHANGED <<keygenStarted, dealing, receivedEcho, EC, complete,
                   restarts>>
-----------------------------------------------------------------------------
(***************************************************************************)
(* A node marks every sharing of the DKG complete once it has the key       *)
(* (dkgCleanUp): after ending the ones in the set the chain decided on, at   *)
(* any time for a sharing that is left out of it.                           *)
(***************************************************************************)
CleanUp(n) ==
    /\ n \notin complete
    /\ InDecidedSet => phase[n] = "Ended"
    /\ complete' = complete \cup {n}
    /\ ForgetSharing(n)
    /\ UNCHANGED <<keygenStarted, dealing, msgs, restarts>>

\* The process restarts: the stores are in memory, KeygenStarted is on disk.
Restart(n) ==
    /\ n \notin Correct
    /\ restarts < MaxRestarts
    /\ restarts' = restarts + 1
    /\ dealing' = (dealing /\ n # Dealer)
    /\ complete' = complete \ {n}
    /\ ForgetSharing(n)
    /\ UNCHANGED <<keygenStarted, msgs>>

ProcessMessage(n, m) == ProcessSend(n, m) \/ ProcessEcho(n, m) \/ ProcessReady(n, m)

Next ==
    \/ ReceiveShare
    \/ ProcessShare
    \/ \E n \in Nodes : \E m \in msgs : ProcessMessage(n, m)
    \/ \E n \in Nodes : CleanUp(n) \/ Restart(n)

Spec == Init /\ [][Next]_vars

(***************************************************************************)
(* A correct node handles every message of a correct node: the handlers     *)
(* never wait, and it is assumed that one of the transport's bounded retries *)
(* of a send succeeds.                                                      *)
(***************************************************************************)
Fairness ==
    /\ WF_vars(ProcessShare)
    /\ \A n \in Correct :
          WF_vars(\E m \in msgs : m.from \in Correct /\ ProcessMessage(n, m))

FairSpec == Spec /\ Fairness
-----------------------------------------------------------------------------
\* The counters of CStore stay within the number of nodes: no node is counted
\* twice by the echo or the ready handler.
TypeOK ==
    /\ keygenStarted \in BOOLEAN /\ dealing \in BOOLEAN
    /\ msgs \subseteq Message
    /\ phase \in [Nodes -> {"Initial", "Started", "Ended"}]
    /\ receivedEcho \in [Nodes -> SUBSET Nodes]
    /\ receivedReady \in [Nodes -> SUBSET Nodes]
    /\ EC \in [Nodes -> [Commitments -> 0..N]]
    /\ RC \in [Nodes -> [Commitments -> 0..N]]
    /\ points \in [Nodes -> [Commitments -> SUBSET Nodes]]
    /\ signedText \in [Nodes -> [Commitments -> SUBSET Nodes]]
    /\ abar \in [Nodes -> [Commitments -> SUBSET Nodes]]
    /\ cbar \in [Nodes -> Commitments \cup {NoC}]
    /\ si \in [Nodes -> SUBSET Nodes]
    /\ complete \subseteq Nodes
    /\ restarts \in 0..MaxRestarts

\* Two nodes that end the sharing hold the same commitment matrix Cbar, however
\* sends, echoes and readies are lost, repeated and reordered and whichever node
\* restarts (processReadyMessage sets keygen.Cbar; the KeygenStarted mark keeps
\* a dealer from dealing a second polynomial under the same KeygenID).
Agreement ==
    \A n, m \in Nodes : cbar[n] # NoC /\ cbar[m] # NoC => cbar[n] = cbar[m]

\* A node that ends has interpolated: keygen.Si = c.Abar[0] never indexes a nil
\* slice, whichever of the echo and the ready threshold came first, and at least
\* K distinct nodes contributed a point to the polynomial.
SharesInterpolated ==
    \A n \in Nodes : phase[n] = "Ended" => Cardinality(si[n]) >= K

\* A node that ends holds K + T ready signatures on its commitment, so that the
\* proposal built from SignedTextStore proves the commitment to the chain, which
\* counts K of them (processCompleteMessage).
ProofsSufficient ==
    \A n \in Nodes : phase[n] = "Ended" =>
        Cardinality(signedText[n][cbar[n]]) = K + T

\* Every ready message that is sent passes AVSSVerifyPoint at its receivers: a
\* node never evaluates a polynomial it interpolated over fewer than K points.
ReadyVerifies == \A m \in msgs : Verified(m)

\* The polynomial a node interpolated, and evaluated in the ready messages it
\* sent, is the one its share is read from: it is not replaced while the node
\* keeps the sharing.
PolynomialStable ==
    [][\A n \in Nodes, c \in Commitments :
          abar[n][c] # {} => abar'[n][c] \in {abar[n][c], {}}]_vars

\* The commitment that was dealt, read off the transport.
DealtCommitment ==
    IF \E m \in msgs : m.type = "send"
    THEN (CHOOSE m \in msgs : m.type = "send").c
    ELSE NoC

Abstract == INSTANCE Sharing WITH dealt <- DealtCommitment, outcome <- cbar

\* The protocol implements the sharing the DKG layer relies on: one commitment
\* per KeygenID, and every outcome is that commitment.
ImplementsSharing == Abstract!Spec

\* Once one node ends a sharing of the decided set every correct node ends it
\* too: the decide handler waits for those sharings without a timeout, and nodes
\* that are done stop answering, so this is what keeps it from hanging.
Totality ==
    (\E n \in Nodes : phase[n] = "Ended") ~>
        \A n \in Correct : phase[n] = "Ended" \/ n \in complete

\* When the nodes that need not be correct handle their messages as well, a
\* sharing that is dealt is ended by every node: no order of echoes and readies
\* makes a node miss both thresholds of processEchoMessage and
\* processReadyMessage, which are compared with ==.
DealtEnds ==
    (\A n \in Nodes : WF_vars(\E m \in msgs : ProcessMessage(n, m))) =>
        (dealing ~> \A n \in Nodes : phase[n] = "Ended" \/ n \in complete)
=============================================================================
