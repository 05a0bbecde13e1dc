# A TLA+ model of torus-node

torus-node generates secp256k1 keys among the nodes of an epoch, assigns them to
users on a Tendermint chain that each epoch runs for itself, and hands keys and
assignments over when the next epoch begins. This directory models the protocols
between the nodes and the rules of the chain, checks them with TLC on small
instances and proves the most important invariants with TLAPS. File and line
numbers refer to the repository; `PROJECT.json` maps every definition to its lines.

## The system

| Part | Source | Modelled by |
|---|---|---|
| Key generation, one sharing | `keygennofsm/`, `dkgnode/keygen_nofsm.go` | `Keygen`, abstractly `Sharing` |
| Key generation, one distributed key | `keygennofsm/`, `dkgnode/keygen_nofsm.go`, keygen transactions of `dkgnode/bftruleset.go` | `DKG` |
| Chain rules and key buffer | `dkgnode/bftruleset.go`, `dkgnode/abci_app.go` | `BftRuleset` |
| End of an epoch | `outgoingPSSMonitor` in `dkgnode/ethereum.go`, freeze in `dkgnode/mapping.go` and `bftruleset.go` | `Freeze` |
| Mapping transfer | `mapping/`, `dkgnode/mapping.go`, mapping transactions | `Mapping` |
| Proactive secret sharing (PSS) | `pss/`, `dkgnode/pss.go` | not yet |
| ABCI application: commit, replay, CheckTx, Query | `dkgnode/abci_app.go`, `dkgnode/bft_tx.go` | EndBlock only |
| Tendermint service, message queue | `dkgnode/tendermint.go`, `msgqueue/` | not yet |
| Services, event bus | `dkgnode/service*.go`, `eventbus/` | not yet |
| Ethereum service, node register | `dkgnode/ethereum.go`, `dkgnode/node_auth.go` | outgoing monitor only |
| User requests, caches | `dkgnode/jrpc_handlers.go`, `dkgnode/cache.go` | not yet |
| Database | `db/`, `dkgnode/db.go` | variables of the modules that use it |
| Peer-to-peer, Tendermint, Ethereum | libraries and services | the environment of the modules |
| Curves, polynomials, proofs | `pvss/` | a value verifies iff it belongs to the dealt polynomial |
| Verifiers, configuration, telemetry, bindings | `auth/`, `config/`, `telemetry/`, `solidity/` | no protocol state |

EndBlock asks the key generation service to deal sharings for the keys missing
from the buffer. Each node deals one sharing per key (`Keygen`). When K + T
sharings have ended at a node it proposes that set; the chain decides on the
first valid proposal, the nodes add up the decided sharings, exchange NIZKPs and
send the public key to the chain (`DKG`). The chain counts the key and assigns it
to a user (`BftRuleset`). When an epoch ends the nodes freeze assignments
(`Freeze`) and send the mapping to the next epoch's nodes, whose chain takes it
over (`Mapping`, and `BftRuleset` with `Epoch` > 1).

## Modules

**Sharing** is what one sharing promises: one commitment, and every node that
ends the sharing ends it with that commitment.

**Keygen** is one `KeygenID` at all nodes. `msgs` holds every message handed to
the transport; a node may handle a member at any time, again, or never, so loss,
repetition and reordering are included. `ProcessSend`, `ProcessEcho` and
`ProcessReady` are the handlers; each runs under the Keygen's lock and is one
action. A polynomial is the set of nodes whose points it was interpolated over
(`abar`), and a message verifies when K points went into its values.
`ReceiveShare` and `ProcessShare` are two steps because a crash can come between
the `KeygenStarted` mark and the dealing. `CleanUp` is `dkgCleanUp`; `Restart`
loses everything but the database. All nodes follow the code.

**DKG** is one `DKGID` on top of ended sharings. The staggered goroutines
(`SendPropose`, `SendPubKey`) and the one that stores the share (`Output`) are
actions of their own; `ProcessDecide` and `ProcessNIZKP` are enabled when their
waiting loops would end. Every node executes decision and public key in its own
time. That a node sends its NIZKP just before it sets `Dbar` is one step. The
loops give the Keygen lock back while they wait; the lock itself is not modelled.
`DeliverPubKey` leaves out the chain's checks of the proofs
(`bftruleset.go:258-294`: their number, the interpolated commitment, each NIZKP).
The model thus accepts at least what the chain accepts, and the safety properties
rest on what the nodes send, not on these checks. For liveness it means that the
public key of a node that follows the code passes them.

**BftRuleset** is the state of the chain: one action per transaction, `EndBlock`,
and the goroutine started by the freeze. An assignment that finds no public key
is rejected but still increments the failure counter, as in the code; the one that
finds the counter at its limit dumps the buffer whether or not its own key is
there. The incoming summary is one and the same at all nodes, which is what
`EndIndexAgrees` of `Freeze` shows of the previous epoch.

**Freeze** has the chain as the sequence of application states, nodes at heights
of it, and the monitor's reads and writes of `FreezeState` as separate steps.
A restart goes back to some earlier height, since Tendermint replays what was not
committed; blocks are not modelled, so this allows more than a node can do.

**Mapping** has old nodes that send the summary and each key as they find it (a
placeholder when the lookup fails), new nodes that count senders, and the new
chain's mapping transactions. Old nodes are triggered once and do not restart: an
old node that is triggered again, and then sends a key in another form than
before, is not covered. New nodes restart and lose their counts.

`MC*` modules instantiate these for TLC; `*Proofs` modules hold the theorems.
Operators whose comment begins with "Mutant of" are wrong variants of a
definition. They are not part of any specification; replacing the definition by
the variant makes the property it belongs to fail.

## Runs

| Run | Instance | Shows |
|---|---|---|
| `KeygenAgreement` | 2 nodes, K = T = 1, 2 polynomials, 2 restarts | `Agreement` |
| `KeygenShares` | 3 nodes, K = 2, T = 1, 2 polynomials, 1 restart | `SharesInterpolated`, `ProofsSufficient`, `ReadyVerifies`, `PolynomialStable`, `ImplementsSharing` |
| `KeygenTotality` | 3 nodes, K = T = 1, two of them correct | `Totality`, `DealtEnds` |
| `DKGSafety` | 2 nodes, 3 sharings of which 2 suffice, 1 restart | `SharesAgree`, `ProposalProvable`, `KeyRecoverable` |
| `DKGLiveness` | 3 nodes, one may stop, 2 sharings, both needed | `KeyCreated`, `SharesStored` |
| `BufferFirstEpoch` | buffer of 3, keys 0 and 3 fail, 6 assignments | `CountsKeys`, `AssignedOnce`, `BufferNonNegative`, `BufferTriggered`, `FreezeFinal`, `AssignmentProgress` |
| `BufferTakeover` | epoch 2 takes over 3 keys, buffer of 2 | `AssignedOnce`, `BufferNonNegative`, `ThawComplete`, `FreezeFinal`, `IndexNeverBack` |
| `FreezeEnd` | 2 nodes, one proposal freezes, 3 assignments, 2 restarts | `EndIndexFinal`, `EndIndexAgrees`, `WaitingTriggers` |
| `MappingTransfer` | 2 old nodes (both needed), 2 new nodes (one needed), 2 keys, 1 restart | `KeyBacked`, `OneKeyPerIndex`, `ThawComplete`, `Thaws` |
| `BufferDump` | buffer of 2, keys 1 and 3 fail | `AssignmentProgress` violated |
| `BufferGap` | epoch 2 | `BufferTriggered` violated |
| `FreezeRace` | 2 nodes, no restart | `FreezeContinues` violated |

Each module's `TypeOK` is checked in one run: `KeygenShares`, `DKGSafety`,
`BufferFirstEpoch`, `FreezeEnd` and `MappingTransfer`. `KeygenAgreement` is about a sharing of the decided set,
`KeygenShares` about one outside it, which clean-up treats differently; agreement
among three nodes is part of `ImplementsSharing`.

Bounds: `MaxRestarts`, `MaxLUI`, `MaxAssigns`, `MaxFailedPubKeyAssigns` (100 in
the code, 2 here; only "below" and "at the limit" differ), and the sizes of the
constant sets. They are large enough for a second polynomial to compete with the
first, for either threshold of the handlers to come first, for different
proposals to compete, for dumps between assignments, and for a node to lag behind
a freeze. The runs of `DKG` and `Freeze` have T = 0, to keep the nodes few: in `DKG` T occurs only in the
K + T of `ReadyToPropose`, in `Freeze` only in the K + T of `Frozen`. Runs of a
protocol that may simply be finished do not check deadlock; the chain never
finishes, so its passing runs do.

Fairness: goroutines and tickers of a node that is up run; blocks end and
Tendermint orders and delivers what it accepted; users keep asking for keys. Only
nodes in `Correct`, and the old nodes of `Mapping`, are fair in `Keygen`, `DKG` and
`Mapping`. The code retries a
send a bounded number of times and then logs the error, so eventual delivery
between correct nodes is an assumption of the liveness results, not something the
code guarantees. `DKG` further assumes that dealt sharings end at correct nodes,
which is what `DealtEnds` and `Totality` show for `Keygen`.
`KeygenTotality` has as many correct nodes as the K + T messages a node waits for.

### What the violated properties show

* `BufferDump`: `LastCreatedIndex` counts keys but is compared with indexes. When
  as many keys have failed as the buffer holds, `bftruleset.go:76` rejects every
  assignment before the failure counter is reached; the buffer is never dumped.
* `BufferGap`: a key generation decided before the incoming summary and finished
  after it increments `LastCreatedIndex` past an index nobody generates;
  `EndBlock` (`abci_app.go:428-429`) then never starts that one.
* `FreezeRace`: `outgoingPSSMonitor` sets `FreezeState` 1 (`ethereum.go:869`)
  without looking again; if the application has set 2 since the check at line
  864, the monitor polls for ever. `WaitingTriggers` (run `FreezeEnd`) is about the
  monitors that already poll when the freeze is decided, which this cannot happen to.

## Proofs

All hold for every value of the constants allowed by the modules' assumptions.

* `KeygenProofs`: `Agreement`, `SharesInterpolated`, `ProofsSufficient`,
  `ReadyVerifies`, `PolynomialStable`, `TypeOK`, and that `Keygen` implements
  `Sharing`. The invariant adds that counters equal the numbers of distinct
  senders, that at most one commitment was ever sent, and which thresholds have
  been passed when a polynomial is or is not there. It is needed because a node
  reads its share at the K + T-th ready from whatever polynomial it has: that it
  has one follows only from the counters, by way of the senders they count.
* `DKGProofs`: `SharesAgree`, `ProposalProvable`, `KeyRecoverable`, `TypeOK`. The
  invariant ties every sum in memory, in flight or stored to the decision and
  every NIZKP to a node that holds a share, or to a restart that lost it.
* `BftRulesetProofs`: `AssignedOnce`, `BufferNonNegative`, `FreezeFinal`,
  `IndexNeverBack`, `TypeOK` for any epoch; `CountsKeys` and `BufferTriggered` for epoch 1, the case in which
  they hold (`BufferGap`). The invariant says that the started indexes
  are a prefix that ends below `LastUnassignedIndex + KeyBuffer`, that
  `LastCreatedIndex` is the number of public keys, that an assigned index is
  below `LastUnassignedIndex` or has the owner of the previous epoch, and that
  `LastUnassignedIndex` is 0 until the summary is confirmed: the summary overwrites
  it, and only this shows that it never goes back.
* `FreezeProofs`: `EndIndexFinal`, `EndIndexAgrees`, `TypeOK`. The invariant says
  that the chain grows, is settled from the freeze on, and that a woken node is
  past the freeze and holds the settled index.
* `MappingProofs`: `KeyBacked`, `OneKeyPerIndex`, `ThawComplete`, `TypeOK`, from
  2 * OldK > |OldNodes| (README.md:71 of the repository: retrieval needs more than
  half). The invariant links what chain and new nodes counted to what was sent,
  and the key counter to the keys stored.

`ThawComplete` of `BftRuleset` and all liveness properties are model-checked only;
liveness under fairness is outside what the prover handles.

## Left out, and the plan

Not modelled: values of polynomials and curve arithmetic, encodings, telemetry,
nodes that deviate from the code, epoch changes that overlap, PSS and dealer
transactions. The `hazards` list in `PROJECT.json` names the risks no property
covers yet, each with a note. Next, in this order:

1. `PSS`: the sharing between two sets of nodes, recover, complete, propose and
   decide (`pss/keygen_pss.go`); its refinement of an abstract handover; that a
   refreshed share belongs to the same key.
2. `AbciApp`: Commit, SaveState with a crash between its two writes, replay, CheckTx
   on the lagging state; the PSS and dealer transactions in `BftRuleset`.
3. `Tendermint`: broadcast queue with retries, query registration, the router.
4. `EventBus` and `BaseService`: once-handlers, publish under the lock, start/stop.
5. `Ethereum` (node register, incoming monitor) and `ShareRequest` (commitments,
   token cache, key assignment).
6. Composition: `Freeze` and `Mapping` over one chain, `DKG` over `Keygen` instead
   of over its abstraction; proofs for `PSS` and for the rest of `BftRuleset`.
