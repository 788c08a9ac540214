# A formal model of the SSV oracle

This directory holds TLA+ specifications of the SSV oracle (`src/`, Go), the
TLC configurations that check them on small instances, and proofs that TLAPS
checks for all instances. `PROJECT.json` is the machine-readable index: the
components, the runs, the source lines every definition stands for, a mutant
for every property, the hazards, and the theorems.

1. [The system](#1-the-system)
2. [Modules and the code](#2-modules-and-the-code)
3. [Runs](#3-runs)
4. [Bounds, fairness and assumptions](#4-bounds-fairness-and-assumptions)
5. [Proofs](#5-proofs)
6. [Where code and documentation differ](#6-where-code-and-documentation-differ)
7. [What is not modelled](#7-what-is-not-modelled)
8. [Plan](#8-plan)

To repeat the checks: `tlc -config EventSyncer.cfg MCEventSyncer` (likewise for
the other runs of section 3), and `tlapm` on `BasicFacts.tla`,
`EventSyncerProofs.tla`, `OracleCommitProofs.tla`, `TxManagerProofs.tla`,
`BeaconProofs.tla`, `UpdaterProofs.tla`, `ServiceProofs.tla` and
`CommitApiProofs.tla`.

## 1. The system

The oracle follows the events of the SSV contract on the finalized execution
chain, keeps clusters and validators in SQLite, and, at every target epoch of a
commit schedule, computes the effective balance of every cluster from the
finalized beacon state, builds a merkle tree over it and votes for its root
with `commitRoot`. An optional updater then sends the balances, with merkle
proofs against a committed root, to the contract. An HTTP API serves stored
commits.

| Component | State it keeps | Operations | What makes it correct |
|---|---|---|---|
| Event syncer `eth/syncer/syncer.go` | none of its own: the tables and `last_synced_block`; per call a fetcher goroutine and a channel of two batches | `SyncToFinalized`, `SyncToBlock`, `processBatch`, handlers | tables equal the chain up to the cursor, at every instant and after any failure; a nil return means the target is reached; nobody blocks for ever |
| Log fetcher `eth/execution/client.go`, `batch_size.go` | an adaptive batch size shared by all callers | `FetchLogs`, `packLogs`, `groupLogsByBlock` | ranges follow one another without gap or overlap while the size changes; logs arrive in chain order |
| Parser and events `eth/syncer/parser.go`, `types.go`, `topics.go` | none | `parseLog` | an event that does not decode stops the sync instead of being skipped |
| Storage `storage/` | `sync_progress`, `contract_events`, `clusters`, `validators`, `oracle_commits` | one transaction per batch; `InsertPendingCommit`, `UpdateCommitStatus`, `ClearAllState`, the reads of updater and API | atomic batches; commits form a log whose last row alone may change |
| Commit schedule `oracle/phase.go` | configuration | `Validate`, `PhaseAt`, `NextTarget` | the next target is the nearest later one, across phase changes |
| Oracle `oracle/oracle.go` | next target; one commit at a time | `Run`, `commit`, `fetchBalances`, `aggregateByCluster`, `handleCommitError` | the root is of one instant and of the right target, holds the exact balances, is submitted once, and its recorded outcome is backed by the chain; no target is passed over |
| Beacon client `eth/beacon/client.go`, retries `eth/retry.go` | a channel of one checkpoint; concurrent balance requests | subscription, `VerifyFinalizedBlockRoot`, `GetValidatorBalances`, `WithRetry` | dropped, repeated or late checkpoints do no harm; a fetch that succeeds has every batch; the goroutines end |
| Transaction manager `txmanager/` | a mutex; per call nonce, bid, published versions | `SendTransaction`, `bumpOrResuggest`, `cancelTx`, `findMinedReceipt` | one execution per call, bids under the cap that replace one another, a receipt of the call's own payload, the call returns |
| Contract client `contract/` | none | `CommitRoot`, `GetCommittedRoot`, `UpdateClusterBalance`, `SubscribeRootCommitted` | steps of the oracle and of the updater |
| Updater `updater/` | last processed block; per event a batch of leaves and statistics | subscription, `handleEvent`, `processCommit` with its two passes, `processCluster` | proofs are of the committed root; every leaf is accounted for; the contract converges to the last root |
| Head state `eth/syncer/headstate.go` | an overlay of unfinalized events | `BuildHeadStateSnapshot` | the overlay is the state at one block |
| Merkle tree `merkle/` | none | `NewTree`, `GetProof`, encoding | the root binds the balances; proofs verify, for their own leaf only |
| API `api/` | none | `handleGetCommit`, `handleGetProof` | a response assembled from several queries is one of a single moment |
| Service `cmd/oracle/commands/run.go`, `api/api.go` | chain id; an error group | start, `--fresh`, chain id check, initial sync, shutdown | the rows are of one chain; the services stop together, the database last; a failure is reported |

How they interact: `run.go` opens the database (with `--fresh` it clears it),
binds it to the chain of the node, and starts the HTTP servers and the initial
sync in an error group; the initial sync, once done, starts oracle and updater
in the same group. The first error cancels the shared context, and every service
returns. The oracle calls the syncer, then the beacon client, storage, the
contract client and through it the transaction manager, one after the other in
one goroutine; meanwhile the beacon library's goroutine runs the subscription's
handler, the updater uses the same execution client and the same transaction
manager, the API reads the tables, and the syncer's fetcher runs beside its
processor.

What is hard here, and is listed line by line under `hazards`:

* *Pipelines.* Fetcher and processor share a channel, a context and, with the
  updater, a batch size that moves while a range is in flight; an early return
  leaves the fetcher behind. Handler, closer and receiver share the checkpoint
  channel.
* *Failure.* A batch may fail at any statement, the context may be cancelled
  between any two, the process may be killed; a cancelled fetcher closes its
  channel without an error; one of several concurrent requests fails.
* *Time.* Finality moves while a commit runs; checkpoints are dropped while it
  runs, or arrive late or twice; the beacon node lags behind the execution node;
  clusters change between the moment the updater reads them and the moment its
  transaction is mined; rows change between two queries of one request.
* *Transactions.* A version that was replaced, evicted or only seen by a private
  relay may still be mined; the nonce of a call may be used by an earlier one; a
  cancellation may lose.
* *Restarts.* A commit is cut off with its row pending or its transaction still in
  the pool; `--fresh` forgets the row; the node is now of another chain.

## 2. Modules and the code

```
Service                                       start, error group, shutdown
 ├─ EventSyncer ──implements──> MaterializedView <──uses── HeadState
 ├─ CheckpointStream                          beacon events to Oracle.Run
 ├─ OracleCommit ──implements──> CommitLog <──extends── CommitApi ──uses── MerkleTree
 │    └─ CommitSchedule, ClusterBalances, MerkleTree (what the root is made of;
 │       MerkleBuild builds trees from one map, again and again)
 ├─ TxManager ──implements──> TxService       what oracle and updater rely on
 └─ Updater   (relies on HeadState, MerkleTree, TxService)
```

Three components are specified twice: by what they promise (`MaterializedView`,
`CommitLog`, `TxService`) and by what the code does; the detailed specification
is shown to implement the promise, and the components that use it are modelled
against the promise.

### EventLog, MaterializedView, EventSyncer

`EventLog` is the finalized log, a constant sequence of records in chain order,
and the tables as a record `view` of `clusters`, `validators` and `events`.
`ProcessLog` applies one log the way `processLog` and the handlers do, order
of the table operations included. Six events whose handlers only store the
cluster snapshot are one kind. `ViewOf(S)` says, without any handler, what the
tables must hold when exactly the logs in `S` have been applied: the last
snapshot of each cluster, and the validators added and not removed since.

`MaterializedView` is what the syncer promises: a cursor and tables that move
together, forward, never past an event that could not be decoded; or a clear.

`EventSyncer` is the code. Its variables in groups: the database (`view`,
`lastSynced`); the node's finalized block; the shared `batchSize`; the
processor (`pc`, `target`, `result`, the open transaction `txView`, `txEnd`,
`todo`); the fetcher (`fpc`, `fcur`, `fend`, the channel `batchCh`); `ctxDone`.

| Action | Code |
|---|---|
| `Start`, `Crash`, `CancelCtx`, `Exit` | start with or without `--fresh`, process end, SIGTERM or a failed service |
| `SetInitialBlock`, `SyncToFinalized` | `SyncToFinalized` |
| `SyncToBlock`, `CallFails` | `SyncToBlock` up to the start of the fetcher |
| `ReceiveError`, `ReceiveEmpty`, `BeginTx`, `ApplyLog`, `RejectLog`, `CommitTx`, `DbFails`, `Drained` | the loop of `SyncToBlock`, `processBatch`, `processLog` |
| `NextRange`, `FetchOk`, `FetchShrink`, `FetchFails` | the loop of `FetchLogs` |
| `SendBatch`, `AbortSend`, `SendError` | `runFetcher`: the selects of the callback and of the error report |
| `OtherFetchLogs` | another caller moves the batch size |

A `select` in which both cases are ready may take either: `SendBatch` and
`AbortSend` are both enabled. A statement may fail at any time (`DbFails`), and
with a cancelled context nothing but failure is possible.

### HeadState

The clusters the updater asks for, as they are at the head: `GetFinalizedClusters`
reads rows and cursor in one read transaction, `GetHeadBlock` asks the node,
`FetchLogs` fetches the logs in between, batch by batch, and `ApplyToOverlay` applies them one
by one, in chain order, to the rows asked for, until `EndBatch` after the last batch;
`Fail` is an error of any of them, or an event that does not parse. Beside it blocks
arrive (`NewBlock`), finalize (`FinalizeBlock`) and are synced (`Sync`, the `Advance` of
`MaterializedView`, with its tables and cursor).

### CommitSchedule

`Validate`, `PhaseAt`, `NextTarget`, `TargetAt` as operators, and `IsTarget`,
the schedule as a set of epochs, as the reference. `OracleCommit` uses them for its
targets, and `OracleCommitProofs` proves them right for every schedule.

### CheckpointStream

How finalized checkpoints reach `Oracle.Run`. Three goroutines around a channel of
one: the library's, which runs the handler (`HandleEvent`, `fetchCheckpoint`,
`FetchFails`, `WithRetryDelay`, `Send`); the closer (`Close`); and `Run` (`RunStart`
in its parts `Subscribe` and `GetFinalizedEpoch`, `RunSelect`, `RunHandled`). A send
that does not fit is dropped and logged; a send on the closed channel panics and
ends the process. `received` and `lost` are ghosts.

### ClusterBalances

What goes into a root: `GetActiveValidators`, the keys without duplicates, batches
of `BatchSize` of which `Concurrency` run at a time (`StartBatch`, `AnswerBatch`,
`RetryBatch`, `FailBatch`, `Wait`), then the sum by cluster with the floor for each
validator and the conversion from Gwei to ETH modulo `2^Width`. `Ranked` is the order of
a query, or of the first occurrences of the keys. Nothing prevents a key
from being registered in two clusters; it is asked for once and counted in both.

### OracleCommit, CommitLog

`OracleCommit` is the oracle's loop with each call of `commit` as one action, so that
everything else may happen in between: `SyncToBlock`, `ReadValidators`,
`VerifyFinalizedBlockRoot`, `FetchBalances` (one per request), `StorePending`,
`CheckCommittedRoot`, `SubmitRoot` / `SubmitFails`, `ReceiveReceipt` / `GiveUp`,
`RecordOutcome`; `CommitFails` is an error in any of the calls before the
submission. A root is abstracted to what it was computed from: the block of the
validator set and the set of blocks whose beacon states gave balances. The
syncer appears as its cursor, which is what `MaterializedView` and the
refinement theorem justify. The transaction manager appears as `TxService` has it:
published and mined, published and reverted, given up with the transaction still
pending or replaced. Around it: finality that moves and skips epochs (`Finalize`,
`BeaconFinalize`), the event stream (`RepeatEvent`, `DeliverCheckpoint`,
`LoseCheckpoint`), other oracles (`OthersCommit`), the contract (`Mine`), restarts
(`Start`, `Stop`). The contract is not part of the repository; it is modelled from
how the code uses it: `commitRoot` is a vote, which may or may not complete the
quorum, and reverts for a block that is committed or older than a committed one.

`CommitLog` is what the table promises to its readers: it grows at its end, in
ascending order of target and of block; only the last row is resolved, once; a root
is that of the state at its block. `ImplementsCommitLog` maps `rows` to itself.

### TxManager, TxService

`SendTransaction` attempt by attempt. `Begin` (or `BeginFails`) takes the mutex, estimates and
reads the nonce once; `SendOk`, `SendMEV`, `SendNonceTooLow`, `SendUnderpriced`,
`SendError`, `SendFails` are the outcomes of sending an attempt; `ReceiveReceipt`
and `Timeout` those of waiting; `Cancel` and `CancelEnds` the cancellation. A wait
without receipt ends (`Timeout`) only once `WaitRunsOut` has made it `overdue`: the node's
head advanced `PendingTimeoutBlocks`, or the node failed to tell it. The
fee arithmetic is the code's, with its rounding. The nodes, external, keep
one transaction per nonce, replace it only for ten percent more, may evict it,
and may mine any version that was ever accepted anywhere.

`TxService` is the promise: calls one at a time, each executed at most once, while it
runs or after it returned a result that leaves this open. `ImplementsTxService` maps
executions to the mined transactions that carry the call's payload.

### MerkleTree, MerkleBuild

Operators without state: `NewTree` (leaves sorted by hash, layers, an odd last node paired
with itself) and `GetProof`, over hashes as terms: a hash *is* what was hashed. The map may be iterated
in any order. `ProcessProof` folds a proof the way the contract verifies it; `Opened`
is the reference, the entries reached by opening a root's pairs. `MerkleBuild` has a map
and the trees built from it, in another order of iteration each time.

### Updater

One action per call of the updater: `Subscribe`, `TakeEvent`, `LookupCommit`, then for
each leaf `TakeLeaf`, `QueryBalance`, `SendUpdate`, `MineUpdate` or `LeafFails`; leaves
that fail because the finalized struct is out of date go to a second pass, which
`BuildOverlay` supplies with structs from the head; `Finish` records the block. When the
context is cancelled (`CancelContext`), calls may fail, either loop stops at its next
leaf (`BreakLoop`), the batch still reaches `Finish`, and `Run` returns (`Stop`). A
leaf whose cluster has no row, which the code skips, does not occur: a commit has only
clusters of the table, whose rows are never deleted. Around it: the contract's commits (`CommitRoot`) and their events (`RepeatEvent`), the owners
(`MoveCluster`), other updaters (`OtherUpdate`), transactions mined after the call gave
up (`MineOrphan`), the oracle and the syncer (`StoreCommit`, `Sync`), the connection
(`Disconnect`, `Resubscribe`) and crashes. What may go wrong in a behaviour is chosen
at its start (`faults`), so that one run has both the behaviours with faults, for
safety, and those without, for convergence.

### CommitApi

Extends `CommitLog`, whose actions are the oracle's writes, and `MerkleTree`, whose trees
it builds. A request is its queries, one action each: `Receive`, `ResolveEpoch` or
`ResolveLatest` and `ResolveNeighbours` (`resolveCommit`), `FullInfo`, `FullDiff`,
`ProofResponse`; `ResolveFails` is a failing query. Two queries whose errors the code
drops (`handlers.go:184`) may leave the neighbours out of the answer.

### Service

`run` from start to exit: `Start`, `ClearAllState`, `validateChainID` with the storing of
the chain id, `StartGroup`, the services (`ServerFails`, `ServerStops`, `Write`,
`SyncDone`, `LoopFails`, `LoopStops`), `Signal`, `Wait`, `Kill`. The tables appear as the
chains their rows come from.

## 3. Runs

| Run | Checks | Shows | States |
|---|---|---|---|
| `event_syncer` | `TypeOK`, `ViewIsChainPrefix`, `OkMeansCaughtUp`, `PipelineIsContiguous`, `RefinesMaterializedView`, `CallReturns`, `FetcherEnds` | Tables and cursor agree with the chain through every interleaving of fetcher, processor, failure, cancellation and crash; no call waits for ever on its channel, and no fetcher stays blocked after its call returned | 53,007 |
| `oracle_commit` | `RootIsPointInTime`, `RowMatchesTarget`, `OutcomeIsBacked`, `SubmittedOnce`, `NoTargetSkipped`, `TargetAdvances`, `ImplementsCommitLog` | Through lost, repeated and late checkpoints, restarts, other oracles and failing calls, a commit is of one instant and of its own target, no target is passed over, and the table is the log its readers rely on | 570,143 |
| `oracle_commit_slow` | `RootIsPointInTime`, violated | Finality moves between the comparison of the finalized block and the last balance request | |
| `tx_manager` | `OkMeansExecuted`, `ExecutedOnce`, `FeesWithinPolicy`, `BumpIsReplacement`, `ImplementsTxService`, `SendReturns` | Two calls of three attempts that may meet on one nonce: a receipt is of the call's own payload, nothing is executed twice, bids respect the cap and replace one another, the call returns as long as the node's head advances | 728,588 |
| `checkpoint_stream` | `EveryCheckpointAccounted`, `ShutdownIsNotAnError`, `ShutdownCompletes` | No finalized epoch falls between first read and subscription; a shutdown is not taken for a failure; all three goroutines end | 38,595 |
| `checkpoint_stream_close` | `NoSendAfterClose`, violated | The handler sends on the closed channel | |
| `cluster_balances` | `BalancesExact` | Whatever batches fail, are retried and answered in any order, a fetch that succeeds has the exact sum for every active cluster | 378,880 |
| `merkle_tree` | `RootBinds`, `ProofsVerify`, `RebuildSameRoot` | The root commits to exactly the map, in any order of iteration; a proof verifies for its own leaf only | 1,458 |
| `head_state` | `OverlayIsHeadState` | A finished snapshot is the state of the clusters at one block, the head it read or the synced block beyond it | 79,773 |
| `updater` | `ProofsAreOfTheRoot`, `LeavesAccounted`, `Converges` | Under each set of faults only proofs of the committed root are sent and every leaf is counted once, unless the root is replaced or the context cancelled; without faults the contract gets the last root's balances | 750,710 |
| `commit_api` | `ResponseOfOneMoment`, `ProofServedVerifies`, `DiffExact`, `EveryClusterDescribed` | Responses while commits are inserted and resolved between the queries | 426,588 |
| `service` | `ChainBound`, `RowsOfOneChain`, `StoreOutlivesServices`, `FailureIsReported`, `GroupStops` | Over kills, restarts, `--fresh` and nodes of two chains | 4,681 |

Every property of a passing run has a mutant in `PROJECT.json`: a variant of one
definition, beside the original in its module and marked *Mutant*, that a
plausible mistake in the code would amount to and that breaks the property.

A type invariant is defined in every module with locals; it is checked in
`event_syncer`, where it also says that the shared batch size stays within its limits,
and proved for every module of section 5.

## 4. Bounds, fairness and assumptions

**Event syncer.** Five blocks from deployment, seven logs, two clusters, one key,
batch sizes 1 to 3. The log (`MCEventSyncer`) adds, removes and again adds a
validator, uses the key in a second cluster, has several logs in one block, a
block without logs, an unknown event and, last, a handled event that does not
decode. With five blocks and sizes from one to three, a call has from two to
five batches, so the channel fills, batches are empty or not, and the size
both grows and shrinks inside a call. The proofs have no such bounds.

**Head state.** Blocks 2 to 6, nine logs, three clusters: several events of one cluster in
a block and across blocks, a cluster first seen late, an unknown event, one that does
not decode. The syncer may stand anywhere from the deployment to beyond the head that
was read. The chain only grows while a snapshot is built.

**Checkpoint stream.** Four epochs, so that one is in the handler, one in the channel and
one with `Run` while another arrives; two retries.

**Cluster balances.** Two clusters, three keys, batches of two, two at a time, two
retries; balances below, at and above the floor, absent validators, and sums that
reach the largest value of the width (scaled to four bits). `WidthAssumption` says
that a cluster with every key at the largest balance fits: with 32 bits and balances
up to 2048 ETH that is two million validators in one cluster. The proof has no other
bound. Tables and beacon
state stand still during a fetch; that they may not is the subject of `OracleCommit`.

**Oracle.** Six epochs, a schedule of two phases (targets 1, 3, 4, ...), two
balance requests, and an epoch without a block of its own, so that two targets
share a reference block and collide on its uniqueness constraint. `MaxEvents`
bounds the events a reconnected stream repeats; `submits` counts to two, which
is enough to see a second submission. Two assumptions are named constants:
`SlowFetch = FALSE` says that finality does not move between the comparison and
the last balance request (the run `oracle_commit_slow` drops it), and
`MaxLag = 1` that the execution node is at most one checkpoint ahead of the
beacon node. With more lag, the initial sync could take the tables past a
checkpoint still to come, whose root would then describe a later validator set.

**Transaction manager.** Two calls of three attempts. Fees are scaled so that the
minimum tip is 10 units (the smallest for which ten percent is a whole unit,
hence where rounding bites); the base fees include one above the cap, and the
cap is reached within the attempts. A mined transaction is final. The wait for a
receipt may run out at any time (`WaitRunsOut`), which covers every value of
`PendingTimeoutBlocks`, and may also never do so.

**Merkle tree.** Every map of up to six clusters with two balances: one to four layers,
odd counts on the first and on inner layers; the proofs are for every finite map. Hash
collisions are excluded (hashes are terms); the order of hashes is an arbitrary injection that follows neither ids nor
balances.

**Updater.** Two clusters, two commits that change both, one change by an owner, one
repeated event; a third root that other oracles may agree on instead of ours. Faults
come in the sets of `FaultSets`: a subscription gap; other oracles' roots with given-up
transactions; late mining with reverts; failing calls; crashes and
cancelled contexts. Each set is one kind of
disturbance, so that the run stays finite in minutes; combinations across sets are not
covered.

**API.** Three commits over four clusters: between the first two a balance changes, a
cluster leaves and one joins, between the last two nothing changes. Requests only
read, so one is followed at a time. Rows of `clusters` are never deleted
(`DeleteCluster` is called only by tests).

**Service.** Two chains, any number of starts.

**Fairness.** `event_syncer`: weak fairness of the processor and of the fetcher,
goroutines that the Go scheduler runs; and strong fairness of a request that succeeds
or definitely fails. The last one is about the node, not the code: `FetchLogs` retries
range, rate, size and timeout errors without limit, so a node that always answers so
keeps the call waiting for ever (listed under the hazards). `tx_manager`: weak fairness
of the manager's own steps (`OwnStep`): its goroutine runs, and a request to the node
returns an answer or an error (the code sets no timeout on these requests, so this is
about the node). Nothing needs to be mined, but `waitForReceipt` counts blocks, not time:
`SendReturns` is an implication, from `HeadAdvances` (a wait ends or becomes overdue) to
the return of the call. A node that reports one block for ever holds the call and
the mutex; TLC finds that behaviour when the premise is dropped. `checkpoint_stream`: weak fairness of the three goroutines, whose requests have
timeouts, and of the cancellation that the error group makes once `Run` returned.
`updater`: weak fairness of its goroutine and of the calls it makes, which is an
assumption on the node: it answers queries or fails them, and its head advances, so that
`SendReturns` applies; none of the rest of its environment: the syncer's progress, which the second pass
makes unnecessary, is not assumed. `service`: weak fairness of a service whose context is
done and of `Wait`. The other runs assume none.

Deadlock is checked in every run but two: `checkpoint_stream`, where the process ends
once all three goroutines have, and `updater`, where the bounded number of commits,
changes and repeats comes to an end.

## 5. Proofs

All proofs are checked by TLAPS to the last leaf. The only assumptions are the named
`ASSUME`s on the constants, which TLC evaluates in the runs:

* a log in block order from the deployment block on; `1 <= MinBatch <= MaxBatch`;
* a schedule that `Validate` accepts; blocks that grow with the epochs, where an epoch
  may share its predecessor's block; at least one balance request;
* a fee policy that `TxPolicy.Validate` accepts, in units in which the minimum tip is at
  least ten (below that, ten percent is less than one unit and rounding eats a bump);
* finitely many clusters, and at least one balance;
* clusters and keys are numbers, finitely many (they are byte strings of fixed length, in
  their order); balances are naturals, sizes and limits positive; a cluster with every key
  at the largest balance fits the width (`WidthAssumption`, section 4; it also says that
  `2^Width` is a natural, as the provers know nothing of powers);
* the order of leaf hashes is an injection (`RankAssumption`: no collisions), and the root
  of a block in `CommitLog` is that of the tree of its balances (`CommitApiAssumption`); that
  rows have the root of their block is what `CommitLog` promises;
* the markers of absence (`NoRow`, `NoTx`, `NoRoot`, `Nothing`, `Absent`, the absent chain
  id) are not rows, transactions, roots, targets, diffs, balances or chains.

Two theorems have a hypothesis of their own, `Prompt`; it is explained there.

An overview; each line is `Spec => []P`, `Spec => P` for an action property or a
refinement:

| Module | Invariants proved | Action properties and refinements |
|---|---|---|
| `EventSyncerProofs` | `TypeOK`, `ViewIsChainPrefix`, `OkMeansCaughtUp`, `PipelineIsContiguous`; `HeadTypeOK`, `OverlayIsHeadState` | `RefinesMaterializedView` |
| `OracleCommitProofs` | `TypeOK`, `RowMatchesTarget`, `OutcomeIsBacked`, `SubmittedOnce`, `NoTargetSkipped`; under `Prompt`, `RootIsPointInTime` | `TargetAdvances`; under `Prompt`, `ImplementsCommitLog` |
| `TxManagerProofs` | `TypeOK`, `FeesWithinPolicy`, `OkMeansExecuted`, `BumpIsReplacement`, `ExecutedOnce` | `ImplementsTxService` |
| `BeaconProofs` | `TypeOK`, `EveryCheckpointAccounted`, `ShutdownIsNotAnError`; `BalancesTypeOK`, `BalancesExact` | |
| `CommitApiProofs` | `RootBinds`, `ProofsVerify`; `ResponseOfOneMoment`, `ProofServedVerifies`, `DiffExact`, `EveryClusterDescribed` | `RebuildSameRoot` |
| `UpdaterProofs` | `TypeOK`, `ProofsAreOfTheRoot`, `LeavesAccounted` | |
| `ServiceProofs` | `RowsOfOneChain`, `ChainBound`, `StoreOutlivesServices`, `FailureIsReported` | |

Every invariant, action property and refinement that a run checks is proved.

All follow one plan. `IInv` (`HeadInv`, `BalancesInv`, `ApiInv` where a module proves
about two components) is a conjunction of named parts, the properties
among them; there is one lemma for `Init`, one per action or group of actions, one for
`Next`; the theorems follow by temporal logic. Each `IInv` was first checked with TLC as an
invariant of the component's run.

**EventSyncerProofs**, for every log, every batch size and any number of steps:

* `TypeCorrect`, `ViewCorrect`, `OkCorrect`, `PipelineCorrect`:
  `Spec => []` of `TypeOK`, `ViewIsChainPrefix`, `OkMeansCaughtUp` and
  `PipelineIsContiguous`;
* `Refinement`: `Spec => RefinesMaterializedView`.

None of the invariants is inductive alone. `IInv` adds to them:

* `TxIsPrefix`: the open transaction holds `ViewOf` of the logs up to its end
  without those still to do, and those come later. Without it nothing is known
  of what `CommitTx` makes permanent.
* `FetcherInRange`: the fetcher's range ends within the call's. Without it a batch
  could end past the target.
* `ClosedMeansSent`: a channel closed under a live context has carried an error or
  everything up to the target. This is what makes `Drained` return nil only at the
  target; the cancelled case is excluded by the check after the loop.
* `Decoded`: nothing up to the cursor is malformed; needed for the refinement.

The argument: `PipelineIsContiguous` says that the batch the processor takes holds
exactly the logs between the cursor and the batch's end. `BeginTx` therefore starts
from `ViewOf(Upto(lastSynced))` with the rest still to do. `ProcessLogExtends` is the
central lemma: applying the least position not yet applied, with the code's
handlers, to the view of a prefix gives the view of the longer prefix. It
rests on `ClusterAfterLater` and `RegisteredAfterLater`, which say what one later
position does to the reference definition. When `todo` is empty the transaction
is `ViewOf(Upto(txEnd))`, and `CommitTx` stores it together with `txEnd`. One lemma
per action or group of actions (`...Preserves`) shows that `IInv` is kept. For the
refinement, `StepSimulation` shows that `ReceiveEmpty`, `CommitTx` and
`SetInitialBlock` are `Advance` or stutter, `Start` is `Clear` or stutters, and
every other step leaves the database alone.

**ServiceProofs**, for any set of chains and any number of starts and kills:
`DatabaseOfOneChain` (`RowsOfOneChain`), `ServicesOnStoredChain` (`ChainBound`),
`StoreClosedLast` (`StoreOutlivesServices`) and `StopsAreReported`
(`FailureIsReported`). `IInv` adds `TypeOK` and `ErrorsBacked` to them.
`RowsOfOneChain` needs `ChainBound`: a service writes rows of the node's chain, and only
`ChainBound` says that this is the stored one; in turn, `ClearAllState` forgets rows
and chain id together, and an id is stored only where there was none and hence no row.
`FailureIsReported` needs `ErrorsBacked`: the API server returns an error even when it
is stopped, so a group that ends has a first error, and that error is a cancellation
only after a signal. One lemma per action (`...Step`).

**EventSyncerProofs, head state**, for every log, every set of clusters asked for, every split in
batches, and a syncer and a chain that move at any step: `HeadOverlayCorrect`
(`OverlayIsHeadState`). The property speaks of a finished snapshot only; `HeadInv` says
what holds on the way:

* `TablesAtCursor`: the rows are those of the chain at the cursor, which is what
  `MaterializedView` promises; read in one transaction they are of one block.
* `OverlayOfApplied`: for each cluster asked for, the overlay has the row of the last
  snapshot among the positions applied so far, and no row if there is none.
* `BatchInOrder`: the logs of the batch in hand come after everything applied and are all
  there is before the next block to fetch. Without it a later log would not be the last
  one (`ApplyKeepsLast`).
* `Progress`: where the next block to fetch is; at the end it is one past the block the
  overlay stands for.

**OracleCommitProofs**, for every schedule that `Validate` accepts, any assignment of
blocks to epochs, any number of checkpoints, repetitions, restarts and other oracles.

`NextTargetIsNearest`: for every epoch, `NextTarget` is a target, later than the
epoch, with none between. `Validate` compares neighbours only; `StartsAreSorted` extends the
order to all pairs, by least counterexample.

`OracleSubmitsOnce`, `OracleRowMatchesTarget`, `OracleOutcomeIsBacked`,
`OracleSkipsNoTarget`, `OracleTargetAdvances` rest on

* `CheckpointsArePast`: every checkpoint on its way is one the beacon node has finalized.
  A restart computes its first target from the finalized epoch, so nothing on its way can
  bring an earlier target back.
* `TargetInHand`: a commit runs only for the target that its checkpoint finalizes.
* `HandledOnce`: a target with a row, or with a submission, lies before the next target or
  is the one in hand, at a step after its insertion, or its submission. This is
  what makes `SubmittedOnce` survive `--fresh`, which forgets the row: the finalized epoch
  does not go back.
* `RowInHand`, `OutcomeSeen`: between insertion and outcome the row is the one inserted,
  and the step that records an outcome has seen it on the chain.

`OracleRootIsPointInTime` and `OracleImplementsCommitLog` have the hypothesis
`Prompt == ~SlowFetch /\ MaxLag <= 1`: finality does not move between the comparison of the
finalized block and the last balance request, and the execution node is at most
one checkpoint ahead of the beacon node. Nothing in the code enforces either. The run
`oracle_commit_slow` shows that the first is needed; section 4 says why the second is. Under
`Prompt`, `PInv` holds: `TablesNotAhead` (the tables are not past any checkpoint
that may still be committed) and `OneInstant` (validators and balances in hand are those of
the reference block). `ImplementsCommitLog` needs in addition that an insertion that is not
refused comes after every row, in target and in block.

**TxManagerProofs**, for every policy, any base fees and suggested tips, any number of calls
and attempts:

* `TxFeesWithinPolicy`, `TxBumpIsReplacement` from `BidInPolicy` and `Outbid` (the pool's
  transaction under our nonce is the bid in hand or one that it replaces), with
  the arithmetic of a bump and its rounding in `BumpFacts` and `BumpMonotone`;
* `TxOkMeansExecuted`, `TxExecutedOnce` from `OneNonce` (no call has transactions under two
  nonces), `CallsMade`, `OurNonce`, `MinedWasAccepted`, `PooledWasAccepted` and
  `PublishedIsOurs`: a call executed twice would need two nonces;
* `TxImplementsService` from `MayExecute`: a payload that may still be mined is of the
  running call or of one whose result leaves its fate open. `MineExecutes` maps a
  block to an execution of `TxService` or, for a cancellation, to a stutter.

**BeaconProofs, checkpoint stream**, for any number of epochs and retries:
`StreamLosesNothingUnnoticed` and `StreamShutdownIsNotAnError`. The first needs
`SubscribedFirst` (the first epoch is read after the subscription, so no epoch falls
between) and `AttemptLeft` (`WithRetry` waits only while it has an attempt left, so the
count stays in its range); the second needs `ClosedByContext`: the channel is closed
only when the context is done, or by a failed subscription, with which `Run` returns.
`ToSetAppend` and `ToSetTail` say what queue operations do to the set of epochs.

**BeaconProofs, balances**, for any tables, beacon state, batch size, concurrency, number of
retries and order of answers: `BalancesAreExact` (`BalancesExact`) and
`BalancesTypeCorrect`. `BalancesInv` adds to them

* `BatchesHoldAll`: the validators in hand list the rows of active clusters, each once, and
  the key of each is in some batch. `RankedLists` says that ranking a finite, strictly ordered set
  lists it; `RowsListed` and `KeysListed` apply this to the query's order and to
  the keys without duplicates, `BatchesCover` cuts the list in batches without losing a key;
* `HandedOut`: exactly the batches up to `started` have left the queue. So when `Wait` finds
  all of them started, none running and none failed, all were answered;
* `MergedIsAnswered`: what was received is the beacon state of the keys of the answered
  batches, no more and no less, in whatever order they were merged;
* `FetchLeavesNothing`: nothing is left of a fetch when it is over, a failed one included.

The rest is the sum. A sum over a finite set is a recursion that picks any element:
`SumExists` shows that the recursive function exists, `SumIs` and `SumsAgree` that it is
determined, `SumAnyOrder` that the order of picking does not matter, and `SumAdd` is what
is used of it. `ClusterSum` then goes through the rows of the list: at each the sum
of the cluster is what its keys so far are worth (`Worth`: the floor for each key not above
it, the balance for the others), and at most their number times one of the balances. With
`WidthAssumption` the conversion is therefore exact (`AggregateExact`).

**CommitApiProofs, trees**, for every finite map of balances, every order of its iteration
and every order of hashes: `RootBindsBalances`, `ProofsAreExact`, `RootOfBalances`. The tree is
made by recursive functions: the sorted leaves, the layers, the path of a leaf, the
siblings on it, the fold of a proof, the opening of a root. For each, a predicate says what a
function that obeys the recursion up to `n` is (`IsSorting`, `IsTower`, `IsPath`, `IsWalk`,
`IsFold`, `IsOpening`); that one exists for every `n`, and what it computes, is shown by a least
counterexample. Then: sorting depends only on the set of entries, so the root does
(`RebuildSameRoot`); opening layer `k` gives the hashes of the layer below, odd layers
included, so the root opens to the leaves (`RootBinds`); folding the
proof of a leaf goes through its ancestors up to the root, and folding is injective in the
leaf, since a hash is its preimage and a pair `{a, b}` with `b` known determines `a`
(`ProofsVerify`).

**CommitApiProofs, API**, for any number of commits and blocks and any interleaving of
queries and writes: `ResponsesAreOfOneMoment`, `ProofsServedVerify`, `DiffsAreExact`,
`ClustersAreDescribed`. `ApiInv` adds

* `LatestMoment`: the latest commit and its neighbours are read by two queries. In between a
  later row may be inserted and then confirmed, and neither the first nor the last moment
  of the request fits the answer; the one between insertion and confirmation does. The
  invariant says that the neighbours the row has now it had at some moment of the
  request at which no later row was confirmed; it is kept because rows are inserted
  pending, at the end of the table;
* `ReadMoment`: the same of what was read, until the response is made;
* `TablesKept`: stored rows are of synced blocks and have a greatest target (a `Max` needs
  a bound, and the table is finite although `Targets` need not be), and a previous commit
  once read is still there when the diff reads it again;
* `RowRead`, `InfoRead`, `Path`: the row in hand has the root of its block, described
  clusters are those synced, and which request gets where.

**UpdaterProofs**, for any clusters, roots, commits, changes and every combination of
faults, which the run does not cover. `UpdaterProofsAreOfTheRoot` rests on
`EventsAreCommits`, `EventIsCommit` (once its commit was found, the stored root is the
event's), `CallOfLeaf` and `OrphansOfTheRoot`: a committed root is never replaced, so a
transaction that was right when it was sent still is. `UpdaterAccountsForLeaves` rests on
`Tally`: what is counted, what is left and what was put aside add up to the
leaves of the root, or to no more than them once the context is cancelled; with `LeavesOfRoot`, `NothingLeft` and `Passes` (the second pass puts
nothing aside, and has a head version of each of its leaves). A batch that ends early
has been overtaken by a later root (`Superseded`) or cancelled.

**BasicFacts**: nonempty sets of naturals have least elements, bounded ones
greatest; what `Append` and `Tail` do to a sequence. The library's induction theorems take an
operator as a parameter, which the provers cannot instantiate; the proofs use least
counterexamples instead, also for what a recursive function computes.

Only model-checked: liveness under fairness (`CallReturns`, `FetcherEnds`, `SendReturns`,
`ShutdownCompletes`, `Converges`, `GroupStops`), out of the prover's reach.

## 6. Where code and documentation differ

Shown by runs:

1. `oracle_commit_slow`. The finalized block is compared once (`oracle.go:166`), then
   the balances are fetched batch by batch from the state `finalized`
   (`beacon/client.go:177`). `docs/api.md:45` calls the reference block the "Finalized
   block number used to compute the merkle root"; when finality moves in between,
   balances of a later state enter the root.
2. `checkpoint_stream_close`. `beacon/client.go:202`: "Close the context to stop the
   subscription." The closer closes the channel (`client.go:243`) while the handler may be
   about to send on it (`client.go:225`); the send panics and the process ends with a
   stack trace instead of its shutdown.

Met while modelling, visible in the models but not runs of their own:

3. `storage/storage.go:100`: "CommitStatusPending indicates a commit awaiting
   confirmation." After a crash, a shutdown or a failed status update the row stays
   pending and nothing awaits it (`Stop` of `OracleCommit`).
4. `docs/api.md:46`: "Merkle root committed on-chain". A row is confirmed when this
   oracle's vote is mined, with or without the quorum (`Mine`).
5. `txmanager/manager.go:26`: "max gas price reached, tx cancelled". The cancellation is
   tried once, at the cap, need not outbid the call, and its failure is only logged; the
   call may still be executed. `TxService` therefore counts "max gas" among the results
   that leave the execution open.
6. `README.md:9`: "StandardMerkleTree format". An odd node is paired with itself
   (`merkle/tree.go:135`), which OpenZeppelin's StandardMerkleTree does not do; proofs
   verify with the same pair hashing, but roots of odd layers differ.
7. `README.md:64`: the updater listens for `RootCommitted` events. One emitted while the
   subscription is down is not fetched afterwards (`updater/updater.go:132` subscribes
   from the present on), so its balances wait for the next root; `Converges` is stated
   for behaviours without such a gap.
8. `docs/api.md:48`: `previousEpoch` is "`null` at the first commit". When the query for
   the neighbours of the latest commit fails, its error is dropped
   (`api/handlers.go:184`) and both neighbours are null in a 200 response.

## 7. What is not modelled

* ABI decoding, cluster ids, key handling and signing (wallet), logging, metrics, the web
  page, formatting of responses: no control that the properties depend on.
* Configuration parsing; what it guarantees are the `ASSUME`s.
* 64-bit overflow of `round * interval + start` (`oracle/phase.go:13`): epochs are
  naturals. With real epochs, below 2^32 for centuries, it cannot be reached.
* SQLite itself: a transaction is atomic and a read transaction is a snapshot; pragmas and
  `SetSyncMode` are left out.
* Reorganisations of finalized blocks, and of unfinalized ones while one head snapshot is
  built; a mined transaction is final.
* The length of delays and timeouts: a wait with a timeout may end at any time.
* HTTP connections, the recovery from panics in a handler, and handlers that outlive the
  five seconds of `Shutdown`.
* A stored commit whose root is not that of its balances, to which the API answers 500
  (`api/handlers.go:45`): rows are written by the oracle, which computes the one from
  the other (`CommitApiAssumption`). The layers and the total of a full response are left out.

## 8. Plan

Done: every component of section 1 modelled and checked, and every safety property of
the runs proved.

What a later extension could add, in this order:

1. `OracleCommit` over `ClusterBalances`: today the root is what it was computed from, and the
   exact sum is proved apart.
2. A reorganisation of unfinalized blocks while a head snapshot is built.
