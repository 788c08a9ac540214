---------------------------- MODULE OracleCommit ----------------------------
(***************************************************************************)
(* The oracle's main loop and one commit of it (oracle/oracle.go), with    *)
(* the table oracle_commits (storage/storage.go) and the beacon client's   *)
(* checkpoint subscription (eth/beacon/client.go).                         *)
(*                                                                         *)
(* Around it stand a chain that finalizes epochs, a beacon node that may   *)
(* lag behind the execution node, the SSV contract, in which a root is     *)
(* committed once enough oracles have voted for it, and the other oracles. *)
(* The event syncer appears as what it promises (MaterializedView): a      *)
(* cursor that stands for the validator set at that block.  A root is      *)
(* abstracted to what it was computed from: the block of the validator     *)
(* set and the blocks of the beacon states the balances came from.         *)
(***************************************************************************)
EXTENDS CommitSchedule, FiniteSets

CONSTANTS
    Schedule,    \* commit_phases
    BlockOf,     \* execution block of the checkpoint of each epoch
    MaxEpoch,    \* bound: last epoch the chain finalizes
    MaxLag,      \* checkpoints the beacon node may be behind the execution node
    MaxEvents,   \* bound: events in flight when the stream repeats one
    NumBatches,  \* requests that fetch the balances of one commit
    SlowFetch,   \* may finality move while the balances are being fetched?
    NoRow        \* no row in the table, no root in the contract

Epochs == 0..MaxEpoch

ASSUME ScheduleAssumption == Schedule \in Seq(CommitPhase) /\ Validate(Schedule)

\* Blocks grow with epochs; an epoch without blocks shares its predecessor's.
ASSUME BlockAssumption == /\ MaxEpoch \in Nat
                          /\ BlockOf \in [Epochs -> Nat \ {0}]
                          /\ \A d, e \in Epochs : d <= e => BlockOf[d] <= BlockOf[e]

ASSUME ParameterAssumption == /\ MaxLag \in Nat
                              /\ MaxEvents \in Nat
                              /\ NumBatches \in Nat \ {0}
                              /\ SlowFetch \in BOOLEAN

VARIABLES
    \* The chain and the nodes.
    beaconFinal,  \* epoch of the checkpoint the beacon node holds finalized
    unseen,       \* later checkpoints, which only the execution node has seen
    events,       \* finalized_checkpoint events whose handler has not finished
    \* The contract.
    votes,        \* commitRoot calls of this oracle that were executed
    committed,    \* root committed for each block
    reverted,     \* commitRoot calls of this oracle that were mined and reverted
    mempool,      \* commitRoot transactions of this oracle still pending
    \* The database.
    rows,         \* oracle_commits, by target epoch
    lastSynced,   \* the event syncer's cursor
    \* The oracle.
    pc,
    checkpointCh, \* the subscription's channel, capacity 1
    nextTarget,
    cp,           \* checkpoint being handled
    vals,         \* block of the validator set read
    bals,         \* blocks of the states the balances came from
    left,         \* balance requests not answered yet
    \* History: commitRoot submissions per target epoch, counted up to 2.
    submits

node     == <<beaconFinal, unseen>>
contract == <<votes, committed, reverted>>
local    == <<cp, vals, bals, left>>
vars     == <<beaconFinal, unseen, events, votes, committed, reverted, mempool,
              rows, lastSynced, pc, checkpointCh, nextTarget, cp, vals, bals, left,
              submits>>

MaxOf(a, b) == IF a >= b THEN a ELSE b

Blocks == {BlockOf[e] : e \in Epochs}

Root(v, b)   == [vals |-> v, bals |-> b]
TrueRoot(b)  == Root(b, {b})
Roots        == [vals : Blocks \cup {0}, bals : SUBSET Blocks]

RowType == [block : Blocks, root : Roots,
            status : {"pending", "confirmed", "failed"}, hash : BOOLEAN]

ASSUME NoRowAssumption == NoRow \notin Roots /\ NoRow \notin RowType

\* The latest finalized checkpoint, as the execution node sees it.
ChainFinal == IF unseen = <<>> THEN beaconFinal ELSE unseen[Len(unseen)]

\* The root another oracle computed when it disagrees with the chain.
OddRoot == Root(0, {})

\* The commit in hand: its target, its reference block and its root.
Target   == nextTarget
RefBlock == BlockOf[cp]
OurRoot  == Root(vals, bals)
OurTx    == <<RefBlock, OurRoot>>

CommitSteps == {"sync", "read", "verify", "balances", "insert", "check",
                "send", "await", "confirm", "fail", "revert", "conflict", "matching"}

Init ==
    /\ beaconFinal \in 0..1 /\ unseen = <<>>
    /\ events = <<>>
    /\ votes = {} /\ reverted = {} /\ mempool = {}
    /\ committed = [b \in Blocks |-> NoRow]
    /\ rows = [t \in Epochs |-> NoRow]
    /\ lastSynced = 0
    /\ pc = "down" /\ checkpointCh = <<>> /\ nextTarget = 0
    /\ cp = 0 /\ vals = 0 /\ bals = {} /\ left = 0
    /\ submits = [t \in Epochs |-> 0]

-----------------------------------------------------------------------------
(* The chain, the beacon node and its event stream.                        *)

\* The chain finalizes the next epoch, or skips one.
Finalize ==
    /\ Len(unseen) < MaxLag
    /\ \E e \in {ChainFinal + 1, ChainFinal + 2} :
          e <= MaxEpoch /\ unseen' = Append(unseen, e)
    /\ UNCHANGED <<beaconFinal, events, contract, mempool, rows, lastSynced, pc,
                   checkpointCh, nextTarget, local, submits>>

\* The handler of the subscription runs while the oracle does.
Subscribed == pc \notin {"down", "boot", "subscribe"}

\* The beacon node learns of a checkpoint and sends an event.
BeaconFinalize ==
    /\ unseen # <<>>
    /\ pc = "balances" => SlowFetch
    /\ beaconFinal' = Head(unseen) /\ unseen' = Tail(unseen)
    /\ events' = IF Subscribed THEN Append(events, Head(unseen)) ELSE events
    /\ UNCHANGED <<contract, mempool, rows, lastSynced, pc, checkpointCh, nextTarget,
                   local, submits>>

\* The stream reconnected, and the node reports its checkpoint once more.
RepeatEvent ==
    /\ Subscribed /\ beaconFinal > 0 /\ Len(events) < MaxEvents
    /\ events' = Append(events, beaconFinal)
    /\ UNCHANGED <<node, contract, mempool, rows, lastSynced, pc, checkpointCh,
                   nextTarget, local, submits>>

\* The handler fetched the checkpoint's block and offers it to the channel,
\* which drops it when the oracle has not taken the one before.
DeliverCheckpoint ==
    /\ events # <<>>
    /\ events' = Tail(events)
    /\ checkpointCh' = IF checkpointCh = <<>> THEN <<Head(events)>> ELSE checkpointCh
    /\ UNCHANGED <<node, contract, mempool, rows, lastSynced, pc, nextTarget,
                   local, submits>>

\* The block could not be fetched, or the stream reconnected in between.
LoseCheckpoint ==
    /\ events # <<>>
    /\ events' = Tail(events)
    /\ UNCHANGED <<node, contract, mempool, rows, lastSynced, pc, checkpointCh,
                   nextTarget, local, submits>>

-----------------------------------------------------------------------------
(* The contract and the other oracles.                                     *)

\* commitRoot for a block that is committed, or older than one that is,
\* reverts.
Commitable(b) == \A c \in Blocks : c >= b => committed[c] = NoRow

\* The other oracles reach the quorum, on the chain's root or another one.
OthersCommit ==
    /\ \E e \in 1..ChainFinal :
          /\ IsTarget(Schedule, e - 1)
          /\ Commitable(BlockOf[e])
          /\ \E r \in {TrueRoot(BlockOf[e]), OddRoot} :
                committed' = [committed EXCEPT ![BlockOf[e]] = r]
    /\ UNCHANGED <<node, events, votes, reverted, mempool, rows, lastSynced, pc,
                   checkpointCh, nextTarget, local, submits>>

\* A pending commitRoot of ours is mined: it counts as our vote, which may or
\* may not complete the quorum, or it reverts.
Mine ==
    /\ \E tx \in mempool :
          /\ mempool' = mempool \ {tx}
          /\ IF Commitable(tx[1])
             THEN /\ votes' = votes \cup {tx}
                  /\ \/ committed' = [committed EXCEPT ![tx[1]] = tx[2]]
                     \/ UNCHANGED committed
                  /\ UNCHANGED reverted
             ELSE reverted' = reverted \cup {tx} /\ UNCHANGED <<votes, committed>>
    /\ UNCHANGED <<node, events, rows, lastSynced, pc, checkpointCh, nextTarget,
                   local, submits>>

-----------------------------------------------------------------------------
(* Storage.                                                                *)

Row(block, root) == [block |-> block, root |-> root, status |-> "pending", hash |-> FALSE]

\* Mutant: reference_block is not UNIQUE.
BlockTakenNever(b) == FALSE

\* reference_block is UNIQUE.
BlockTaken(b) == \E t \in Epochs : rows[t] # NoRow /\ rows[t].block = b

\* ON CONFLICT (target_epoch) DO NOTHING.
InsertPendingCommit ==
    rows' = IF rows[Target] = NoRow
            THEN [rows EXCEPT ![Target] = Row(RefBlock, OurRoot)]
            ELSE rows

\* A row with its outcome; a transaction hash is only ever added.
Resolved(row, status, hash) == [block |-> row.block, root |-> row.root,
                                status |-> status, hash |-> row.hash \/ hash]

\* Only a pending row changes.
UpdateCommitStatus(status, hash) ==
    rows' = IF rows[Target] # NoRow /\ rows[Target].status = "pending"
            THEN [rows EXCEPT ![Target] = Resolved(@, status, hash)]
            ELSE rows

-----------------------------------------------------------------------------
(* The process and Oracle.Run.                                             *)

Halt == /\ pc' = "down" /\ events' = <<>> /\ checkpointCh' = <<>> /\ nextTarget' = 0
        /\ cp' = 0 /\ vals' = 0 /\ bals' = {} /\ left' = 0

\* Start of the process, with or without --fresh.
Start ==
    /\ pc = "down"
    /\ pc' = "boot"
    /\ \/ UNCHANGED <<rows, lastSynced>>
       \/ rows' = [t \in Epochs |-> NoRow] /\ lastSynced' = 0
    /\ UNCHANGED <<node, events, contract, mempool, checkpointCh, nextTarget,
                   local, submits>>

\* A crash, or a shutdown, whose cancelled context fails what is in progress.
Stop ==
    /\ pc # "down"
    /\ Halt
    /\ UNCHANGED <<node, contract, mempool, rows, lastSynced, submits>>

\* The initial sync reaches the execution node's finalized block.
InitialSync ==
    /\ pc = "boot"
    /\ lastSynced' = MaxOf(lastSynced, BlockOf[ChainFinal])
    /\ pc' = "subscribe"
    /\ UNCHANGED <<node, events, contract, mempool, rows, checkpointCh, nextTarget,
                   local, submits>>

Subscribe ==
    /\ pc = "subscribe"
    /\ pc' = "epoch"
    /\ UNCHANGED <<node, events, contract, mempool, rows, lastSynced, checkpointCh,
                   nextTarget, local, submits>>

\* The first target; at genesis Run returns an error and the process ends.
FirstTarget ==
    /\ pc = "epoch"
    /\ IF beaconFinal = 0
       THEN Halt
       ELSE /\ nextTarget' = NextTarget(Schedule, beaconFinal - 1)
            /\ pc' = "wait"
            /\ UNCHANGED <<events, checkpointCh, local>>
    /\ UNCHANGED <<node, contract, mempool, rows, lastSynced, submits>>

\* Mutant: a checkpoint past the target is still committed as the target.
ReceiveCheckpointLate ==
    /\ pc = "wait" /\ checkpointCh # <<>>
    /\ checkpointCh' = Tail(checkpointCh)
    /\ LET fullyFinalized == Head(checkpointCh) - 1
       IN  IF fullyFinalized < nextTarget
           THEN UNCHANGED <<pc, nextTarget, local>>
           ELSE /\ pc' = "sync" /\ cp' = Head(checkpointCh)
                /\ UNCHANGED <<nextTarget, vals, bals, left>>
    /\ UNCHANGED <<node, events, contract, mempool, rows, lastSynced, submits>>

\* Mutant: a late checkpoint of an earlier epoch moves the target back.
ReceiveCheckpointStale ==
    /\ pc = "wait" /\ checkpointCh # <<>>
    /\ checkpointCh' = Tail(checkpointCh)
    /\ LET fullyFinalized == Head(checkpointCh) - 1
       IN  IF fullyFinalized # nextTarget
           THEN /\ nextTarget' = NextTarget(Schedule, fullyFinalized)
                /\ UNCHANGED <<pc, local>>
           ELSE /\ pc' = "sync" /\ cp' = Head(checkpointCh)
                /\ UNCHANGED <<nextTarget, vals, bals, left>>
    /\ UNCHANGED <<node, events, contract, mempool, rows, lastSynced, submits>>

\* A checkpoint arrives: too early, past the target (missed), or due.
ReceiveCheckpoint ==
    /\ pc = "wait" /\ checkpointCh # <<>>
    /\ checkpointCh' = Tail(checkpointCh)
    /\ LET fullyFinalized == Head(checkpointCh) - 1
       IN  IF fullyFinalized < nextTarget
           THEN UNCHANGED <<pc, nextTarget, local>>
           ELSE IF fullyFinalized > nextTarget
           THEN /\ nextTarget' = NextTarget(Schedule, fullyFinalized)
                /\ UNCHANGED <<pc, local>>
           ELSE /\ pc' = "sync" /\ cp' = Head(checkpointCh)
                /\ UNCHANGED <<nextTarget, vals, bals, left>>
    /\ UNCHANGED <<node, events, contract, mempool, rows, lastSynced, submits>>

\* commit returned, with an error or without: on to the next target.
Finish ==
    /\ pc' = "wait"
    /\ nextTarget' = NextTarget(Schedule, cp - 1)
    /\ cp' = 0 /\ vals' = 0 /\ bals' = {} /\ left' = 0

-----------------------------------------------------------------------------
(* Oracle.commit.                                                          *)

\* A call before the submission fails.  What a failed sync has applied stays.
CommitFails ==
    /\ pc \in {"sync", "read", "verify", "balances", "insert"}
    /\ \/ UNCHANGED lastSynced
       \/ /\ pc = "sync"
          /\ lastSynced' \in {b \in Blocks : lastSynced < b /\ b < RefBlock}
    /\ Finish
    /\ UNCHANGED <<node, events, contract, mempool, rows, checkpointCh, submits>>

SyncToBlock ==
    /\ pc = "sync"
    /\ lastSynced' = MaxOf(lastSynced, RefBlock)
    /\ pc' = "read"
    /\ UNCHANGED <<node, events, contract, mempool, rows, checkpointCh, nextTarget,
                   local, submits>>

\* GetActiveValidators.
ReadValidators ==
    /\ pc = "read"
    /\ vals' = lastSynced
    /\ pc' = "verify"
    /\ UNCHANGED <<node, events, contract, mempool, rows, lastSynced, checkpointCh,
                   nextTarget, cp, bals, left, submits>>

\* Mutant: the block root is not compared.
VerifyNothing ==
    /\ pc = "verify"
    /\ pc' = "balances" /\ left' = NumBatches
    /\ UNCHANGED <<node, events, contract, mempool, rows, lastSynced, checkpointCh,
                   nextTarget, cp, vals, bals, submits>>

\* The beacon node's finalized block is the checkpoint's.  While it is not,
\* the call is retried and in the end fails.
VerifyFinalizedBlockRoot ==
    /\ pc = "verify"
    /\ BlockOf[beaconFinal] = RefBlock
    /\ pc' = "balances" /\ left' = NumBatches
    /\ UNCHANGED <<node, events, contract, mempool, rows, lastSynced, checkpointCh,
                   nextTarget, cp, vals, bals, submits>>

\* One request of GetValidatorBalances, answered from the state that is the
\* finalized one when it arrives.
FetchBalances ==
    /\ pc = "balances" /\ left > 0
    /\ bals' = bals \cup {BlockOf[beaconFinal]}
    /\ left' = left - 1
    /\ pc' = IF left = 1 THEN "insert" ELSE pc
    /\ UNCHANGED <<node, events, contract, mempool, rows, lastSynced, checkpointCh,
                   nextTarget, cp, vals, submits>>

\* The row is written before anything is sent; a reference block that another
\* row already has is an error (CommitFails).
StorePending ==
    /\ pc = "insert"
    /\ rows[Target] # NoRow \/ ~BlockTaken(RefBlock)
    /\ InsertPendingCommit
    /\ pc' = "check"
    /\ UNCHANGED <<node, events, contract, mempool, lastSynced, checkpointCh,
                   nextTarget, local, submits>>

\* Mutant: any root committed for the block is taken for ours.
CheckCommittedAny ==
    /\ pc = "check"
    /\ pc' = IF committed[RefBlock] = NoRow THEN "send" ELSE "matching"
    /\ UNCHANGED <<node, events, contract, mempool, rows, lastSynced, checkpointCh,
                   nextTarget, local, submits>>

\* GetCommittedRoot, just before sending; when it fails the commit goes on.
CheckCommittedRoot ==
    /\ pc = "check"
    /\ \/ pc' = CASE committed[RefBlock] = NoRow   -> "send"
                  [] committed[RefBlock] = OurRoot -> "matching"
                  [] OTHER                         -> "conflict"
       \/ pc' = "send"
    /\ UNCHANGED <<node, events, contract, mempool, rows, lastSynced, checkpointCh,
                   nextTarget, local, submits>>

\* CommitRoot: the gas estimate simulates the call, then it is published.
SubmitRoot ==
    /\ pc = "send"
    /\ \/ /\ Commitable(RefBlock)
          /\ mempool' = mempool \cup {OurTx}
          /\ submits' = [submits EXCEPT ![Target] = IF @ < 2 THEN @ + 1 ELSE @]
          /\ pc' = "await"
       \/ ~Commitable(RefBlock) /\ pc' = "fail" /\ UNCHANGED <<mempool, submits>>
    /\ UNCHANGED <<node, events, contract, rows, lastSynced, checkpointCh,
                   nextTarget, local>>

\* Nothing could be published.
SubmitFails ==
    /\ pc = "send"
    /\ pc' = "fail"
    /\ UNCHANGED <<node, events, contract, mempool, rows, lastSynced, checkpointCh,
                   nextTarget, local, submits>>

\* The receipt of our transaction.
ReceiveReceipt ==
    /\ pc = "await"
    /\ \/ OurTx \in votes /\ pc' = "confirm"
       \/ OurTx \in reverted /\ pc' = "revert"
    /\ UNCHANGED <<node, events, contract, mempool, rows, lastSynced, checkpointCh,
                   nextTarget, local, submits>>

\* The transaction manager gives up.  Its cancellation replaces the pending
\* transaction, or does not.
GiveUp ==
    /\ pc = "await"
    /\ pc' = "fail"
    /\ mempool' \in {mempool, mempool \ {OurTx}}
    /\ UNCHANGED <<node, events, contract, rows, lastSynced, checkpointCh,
                   nextTarget, local, submits>>

\* The status with which the commit ends, and whether a receipt came with it.
Outcome == CASE pc = "confirm"  -> <<"confirmed", TRUE>>
             [] pc = "matching" -> <<"confirmed", FALSE>>
             [] pc = "revert"   -> <<"failed", TRUE>>
             [] OTHER           -> <<"failed", FALSE>>

\* The last step of commit.  A failed update is only logged.
RecordOutcome ==
    /\ pc \in {"confirm", "matching", "revert", "fail", "conflict"}
    /\ \/ UpdateCommitStatus(Outcome[1], Outcome[2])
       \/ UNCHANGED rows
    /\ Finish
    /\ UNCHANGED <<node, events, contract, mempool, lastSynced, checkpointCh, submits>>

-----------------------------------------------------------------------------

Environment == \/ Finalize \/ BeaconFinalize \/ RepeatEvent
               \/ DeliverCheckpoint \/ LoseCheckpoint \/ OthersCommit \/ Mine \/ Start \/ Stop

RunStep == InitialSync \/ Subscribe \/ FirstTarget \/ ReceiveCheckpoint

CommitStep == \/ CommitFails \/ SyncToBlock \/ ReadValidators
              \/ VerifyFinalizedBlockRoot \/ FetchBalances \/ StorePending
              \/ CheckCommittedRoot \/ SubmitRoot \/ SubmitFails
              \/ ReceiveReceipt \/ GiveUp \/ RecordOutcome

Next == Environment \/ RunStep \/ CommitStep

Spec == Init /\ [][Next]_vars

-----------------------------------------------------------------------------
(* Properties.                                                             *)

TxType == Blocks \X Roots

\* Every variable has its type; the subscription's channel holds at most one
\* checkpoint.
TypeOK ==
    /\ beaconFinal \in Epochs /\ unseen \in Seq(Epochs)
    /\ events \in Seq(Epochs)
    /\ votes \subseteq TxType /\ reverted \subseteq TxType /\ mempool \subseteq TxType
    /\ committed \in [Blocks -> Roots \cup {NoRow}]
    /\ rows \in [Epochs -> RowType \cup {NoRow}]
    /\ lastSynced \in Blocks \cup {0}
    /\ pc \in {"down", "boot", "subscribe", "epoch", "wait"} \cup CommitSteps
    /\ checkpointCh \in Seq(Epochs) /\ Len(checkpointCh) <= 1
    /\ nextTarget \in Nat
    /\ cp \in Epochs /\ vals \in Blocks \cup {0} /\ bals \subseteq Blocks
    /\ left \in 0..NumBatches
    /\ submits \in [Epochs -> 0..2]

\* A stored root describes one instant: the validator set and every balance
\* in it are those of the row's reference block, although they are read in
\* separate calls, after restarts and late checkpoints (oracle.go commit,
\* beacon/client.go VerifyFinalizedBlockRoot, GetValidatorBalances).
RootIsPointInTime ==
    \A t \in Epochs : rows[t] # NoRow => rows[t].root = TrueRoot(rows[t].block)

\* A row belongs to a target of the schedule and to the checkpoint that
\* finalized exactly that target, never to a later one that stood in for a
\* missed target (oracle.go Run).
RowMatchesTarget ==
    \A t \in Epochs : rows[t] # NoRow =>
        /\ IsTarget(Schedule, t)
        /\ t + 1 \in Epochs /\ rows[t].block = BlockOf[t + 1]

\* The final status of a row is backed by the chain: a row confirmed with a
\* transaction hash has our executed vote, one confirmed without has its root
\* committed, and one failed with a hash has a reverted transaction
\* (oracle.go commit, handleCommitError).
OutcomeIsBacked ==
    \A t \in Epochs : rows[t] # NoRow =>
        LET r == rows[t] IN
        /\ (r.status = "confirmed" /\ r.hash) => <<r.block, r.root>> \in votes
        /\ (r.status = "confirmed" /\ ~r.hash) => committed[r.block] = r.root
        /\ (r.status = "failed" /\ r.hash) => <<r.block, r.root>> \in reverted

\* No target is submitted twice, whatever crashes, restarts, dropped or late
\* checkpoints and even a cleared database do: the next target is taken from
\* finality, not from the table (oracle.go Run).
SubmittedOnce == \A t \in Epochs : submits[t] <= 1

\* The oracle waits for a target of the schedule, and for none beyond a target
\* that is still to be finalized: whatever checkpoints it missed, from
\* whatever epoch it started and across a change of phase, it never passes
\* over a target it could reach (phase.go NextTarget, oracle.go Run).
NoTargetSkipped ==
    pc \in {"wait"} \cup CommitSteps =>
        /\ IsTarget(Schedule, nextTarget)
        /\ \A e \in Epochs : e >= beaconFinal /\ IsTarget(Schedule, e) => nextTarget <= e

\* While the oracle runs its target only moves forward: a checkpoint that was
\* delayed behind others never takes it back (oracle.go Run).
TargetAdvances ==
    [][(pc \in {"wait"} \cup CommitSteps /\ pc' # "down") => nextTarget' >= nextTarget]_vars

\* The oracle keeps oracle_commits as the log its readers rely on (CommitLog):
\* rows come in ascending order of target and of block, whatever was missed or
\* interrupted, and only the last one ever gets its outcome (InsertPendingCommit,
\* UpdateCommitStatus, Run).
Table == INSTANCE CommitLog WITH Targets <- Epochs,
                                 RootOf <- [b \in Blocks |-> TrueRoot(b)]
ImplementsCommitLog == Table!Spec

=============================================================================
