------------------------------- MODULE Updater ------------------------------
(***************************************************************************)
(* The cluster updater (updater/updater.go) with its subscription to       *)
(* RootCommitted events (contract/events.go): for every committed root it  *)
(* knows the balances of, it brings each cluster's balance in the contract *)
(* up to date with a merkle proof.                                         *)
(*                                                                         *)
(* Around it stand the SSV contract, in which clusters change at any time, *)
(* the finalized tables, which lag behind it, the oracle that stores       *)
(* commits, other updaters, and the node's subscription.  A root is the    *)
(* map it was built from (MerkleTree: RootBinds); the overlay is the state *)
(* of the clusters at the head (HeadState: OverlayIsHeadState); a          *)
(* transaction is executed at most once, perhaps after the call gave up on *)
(* it (TxService).  A cluster's struct is abstracted to its version.       *)
(***************************************************************************)
EXTENDS Integers, Sequences, FiniteSets

CONSTANTS
    Clusters,
    Balances,     \* effective balances
    MaxBlock,     \* bound: reference blocks of commits are 1..MaxBlock
    RootAt,       \* the root an oracle that sees the chain right builds, by block
    OddRoot,      \* a root other oracles may agree on instead
    MaxMoves,     \* bound: changes of clusters by their owners
    MaxRepeats,   \* bound: RootCommitted events repeated after a reorg
    NoRoot, NoTx, NoOverlay,
    FaultSets     \* what may go wrong in a behaviour; see the actions that name one

Blocks   == 1..MaxBlock
Roots    == UNION {[S -> Balances] : S \in SUBSET Clusters}
Calls    == [block : Blocks, cluster : Clusters, eb : Balances, ver : Nat]
AllFaults == {"gap", "others", "rpc", "giveup", "revert", "crash", "late"}

ASSUME UpdaterAssumption ==
    /\ MaxBlock \in Nat /\ MaxMoves \in Nat /\ MaxRepeats \in Nat
    /\ IsFiniteSet(Clusters)
    /\ Balances \subseteq Nat /\ Balances # {}
    /\ RootAt \in [Blocks -> Roots] /\ OddRoot \in Roots
    /\ FaultSets \subseteq SUBSET AllFaults
    /\ NoRoot \notin Roots /\ NoTx \notin Calls

VARIABLES
    faults,    \* what may go wrong in this behaviour
    \* The contract.
    root,      \* committed root of each block
    row,       \* each cluster's version and whether it is active
    eb,        \* each cluster's effective balance
    moves, repeats,
    orphans,   \* transactions of ours that may still be mined
    \* The database.
    local,     \* root of the stored commit of each block
    db,        \* the clusters table: each cluster's version
    \* The subscription.
    sub, events,
    \* The updater.
    ctxDone,   \* the context of Run is cancelled: the process is stopping
    pc,
    lastProcessedBlock,
    ev,        \* event being handled
    overlay,   \* head versions for the second pass; the first reads the tables
    leaves,    \* leaves the current pass has still to process
    stale,     \* staleLeaves
    leaf,      \* the leaf in hand: the call that is made for it
    stats      \* updated, skipped and failed leaves; was the batch cut short?

contract == <<root, row, eb, moves, repeats, orphans>>
database == <<local, db>>
batch    == <<ev, overlay, leaves, stale, leaf, stats>>
vars     == <<faults, root, row, eb, moves, repeats, orphans, local, db, sub, events,
              ctxDone, pc, lastProcessedBlock, ev, overlay, leaves, stale, leaf, stats>>

NoStats == [updated |-> 0, skipped |-> 0, failed |-> 0, rotated |-> FALSE]
NoEvent == [block |-> 0, root |-> NoRoot]

Idle == /\ ev' = NoEvent /\ overlay' = NoOverlay /\ leaves' = {} /\ stale' = {}
        /\ leaf' = NoTx /\ stats' = NoStats

Init ==
    /\ faults \in FaultSets
    /\ root = [b \in Blocks |-> NoRoot]
    /\ row = [c \in Clusters |-> [ver |-> 0, active |-> TRUE]]
    /\ eb \in [Clusters -> {CHOOSE x \in Balances : TRUE}]
    /\ moves = 0 /\ repeats = 0 /\ orphans = {}
    /\ local = [b \in Blocks |-> NoRoot] /\ db = [c \in Clusters |-> 0]
    /\ sub = "off" /\ events = <<>>
    /\ ctxDone = FALSE /\ pc = "subscribe" /\ lastProcessedBlock = 0
    /\ ev = NoEvent /\ overlay = NoOverlay /\ leaves = {} /\ stale = {}
    /\ leaf = NoTx /\ stats = NoStats

-----------------------------------------------------------------------------
(* The contract.                                                           *)

Committed == {b \in Blocks : root[b] # NoRoot}
Latest    == CHOOSE b \in Committed \cup {0} : \A d \in Committed : d <= b

\* A call is made with version v of a cluster's struct.
StateReason(c, v) == IF row[c].ver # v THEN "IncorrectClusterState"
                     ELSE IF ~row[c].active THEN "ClusterIsLiquidated" ELSE "ok"

\* updateClusterBalance for block b with balance x and its proof.
UpdateReason(b, c, v, x) ==
    IF root[b] = NoRoot THEN "RootNotFound"
    ELSE IF b # Latest THEN "MustUseLatestRoot"
    ELSE IF StateReason(c, v) # "ok" THEN StateReason(c, v)
    ELSE IF c \notin DOMAIN root[b] \/ root[b][c] # x THEN "InvalidProof"
    ELSE "ok"

\* The update settles the cluster, which changes its struct, and may find it
\* liquidatable.
Execute(c, x) ==
    /\ eb' = [eb EXCEPT ![c] = x]
    /\ \E a \in {TRUE} \cup (IF "late" \in faults THEN {FALSE} ELSE {}) :
          row' = [row EXCEPT ![c] = [ver |-> @.ver + 1, active |-> a]]

Emit(b, r) == events' = IF sub = "on" THEN Append(events, [block |-> b, root |-> r])
                        ELSE events

\* The oracles' quorum commits a root: ours among them, whose row is stored
\* before it votes, or the others without it ("others"), perhaps another
\* root.  A commit while nobody listens is a fault ("gap").
CommitRoot ==
    /\ \E b \in Blocks :
          /\ b > Latest
          /\ \E r \in {RootAt[b]} \cup (IF "others" \in faults THEN {OddRoot} ELSE {}) :
                /\ local[b] = r \/ "others" \in faults
                /\ root' = [root EXCEPT ![b] = r]
                /\ Emit(b, r)
    /\ sub = "on" \/ "gap" \in faults
    /\ UNCHANGED <<row, eb, moves, repeats, orphans, database, sub, pc,
                   lastProcessedBlock, batch>>

\* The block of a RootCommitted event was replaced, and the event repeated.
RepeatEvent ==
    /\ sub = "on" /\ Committed # {} /\ repeats < MaxRepeats
    /\ repeats' = repeats + 1
    /\ Emit(Latest, root[Latest])
    /\ UNCHANGED <<root, row, eb, moves, orphans, database, sub, pc,
                   lastProcessedBlock, batch>>

\* A deposit, withdrawal, liquidation or reactivation; once the last root is
\* committed only with "late".
MoveCluster ==
    /\ moves < MaxMoves /\ moves' = moves + 1
    /\ Latest < MaxBlock \/ "late" \in faults
    /\ \E c \in Clusters, a \in BOOLEAN :
          row' = [row EXCEPT ![c] = [ver |-> @.ver + 1, active |-> a]]
    /\ UNCHANGED <<root, eb, repeats, orphans, database, sub, events, pc,
                   lastProcessedBlock, batch>>

\* Another updater is quicker.
OtherUpdate ==
    /\ \E c \in Clusters :
          /\ Committed # {} /\ c \in DOMAIN root[Latest] /\ row[c].active
          /\ eb[c] # root[Latest][c]
          /\ Execute(c, root[Latest][c])
    /\ UNCHANGED <<root, moves, repeats, orphans, database, sub, events, pc,
                   lastProcessedBlock, batch>>

\* A transaction the manager gave up on is mined after all.
MineOrphan ==
    /\ \E tx \in orphans :
          /\ orphans' = orphans \ {tx}
          /\ IF UpdateReason(tx.block, tx.cluster, tx.ver, tx.eb) = "ok"
             THEN Execute(tx.cluster, tx.eb)
             ELSE UNCHANGED <<row, eb>>
    /\ UNCHANGED <<root, moves, repeats, database, sub, events, pc,
                   lastProcessedBlock, batch>>

-----------------------------------------------------------------------------
(* The database, written by the oracle and the syncer.                     *)

StoreCommit ==
    /\ \E b \in Blocks :
          /\ \A d \in Blocks : local[d] # NoRoot => d < b
          /\ local' = [local EXCEPT ![b] = RootAt[b]]
    /\ UNCHANGED <<contract, db, sub, events, pc, lastProcessedBlock, batch>>

Sync ==
    /\ db' = [c \in Clusters |-> row[c].ver] /\ db' # db
    /\ UNCHANGED <<contract, local, sub, events, pc, lastProcessedBlock, batch>>

-----------------------------------------------------------------------------
(* Run and subscribeAndProcess.  A call that is under way when the context *)
(* is cancelled may still succeed, or fails with the context's error.      *)

\* SubscribeRootCommitted from the latest block on.
Subscribe ==
    /\ pc = "subscribe"
    /\ sub' = "on" /\ events' = <<>> /\ pc' = "listen"
    /\ UNCHANGED <<contract, database, lastProcessedBlock, batch>>

\* The node closes the subscription: processRootCommittedLogs sends the error
\* and closes the channels, which may still hold events.
Disconnect ==
    /\ "gap" \in faults /\ sub = "on"
    /\ sub' = "broken"
    /\ UNCHANGED <<contract, database, events, pc, lastProcessedBlock, batch>>

\* The select sees the error or the closed channel; buffered events are lost,
\* and the next subscription comes after subscriptionRetryDelay.
Resubscribe ==
    /\ pc = "listen" /\ sub = "broken" /\ ~ctxDone
    /\ sub' = "off" /\ events' = <<>> /\ pc' = "subscribe"
    /\ UNCHANGED <<contract, database, lastProcessedBlock, batch>>

\* The process starts again with nothing of its memory.
Restart ==
    /\ sub' = "off" /\ events' = <<>> /\ pc' = "subscribe" /\ lastProcessedBlock' = 0
    /\ ctxDone' = FALSE
    /\ Idle
    /\ UNCHANGED <<root, row, eb, moves, repeats, database>>

\* A signal, or the failure of another service, cancels the context ("crash").
CancelContext ==
    /\ "crash" \in faults /\ ~ctxDone
    /\ ctxDone' = TRUE
    /\ UNCHANGED <<contract, database, sub, events, pc, lastProcessedBlock, batch>>

\* Run returns once it sees the context done; its select may take events first.
Stop ==
    /\ ctxDone /\ pc \in {"subscribe", "listen"}
    /\ Restart
    /\ UNCHANGED orphans

\* The process is killed; a transaction being waited for stays ("crash").
Crash ==
    /\ "crash" \in faults
    /\ orphans' = IF pc = "await" THEN orphans \cup {leaf} ELSE orphans
    /\ Restart

-----------------------------------------------------------------------------
(* handleEvent.                                                            *)

\* Duplicates are dropped.
TakeEvent ==
    /\ pc = "listen" /\ events # <<>>
    /\ events' = Tail(events)
    /\ IF Head(events).block <= lastProcessedBlock
       THEN UNCHANGED <<pc, batch>>
       ELSE /\ pc' = "lookup" /\ ev' = Head(events)
            /\ UNCHANGED <<overlay, leaves, stale, leaf, stats>>
    /\ UNCHANGED <<contract, database, sub, lastProcessedBlock>>

Drop == pc' = "listen" /\ Idle /\ UNCHANGED lastProcessedBlock

\* Mutant: the stored commit is used whatever root was committed.
FoundAny(r) ==
    IF DOMAIN r = {} THEN pc' = "finish" /\ UNCHANGED batch
    ELSE /\ pc' = "leaf" /\ leaves' = DOMAIN r
         /\ UNCHANGED <<ev, overlay, stale, leaf, stats>>

\* A commit with the event's root is processed; its tree is rebuilt.  Without
\* clusters there is nothing to do.
Found(r) ==
    IF r # ev.root THEN Drop
    ELSE IF DOMAIN r = {} THEN pc' = "finish" /\ UNCHANGED batch
    ELSE /\ pc' = "leaf" /\ leaves' = DOMAIN r
         /\ UNCHANGED <<ev, overlay, stale, leaf, stats>>

\* GetCommitByBlock, and once more after commitLookupRetryDelay when there is
\* no row; an error ("rpc") or the end of the context drops the event.
LookupCommit ==
    /\ pc \in {"lookup", "lookup again"}
    /\ \/ local[ev.block] # NoRoot /\ Found(local[ev.block])
       \/ /\ local[ev.block] = NoRoot
          /\ IF pc = "lookup" THEN pc' = "lookup again" /\ UNCHANGED batch ELSE Drop
       \/ ("rpc" \in faults \/ ctxDone) /\ Drop
    /\ UNCHANGED <<contract, database, sub, events, lastProcessedBlock>>

-----------------------------------------------------------------------------
(* processAllClusters, and the second pass over the stale leaves.          *)

FirstPass == overlay = NoOverlay

\* The leaf in hand is done; the pass ends with the last one.
NextLeaf(st, rest) ==
    /\ leaves' = rest /\ stale' = st /\ leaf' = NoTx
    /\ pc' = IF rest # {} THEN "leaf"
             ELSE IF FirstPass /\ st # {} THEN "overlay" ELSE "finish"
    /\ UNCHANGED <<ev, overlay>>

LeafDone(field) == /\ stats' = [stats EXCEPT ![field] = @ + 1]
                   /\ NextLeaf(stale, leaves \ {leaf.cluster})

LeafStale == /\ NextLeaf(stale \cup {leaf.cluster}, leaves \ {leaf.cluster})
             /\ UNCHANGED stats

\* The root was replaced: the rest of the batch is left, the stale leaves too.
BatchRotated == /\ stats' = [updated |-> stats.updated, skipped |-> stats.skipped + 1,
                             failed |-> stats.failed, rotated |-> TRUE]
                /\ NextLeaf({}, {})

\* Mutant: a leaf found stale a second time is put aside once more.
LeafRevertsAgain(reason) ==
    IF reason \in {"IncorrectClusterState", "ClusterIsLiquidated"} THEN LeafStale
    ELSE IF ~FirstPass THEN LeafDone("failed")
    ELSE IF reason \in {"MustUseLatestRoot", "RootNotFound"} THEN BatchRotated
    ELSE LeafDone("skipped")

\* What becomes of a leaf whose call reverted.
LeafReverts(reason) ==
    IF ~FirstPass THEN LeafDone("failed")
    ELSE IF reason \in {"IncorrectClusterState", "ClusterIsLiquidated"} THEN LeafStale
    ELSE IF reason \in {"MustUseLatestRoot", "RootNotFound"} THEN BatchRotated
    ELSE LeafDone("skipped")

\* The next leaf, in the order of hashes, with its row from the tables or
\* from the overlay.  There is one: a commit has only clusters of the tables,
\* of which no row is deleted, and the overlay has every cluster asked for.
TakeLeaf ==
    /\ pc = "leaf" /\ ~ctxDone
    /\ \E c \in leaves :
          leaf' = [block |-> ev.block, cluster |-> c, eb |-> local[ev.block][c],
                   ver |-> IF FirstPass THEN db[c] ELSE overlay[c]]
    /\ pc' = "query"
    /\ UNCHANGED <<contract, database, sub, events, lastProcessedBlock, ev, overlay,
                   leaves, stale, stats>>

\* The context is done: either loop stops at its next leaf.  The leaves it has
\* not come to are in none of the counts; those put aside in the first pass
\* still go to BuildOverlay.
BreakLoop ==
    /\ pc = "leaf" /\ ctxDone
    /\ NextLeaf(stale, {}) /\ UNCHANGED stats
    /\ UNCHANGED <<contract, database, sub, events, lastProcessedBlock>>

\* GetClusterEffectiveBalance: an unchanged balance needs no transaction.
QueryBalance ==
    /\ pc = "query"
    /\ IF StateReason(leaf.cluster, leaf.ver) # "ok"
       THEN LeafReverts(StateReason(leaf.cluster, leaf.ver))
       ELSE IF eb[leaf.cluster] = leaf.eb THEN LeafDone("skipped")
       ELSE pc' = "send" /\ UNCHANGED batch
    /\ UNCHANGED <<contract, database, sub, events, lastProcessedBlock>>

\* What the contract says to the transaction of the leaf in hand.
TxReason == UpdateReason(leaf.block, leaf.cluster, leaf.ver, leaf.eb)

\* UpdateClusterBalance: the simulation reverts, or the transaction is sent.
\* Other reasons to revert are a fault of the environment ("revert").
SendUpdate ==
    /\ pc = "send"
    /\ \/ TxReason = "ok" /\ pc' = "await" /\ UNCHANGED batch
       \/ TxReason # "ok" /\ LeafReverts(TxReason)
       \/ "revert" \in faults /\ LeafReverts("other")
    /\ UNCHANGED <<contract, database, sub, events, lastProcessedBlock>>

\* The transaction is mined: executed, or reverted because the contract has
\* changed since the simulation.
MineUpdate ==
    /\ pc = "await"
    /\ IF TxReason = "ok"
       THEN Execute(leaf.cluster, leaf.eb) /\ LeafDone("updated")
       ELSE UNCHANGED <<row, eb>> /\ LeafReverts(TxReason)
    /\ UNCHANGED <<root, moves, repeats, orphans, database, sub, events,
                   lastProcessedBlock>>

\* A query or statement fails ("rpc"), or the manager gives up on the
\* transaction, which may be mined later ("giveup"); either also at the end of
\* the context.
LeafFails ==
    /\ \/ /\ "rpc" \in faults \/ ctxDone
          /\ pc \in {"query", "send"}
          /\ UNCHANGED orphans
       \/ /\ "giveup" \in faults \/ ctxDone
          /\ pc = "await"
          /\ orphans' = orphans \cup {leaf}
    /\ LeafDone("failed")
    /\ UNCHANGED <<root, row, eb, moves, repeats, database, sub, events,
                   lastProcessedBlock>>

\* Mutant: the second pass reads the finalized tables again.
BuildOverlayFinalized ==
    /\ pc = "overlay"
    /\ overlay' = [c \in stale |-> db[c]]
    /\ leaves' = stale /\ stale' = {} /\ pc' = "leaf"
    /\ UNCHANGED <<ev, leaf, stats>>
    /\ UNCHANGED <<contract, database, sub, events, lastProcessedBlock>>

\* BuildHeadStateSnapshot for the stale leaves; without it, as at the end of
\* the context, they all fail.
BuildOverlay ==
    /\ pc = "overlay"
    /\ \/ /\ overlay' = [c \in stale |-> row[c].ver]
          /\ leaves' = stale /\ stale' = {} /\ pc' = "leaf"
          /\ UNCHANGED <<ev, leaf, stats>>
       \/ /\ "rpc" \in faults \/ ctxDone
          /\ stats' = [stats EXCEPT !.failed = @ + Cardinality(stale)]
          /\ stale' = {} /\ pc' = "finish"
          /\ UNCHANGED <<ev, overlay, leaves, leaf>>
    /\ UNCHANGED <<contract, database, sub, events, lastProcessedBlock>>

\* The commit counts as processed, however its leaves ended, also after a
\* broken loop: Run is then about to return, and a restart forgets it.
Finish ==
    /\ pc = "finish"
    /\ lastProcessedBlock' = ev.block
    /\ pc' = "listen" /\ Idle
    /\ UNCHANGED <<contract, database, sub, events>>

-----------------------------------------------------------------------------

Environment ==
    /\ \/ /\ \/ CommitRoot \/ RepeatEvent \/ MoveCluster \/ OtherUpdate \/ MineOrphan
             \/ StoreCommit \/ Sync \/ Disconnect
          /\ UNCHANGED ctxDone
       \/ CancelContext \/ Crash
    /\ UNCHANGED faults

Listen ==
    /\ \/ (Subscribe \/ Resubscribe \/ TakeEvent) /\ UNCHANGED ctxDone
       \/ Stop
    /\ UNCHANGED faults

Handle ==
    /\ \/ LookupCommit \/ TakeLeaf \/ BreakLoop \/ QueryBalance \/ SendUpdate
       \/ MineUpdate \/ LeafFails \/ BuildOverlay \/ Finish
    /\ UNCHANGED <<faults, ctxDone>>

Next == Environment \/ Listen \/ Handle

Spec == Init /\ [][Next]_vars

\* The updater's goroutine keeps running, and the calls it makes return: this
\* is an assumption on the node, which answers queries, or fails them, and
\* whose head advances, so that a transaction that is not mined is given up
\* (TxManager: SendReturns).  Without "giveup" it is mined.
FairSpec == Spec /\ WF_vars(Listen) /\ WF_vars(Handle)

-----------------------------------------------------------------------------
(* Properties.                                                             *)

RootOrNone == Roots \cup {NoRoot}
Statistics == [updated : Nat, skipped : Nat, failed : Nat, rotated : BOOLEAN]

\* Types of the contract, the tables, the subscription and the batch.
TypeOK ==
    /\ root \in [Blocks -> RootOrNone] /\ local \in [Blocks -> RootOrNone]
    /\ row \in [Clusters -> [ver : Nat, active : BOOLEAN]]
    /\ eb \in [Clusters -> Balances] /\ db \in [Clusters -> Nat]
    /\ orphans \subseteq Calls /\ sub \in {"off", "on", "broken"}
    /\ pc \in {"subscribe", "listen", "lookup", "lookup again", "leaf", "query",
               "send", "await", "overlay", "finish"}
    /\ ctxDone \in BOOLEAN /\ lastProcessedBlock \in 0..MaxBlock
    /\ leaves \subseteq Clusters /\ stale \subseteq Clusters
    /\ stats \in Statistics /\ leaf \in Calls \cup {NoTx}
    /\ leaf = NoTx <=> pc \notin {"query", "send", "await"}

\* Every transaction of ours carries the balance the committed root has for
\* its cluster, so its proof verifies: whatever root the other oracles agreed
\* on, and although commits are stored, committed and looked up at different
\* times (handleEvent, processCommit).
ProofsAreOfTheRoot ==
    \A tx \in orphans \cup (IF pc \in {"send", "await"} THEN {leaf} ELSE {}) :
        /\ root[tx.block] # NoRoot /\ tx.cluster \in DOMAIN root[tx.block]
        /\ root[tx.block][tx.cluster] = tx.eb

\* Every leaf of a processed commit is counted exactly once, as updated,
\* skipped or failed, through both passes.  A batch whose root was replaced,
\* or whose context was cancelled, may end early with leaves in none of the
\* counts; never with one in two of them, and for no other reason
\* (processAllClusters, processCommit).
LeavesAccounted ==
    LET counted == stats.updated + stats.skipped + stats.failed
        of      == Cardinality(DOMAIN local[ev.block])
    IN  pc = "finish" => /\ counted <= of
                         /\ stats.rotated => ev.block # Latest
                         /\ ~stats.rotated /\ ~ctxDone => counted = of

\* Each active cluster of the last root has in the contract the balance the
\* root has for it.
UpToDate == /\ root[MaxBlock] # NoRoot
            /\ \A c \in DOMAIN root[MaxBlock] : row[c].active => eb[c] = root[MaxBlock][c]

\* README.md: on a RootCommitted event a proof is submitted for each cluster
\* with a changed balance.  Once the last root is committed and the clusters
\* stand still, the contract is brought up to date with it, although the tables
\* lag, the last batch may still be running and other updaters interfere.  A
\* fault may leave it behind: a root committed while the subscription is down
\* is never handled (subscribeAndProcess, handleEvent, processCommit).
Converges == (faults = {} /\ root[MaxBlock] # NoRoot) ~> UpToDate

=============================================================================
