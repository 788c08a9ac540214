----------------------------- MODULE EventSyncer ----------------------------
(***************************************************************************)
(* The event syncer (eth/syncer/syncer.go) with the log fetcher of the     *)
(* execution client (eth/execution/client.go, batch_size.go) and the       *)
(* tables it maintains (storage/storage.go).                               *)
(*                                                                         *)
(* SyncToBlock runs two goroutines: the fetcher reads the log in batches   *)
(* of adaptive size and sends them over a channel of capacity 2; the       *)
(* processor takes them in order and applies each in one SQLite            *)
(* transaction, together with the new last_synced_block.  RPC calls and    *)
(* statements may fail, the context may be cancelled and the process may   *)
(* crash between any two steps.                                            *)
(***************************************************************************)
EXTENDS EventLog

CONSTANTS
    MinBatch,  \* smallest batch size
    MaxBatch   \* max_sync_batch_size: the initial and largest batch size

ASSUME BatchAssumption == /\ MinBatch \in Nat \ {0}
                          /\ MaxBatch \in Nat
                          /\ MinBatch <= MaxBatch

VARIABLES
    \* The SQLite database.
    view, lastSynced,
    \* The execution node: the latest finalized block.
    finalized,
    \* The adaptive batch size of the execution client, shared by all callers.
    batchSize,
    \* The processor: the goroutine that called SyncToBlock.
    pc,        \* where it is
    booting,   \* the call is the initial SyncToFinalized
    target,    \* targetBlock of the current or last call
    result,    \* what the last call returned
    txView,    \* the tables as the open transaction sees them
    txEnd,     \* batchEnd of the batch being applied
    todo,      \* positions of the batch not applied yet
    \* The fetcher goroutine and its channel.
    fpc, fcur, fend, batchCh,
    \* The context the call was given has been cancelled.
    ctxDone

db    == <<view, lastSynced>>
txv   == <<txView, txEnd, todo>>
proc  == <<pc, booting, target, result, txView, txEnd, todo>>
fetch == <<fpc, fcur, fend, batchCh>>
vars  == <<view, lastSynced, finalized, batchSize, pc, booting, target, result,
           txView, txEnd, todo, fpc, fcur, fend, batchCh, ctxDone>>

Blocks == 0..MaxBlock

\* prefetchBuffer: the capacity of the channel.
PrefetchBuffer == 2

Batch(end, logs) == [err |-> FALSE, end |-> end, logs |-> logs]
ErrResult        == [err |-> TRUE, end |-> 0, logs |-> {}]
BatchResult      == [err : BOOLEAN, end : Blocks, logs : SUBSET Positions]

MinOf(a, b) == IF a <= b THEN a ELSE b
MaxOf(a, b) == IF a >= b THEN a ELSE b

\* AdaptiveBatchSize: additive increase, multiplicative decrease.
Increase(n) == MinOf(n + MaxOf(MinOf(n \div 10, 100), 1), MaxBatch)
\* Mutant: the lower limit is forgotten.
DecreaseNoFloor(n) == n \div 2

Decrease(n) == MaxOf(n \div 2, MinBatch)

\* A call of SyncToBlock is in progress.
InCall == pc \in {"loop", "tx"}

\* fetchCtx: done when the caller's context is, or when SyncToBlock returned.
FetchCancelled == ctxDone \/ ~InCall

Init ==
    /\ view = EmptyView /\ lastSynced = 0
    /\ finalized \in DeployBlock..MaxBlock
    /\ batchSize = MaxBatch
    /\ pc = "down" /\ booting = FALSE /\ target = 0 /\ result = "none"
    /\ txView = EmptyView /\ txEnd = 0 /\ todo = {}
    /\ fpc = "closed" /\ fcur = 0 /\ fend = 0 /\ batchCh = <<>>
    /\ ctxDone = FALSE

-----------------------------------------------------------------------------
(* The process.                                                            *)

\* The process ends: what is not in the database is gone.
Halt ==
    /\ pc' = "down" /\ booting' = FALSE
    /\ txView' = EmptyView /\ txEnd' = 0 /\ todo' = {}
    /\ fpc' = "closed" /\ fcur' = 0 /\ fend' = 0 /\ batchCh' = <<>>
    /\ ctxDone' = FALSE

\* The process starts; --fresh clears all tables in one transaction.
Start ==
    /\ pc = "down"
    /\ pc' = "boot" /\ booting' = TRUE /\ result' = "none"
    /\ batchSize' = MaxBatch
    /\ \/ UNCHANGED db
       \/ view' = EmptyView /\ lastSynced' = 0
    /\ UNCHANGED <<finalized, target, txv, fetch, ctxDone>>

Crash ==
    /\ pc # "down"
    /\ Halt
    /\ UNCHANGED <<db, finalized, batchSize, target, result>>

\* SIGTERM, or another service of the process failed.
CancelCtx ==
    /\ pc # "down" /\ ~ctxDone
    /\ ctxDone' = TRUE
    /\ UNCHANGED <<db, finalized, batchSize, proc, fetch>>

\* The oracle loop notices the cancelled context and the process ends.
Exit ==
    /\ pc = "idle" /\ ctxDone
    /\ Halt
    /\ UNCHANGED <<db, finalized, batchSize, target, result>>

\* The chain finalizes another block.
Finalize ==
    /\ finalized < MaxBlock
    /\ finalized' = finalized + 1
    /\ UNCHANGED <<db, batchSize, proc, fetch, ctxDone>>

\* FetchLogs run by another goroutine (the updater's head snapshot, or the
\* fetcher of an earlier call) moves the shared batch size.
OtherFetchLogs ==
    /\ pc # "down"
    /\ batchSize' \in {Increase(batchSize), Decrease(batchSize)}
    /\ UNCHANGED <<db, finalized, proc, fetch, ctxDone>>

-----------------------------------------------------------------------------
(* The processor: SyncToFinalized, SyncToBlock, processBatch.              *)

\* SyncToBlock returns.  A failed initial sync ends the process; otherwise
\* the deferred cancelFetch leaves the fetcher with a cancelled context.
Return(r) ==
    /\ result' = r
    /\ IF booting /\ r = "err"
       THEN Halt
       ELSE /\ pc' = "idle" /\ booting' = FALSE
            /\ txView' = EmptyView /\ txEnd' = 0 /\ todo' = {}
            /\ UNCHANGED <<fetch, ctxDone>>

\* First half of SyncToFinalized: the deployment block as starting point.
SetInitialBlock ==
    /\ pc = "boot" /\ ~ctxDone
    /\ lastSynced' = IF lastSynced = 0 THEN DeployBlock - 1 ELSE lastSynced
    /\ pc' = "query"
    /\ UNCHANGED <<view, finalized, batchSize, booting, target, result, txv,
                   fetch, ctxDone>>

\* SyncToBlock up to the start of the fetcher.
BeginSync(b) ==
    /\ target' = b
    /\ IF lastSynced >= b
       THEN Return("ok")
       ELSE /\ pc' = "loop"
            /\ fpc' = "get" /\ fcur' = lastSynced + 1 /\ fend' = 0
            /\ batchCh' = <<>>
            /\ UNCHANGED <<booting, result, txv, ctxDone>>

\* Second half of SyncToFinalized.
SyncToFinalized ==
    /\ pc = "query" /\ ~ctxDone
    /\ BeginSync(finalized)
    /\ UNCHANGED <<db, finalized, batchSize>>

\* The oracle commits at a checkpoint whose block is finalized.
SyncToBlock ==
    /\ pc = "idle" /\ ~ctxDone
    /\ \E b \in DeployBlock..finalized : BeginSync(b)
    /\ UNCHANGED <<db, finalized, batchSize>>

\* A query of the database or of the node fails before the fetcher starts.
CallFails ==
    /\ pc \in {"boot", "query", "idle"}
    /\ Return("err")
    /\ UNCHANGED <<db, finalized, batchSize, target>>

ReceiveError ==
    /\ pc = "loop" /\ batchCh # <<>>
    /\ Head(batchCh).err
    /\ Return("err")
    /\ UNCHANGED <<db, finalized, batchSize, target>>

\* A batch without logs only moves the cursor, outside a transaction.
ReceiveEmpty ==
    /\ pc = "loop" /\ batchCh # <<>>
    /\ ~Head(batchCh).err /\ Head(batchCh).logs = {}
    /\ ~ctxDone
    /\ lastSynced' = Head(batchCh).end
    /\ batchCh' = Tail(batchCh)
    /\ UNCHANGED <<view, finalized, batchSize, proc, fpc, fcur, fend, ctxDone>>

\* Mutant: the cursor is stored before the batch is applied.
BeginTxCursorFirst ==
    /\ pc = "loop" /\ batchCh # <<>>
    /\ ~Head(batchCh).err /\ Head(batchCh).logs # {}
    /\ ~ctxDone
    /\ pc' = "tx"
    /\ txView' = view
    /\ txEnd' = Head(batchCh).end
    /\ todo' = Head(batchCh).logs
    /\ batchCh' = Tail(batchCh)
    /\ lastSynced' = Head(batchCh).end
    /\ UNCHANGED <<view, finalized, batchSize, booting, target, result,
                   fpc, fcur, fend, ctxDone>>

BeginTx ==
    /\ pc = "loop" /\ batchCh # <<>>
    /\ ~Head(batchCh).err /\ Head(batchCh).logs # {}
    /\ ~ctxDone
    /\ pc' = "tx"
    /\ txView' = view
    /\ txEnd' = Head(batchCh).end
    /\ todo' = Head(batchCh).logs
    /\ batchCh' = Tail(batchCh)
    /\ UNCHANGED <<db, finalized, batchSize, booting, target, result,
                   fpc, fcur, fend, ctxDone>>

\* Mutant: the logs arrive in the opposite order.
NextLogUnsorted(S) == CHOOSE i \in S : \A j \in S : j <= i

\* The next log of the batch: groupLogsByBlock sorted them into chain order.
NextLog(S) == CHOOSE i \in S : \A j \in S : i <= j

ApplyLog ==
    /\ pc = "tx" /\ todo # {} /\ ~ctxDone
    /\ Log[NextLog(todo)].kind # "Malformed"
    /\ txView' = ProcessLog(txView, NextLog(todo))
    /\ todo' = todo \ {NextLog(todo)}
    /\ UNCHANGED <<db, finalized, batchSize, pc, booting, target, result,
                   txEnd, fetch, ctxDone>>

\* A handled event that does not parse aborts the batch.
RejectLog ==
    /\ pc = "tx" /\ todo # {}
    /\ Log[NextLog(todo)].kind = "Malformed"
    /\ Return("err")
    /\ UNCHANGED <<db, finalized, batchSize, target>>

\* UpdateLastSyncedBlock inside the transaction, then Commit.
CommitTx ==
    /\ pc = "tx" /\ todo = {} /\ ~ctxDone
    /\ view' = txView
    /\ lastSynced' = txEnd
    /\ pc' = "loop"
    /\ txView' = EmptyView /\ txEnd' = 0 /\ todo' = {}
    /\ UNCHANGED <<finalized, batchSize, booting, target, result, fetch, ctxDone>>

\* A statement, BeginTx or Commit fails (always so once the context is
\* cancelled); the deferred Rollback drops the transaction.
DbFails ==
    /\ \/ pc = "tx"
       \/ pc = "loop" /\ batchCh # <<>> /\ ~Head(batchCh).err
    /\ Return("err")
    /\ UNCHANGED <<db, finalized, batchSize, target>>

\* Mutant: a cancelled context is not looked at after the loop.
DrainedUnchecked ==
    /\ pc = "loop" /\ batchCh = <<>> /\ fpc = "closed"
    /\ Return("ok")
    /\ UNCHANGED <<db, finalized, batchSize, target>>

\* The channel is closed and drained: the loop ends without an error.
Drained ==
    /\ pc = "loop" /\ batchCh = <<>> /\ fpc = "closed"
    /\ Return(IF ctxDone THEN "err" ELSE "ok")
    /\ UNCHANGED <<db, finalized, batchSize, target>>

-----------------------------------------------------------------------------
(* The fetcher: runFetcher around Client.FetchLogs.                        *)

\* The head of the FetchLogs loop: choose the next range, or finish.
NextRange ==
    /\ fpc = "get"
    /\ IF fcur <= target
       THEN fpc' = "rpc" /\ fend' = MinOf(fcur + batchSize - 1, target)
       ELSE fpc' = "closed" /\ UNCHANGED fend
    /\ UNCHANGED <<db, finalized, batchSize, proc, fcur, batchCh, ctxDone>>

\* eth_getLogs and the block timestamps arrive.
FetchOk ==
    /\ fpc = "rpc" /\ ~FetchCancelled
    /\ batchSize' = Increase(batchSize)
    /\ fpc' = "send"
    /\ UNCHANGED <<db, finalized, proc, fcur, fend, batchCh, ctxDone>>

\* A range, rate, size or timeout error: retry the range with half the size.
FetchShrink ==
    /\ fpc = "rpc" /\ ~FetchCancelled
    /\ batchSize' = Decrease(batchSize)
    /\ fpc' = "get"
    /\ UNCHANGED <<db, finalized, proc, fcur, fend, batchCh, ctxDone>>

\* Any other error of eth_getLogs, a cancelled request, or, after the size
\* has grown, an error of the timestamp query.
FetchFails ==
    /\ fpc = "rpc"
    /\ batchSize' \in {batchSize, Increase(batchSize)}
    /\ fpc' = "senderr"
    /\ UNCHANGED <<db, finalized, proc, fcur, fend, batchCh, ctxDone>>

\* Mutant: the next range starts one batch size further on, but the size has
\* changed since the range was chosen.
SendBatchRereadSize ==
    /\ fpc = "send" /\ Len(batchCh) < PrefetchBuffer
    /\ batchCh' = Append(batchCh, Batch(fend, LogsIn(fcur, fend)))
    /\ IF FetchCancelled
       THEN fpc' = "senderr" /\ UNCHANGED fcur
       ELSE fpc' = "get" /\ fcur' = MinOf(fcur + batchSize, target + 1)
    /\ UNCHANGED <<db, finalized, batchSize, proc, fend, ctxDone>>

\* The callback's select picks the channel; FetchLogs then looks at its
\* context before it goes on to the next range.
SendBatch ==
    /\ fpc = "send" /\ Len(batchCh) < PrefetchBuffer
    /\ batchCh' = Append(batchCh, Batch(fend, LogsIn(fcur, fend)))
    /\ IF FetchCancelled
       THEN fpc' = "senderr" /\ UNCHANGED fcur
       ELSE fpc' = "get" /\ fcur' = fend + 1
    /\ UNCHANGED <<db, finalized, batchSize, proc, fend, ctxDone>>

\* Mutant: the callback sends without watching its context.
AbortSendNever == fpc = "send" /\ FetchCancelled /\ FALSE /\ UNCHANGED vars

\* The callback's select picks ctx.Done.
AbortSend ==
    /\ fpc = "send" /\ FetchCancelled
    /\ fpc' = "senderr"
    /\ UNCHANGED <<db, finalized, batchSize, proc, fcur, fend, batchCh, ctxDone>>

\* Mutant: an error is neither reported nor followed by the close.
SendErrorNoClose ==
    /\ fpc = "senderr" /\ FetchCancelled
    /\ fpc' = "closed"
    /\ UNCHANGED <<db, finalized, batchSize, proc, fcur, fend, batchCh, ctxDone>>

\* runFetcher reports the error unless nobody waits for it, and closes.
SendError ==
    /\ fpc = "senderr"
    /\ \/ /\ Len(batchCh) < PrefetchBuffer
          /\ batchCh' = Append(batchCh, ErrResult)
       \/ FetchCancelled /\ UNCHANGED batchCh
    /\ fpc' = "closed"
    /\ UNCHANGED <<db, finalized, batchSize, proc, fcur, fend, ctxDone>>

-----------------------------------------------------------------------------

Environment == Start \/ Crash \/ CancelCtx \/ Finalize \/ OtherFetchLogs

Processor == \/ SetInitialBlock \/ SyncToFinalized \/ SyncToBlock \/ CallFails
             \/ ReceiveError \/ ReceiveEmpty \/ BeginTx \/ ApplyLog
             \/ RejectLog \/ CommitTx \/ DbFails \/ Drained \/ Exit

Fetcher == \/ NextRange \/ FetchOk \/ FetchShrink \/ FetchFails
           \/ SendBatch \/ AbortSend \/ SendError

Next == Environment \/ Processor \/ Fetcher

Spec == Init /\ [][Next]_vars

\* The steps of a call in progress, and the steps of its fetcher.
ProcessorStep == \/ ReceiveError \/ ReceiveEmpty \/ BeginTx \/ ApplyLog
                 \/ RejectLog \/ CommitTx \/ DbFails \/ Drained

FetcherStep == Fetcher

\* Goroutines keep running, and the node does not answer every request for
\* ever with an error that FetchLogs retries.
Fairness == /\ WF_vars(ProcessorStep)
            /\ WF_vars(FetcherStep)
            /\ SF_vars(FetchOk \/ FetchFails)

FairSpec == Spec /\ Fairness

-----------------------------------------------------------------------------
(* Properties.                                                             *)

\* Every variable has its type; in particular the adaptive batch size stays
\* within its limits whoever moves it (batch_size.go Decrease, Increase).
TypeOK ==
    /\ view \in View /\ lastSynced \in Blocks
    /\ finalized \in Blocks
    /\ batchSize \in MinBatch..MaxBatch
    /\ pc \in {"down", "boot", "query", "idle", "loop", "tx"}
    /\ booting \in BOOLEAN
    /\ target \in Blocks
    /\ result \in {"none", "ok", "err"}
    /\ txView \in View /\ txEnd \in Blocks /\ todo \in SUBSET Positions
    /\ fpc \in {"get", "rpc", "send", "senderr", "closed"}
    /\ fcur \in 0..(MaxBlock + 1) /\ fend \in Blocks
    /\ batchCh \in Seq(BatchResult) /\ Len(batchCh) <= PrefetchBuffer
    /\ ctxDone \in BOOLEAN

\* Whatever was cancelled, rolled back, crashed or retried, the committed
\* tables are the chain's events up to last_synced_block: none is missing,
\* doubled or applied out of order (processBatch, processLog, applyEvent).
ViewIsChainPrefix == view = ViewOf(Upto(lastSynced))

\* SyncToBlock returns nil only when the cursor has reached its target, so a
\* commit never reads a partly synced validator set (syncer.go SyncToBlock).
OkMeansCaughtUp == (pc = "idle" /\ result = "ok") => lastSynced >= target

\* The end of the last batch taken from the channel.
Taken == IF pc = "tx" THEN txEnd ELSE lastSynced

\* Where batch k of the channel must begin.
BatchStart(k) == IF k = 1 THEN Taken + 1 ELSE batchCh[k - 1].end + 1

\* The batches in the channel follow one another without gap or overlap from
\* the batch in hand up to the fetcher's position, each with exactly the logs
\* of its range, while the batch size moves under them (FetchLogs,
\* runFetcher, SyncToBlock); an error is the last thing sent.
PipelineIsContiguous ==
    InCall =>
        /\ \A k \in 1..Len(batchCh) :
               \/ batchCh[k].err /\ k = Len(batchCh) /\ fpc = "closed"
               \/ /\ ~batchCh[k].err
                  /\ BatchStart(k) <= batchCh[k].end
                  /\ batchCh[k].end <= target
                  /\ batchCh[k].logs = LogsIn(BatchStart(k), batchCh[k].end)
        /\ fpc \in {"get", "rpc", "send"} => fcur = BatchStart(Len(batchCh) + 1)

\* Every step is a step of the abstract specification: the cursor moves
\* forward together with the tables, never past an event that could not be
\* decoded, or everything is cleared (processBatch, ClearAllState).
Abstract == INSTANCE MaterializedView

RefinesMaterializedView == Abstract!Spec

\* A call of SyncToBlock returns: the processor is never left waiting on a
\* channel nobody will close (syncer.go SyncToBlock, runFetcher).
CallReturns == InCall ~> ~InCall

\* After SyncToBlock has returned, its fetcher ends instead of blocking for
\* ever on the full channel (deferred cancelFetch, runFetcher's selects).
FetcherEnds == (~InCall /\ fpc # "closed") ~> (InCall \/ fpc = "closed")

=============================================================================
