------------------------- MODULE EventSyncerProofs --------------------------
(***************************************************************************)
(* The event syncer's tables are the chain's events up to the cursor, for  *)
(* every log, every batch size and every sequence of failures.  A finished *)
(* head snapshot is the state of the requested clusters at one block, for  *)
(* every log, every split in batches and every way the syncer and the      *)
(* chain move while it is built.                                           *)
(***************************************************************************)
EXTENDS EventSyncer, HeadState, BasicFacts

-----------------------------------------------------------------------------
(* The log and the view of a set of positions.                             *)

\* A log record has the fields and blocks LogRecord says.
LEMMA LogEntry ==
    ASSUME NEW i \in Positions
    PROVE  /\ Log[i] \in LogRecord
           /\ Log[i].block \in Nat /\ DeployBlock <= Log[i].block
           /\ Log[i].kind \in Kinds
           /\ Log[i].cluster \in Clusters
           /\ Log[i].key \in Keys
           /\ Log[i].row \in Rows
  <1>1. Log[i] \in LogRecord
    BY LogAssumption DEF Positions
  <1> QED BY <1>1, BlockAssumption DEF LogRecord

\* Positions are natural numbers.
LEMMA PositionsAreNat == Positions \subseteq Nat
  BY LogAssumption DEF Positions

\* Latest picks the greatest position of a nonempty set.
LEMMA LatestIsGreatest ==
    ASSUME NEW S \in SUBSET Positions, S # {}
    PROVE  Latest(S) \in S /\ \A j \in S : j <= Latest(S)
  <1>1. Len(Log) \in Nat
    BY LogAssumption
  <1>2. S \subseteq Nat /\ \A j \in S : j <= Len(Log)
    BY <1>1 DEF Positions
  <1>3. \E i \in S : \A j \in S : j <= i
    BY <1>1, <1>2, GreatestNatural
  <1> QED BY <1>3 DEF Latest

\* The view of any set of positions has the type of the tables.
LEMMA ViewOfIsView ==
    ASSUME NEW S \in SUBSET Positions
    PROVE  ViewOf(S) \in View
  <1>1. ASSUME NEW c \in Clusters PROVE ClusterAfter(S, c) \in Rows \cup {NoRow}
    <2>1. CASE Snapshots(S, c) = {}
      BY <2>1 DEF ClusterAfter
    <2>2. CASE Snapshots(S, c) # {}
      <3>1. Snapshots(S, c) \in SUBSET Positions
        BY DEF Snapshots
      <3>2. Latest(Snapshots(S, c)) \in Positions
        BY <2>2, <3>1, LatestIsGreatest
      <3> QED BY <2>2, <3>2, LogEntry DEF ClusterAfter
    <2> QED BY <2>1, <2>2
  <1>2. [c \in Clusters |-> ClusterAfter(S, c)] \in [Clusters -> Rows \cup {NoRow}]
    BY <1>1
  <1>3. {p \in Clusters \X Keys : RegisteredAfter(S, p[1], p[2])} \in SUBSET (Clusters \X Keys)
    OBVIOUS
  <1> QED BY <1>2, <1>3 DEF ViewOf, View

\* Nothing applied: the empty tables.
LEMMA ViewOfNothing == ViewOf({}) = EmptyView
  <1>1. \A c \in Clusters : ClusterAfter({}, c) = NoRow
    BY DEF ClusterAfter, Snapshots
  <1>2. [c \in Clusters |-> ClusterAfter({}, c)] = [c \in Clusters |-> NoRow]
    BY <1>1
  <1>3. {p \in Clusters \X Keys : RegisteredAfter({}, p[1], p[2])} = {}
    BY DEF RegisteredAfter
  <1> QED BY <1>2, <1>3 DEF ViewOf, EmptyView

\* A later position decides the row of its own cluster and of no other.
LEMMA ClusterAfterLater ==
    ASSUME NEW S \in SUBSET Positions, NEW i \in Positions,
           \A j \in S : j < i, NEW c \in Clusters
    PROVE  ClusterAfter(S \cup {i}, c) =
               IF Log[i].kind \in HandledKinds /\ Log[i].cluster = c
               THEN Log[i].row ELSE ClusterAfter(S, c)
  <1> DEFINE T == Snapshots(S \cup {i}, c)
  <1>1. CASE Log[i].kind \in HandledKinds /\ Log[i].cluster = c
    <2>1. i \in T /\ T \in SUBSET Positions /\ \A j \in T : j <= i
      <3>1. i \in Int /\ \A j \in S : j \in Int
        BY LogAssumption DEF Positions
      <3>2. \A j \in S \cup {i} : j <= i
        BY <3>1
      <3>3. i \in T
        BY <1>1 DEF Snapshots
      <3>4. T \subseteq S \cup {i}
        BY DEF Snapshots
      <3> HIDE DEF T
      <3> QED BY <3>2, <3>3, <3>4
    <2>2. Latest(T) \in T /\ \A j \in T : j <= Latest(T)
      <3> HIDE DEF T
      <3> QED BY <2>1, LatestIsGreatest
    <2>3. Latest(T) = i
      <3>1. T \subseteq Nat
        BY <2>1, PositionsAreNat
      <3>2. i \in Nat
        BY PositionsAreNat
      <3>3. Latest(T) \in Nat
        BY <2>2, <3>1
      <3> HIDE DEF T
      <3> QED BY <2>1, <2>2, <3>2, <3>3
    <2> QED BY <1>1, <2>1, <2>3 DEF ClusterAfter
  <1>2. CASE ~(Log[i].kind \in HandledKinds /\ Log[i].cluster = c)
    <2>1. T = Snapshots(S, c)
      BY <1>2 DEF Snapshots
    <2> QED BY <1>2, <2>1 DEF ClusterAfter
  <1> QED BY <1>1, <1>2

\* A later position registers, removes or leaves alone a validator.
LEMMA RegisteredAfterLater ==
    ASSUME NEW S \in SUBSET Positions, NEW i \in Positions,
           \A j \in S : j < i, NEW c \in Clusters, NEW k \in Keys
    PROVE  RegisteredAfter(S \cup {i}, c, k) <=>
               Adds(i, c, k) \/ (RegisteredAfter(S, c, k) /\ ~Removes(i, c, k))
  <1>1. i \in Int /\ \A j \in S : j \in Int /\ j < i /\ ~(j > i)
    BY LogAssumption DEF Positions
  <1>2. Adds(i, c, k) => ~Removes(i, c, k)
    BY DEF Adds, Removes
  <1>3. ASSUME RegisteredAfter(S \cup {i}, c, k)
        PROVE  Adds(i, c, k) \/ (RegisteredAfter(S, c, k) /\ ~Removes(i, c, k))
    <2>1. PICK j \in S \cup {i} : /\ Adds(j, c, k)
                                  /\ \A l \in S \cup {i} : l > j => ~Removes(l, c, k)
      BY <1>3 DEF RegisteredAfter
    <2>2. CASE j = i
      BY <2>1, <2>2
    <2>3. CASE j \in S
      <3>1. i > j
        BY <1>1, <2>3
      <3> QED BY <2>1, <2>3, <3>1 DEF RegisteredAfter
    <2> QED BY <2>2, <2>3
  <1>4. ASSUME Adds(i, c, k) PROVE RegisteredAfter(S \cup {i}, c, k)
    <2>1. \A l \in S \cup {i} : l > i => ~Removes(l, c, k)
      BY <1>1
    <2> QED BY <1>4, <2>1 DEF RegisteredAfter
  <1>5. ASSUME RegisteredAfter(S, c, k), ~Removes(i, c, k)
        PROVE  RegisteredAfter(S \cup {i}, c, k)
    <2>1. PICK j \in S : Adds(j, c, k) /\ \A l \in S : l > j => ~Removes(l, c, k)
      BY <1>5 DEF RegisteredAfter
    <2>2. \A l \in S \cup {i} : l > j => ~Removes(l, c, k)
      BY <1>5, <2>1
    <2> QED BY <2>1, <2>2 DEF RegisteredAfter
  <1> QED BY <1>3, <1>4, <1>5

\* Applying the next log to the view of the earlier ones gives the view of
\* them all: what ApplyEvent's handlers do is what ViewOf says.
LEMMA ProcessLogExtends ==
    ASSUME NEW S \in SUBSET Positions, NEW i \in Positions,
           \A j \in S : j < i, Log[i].kind # "Malformed"
    PROVE  ProcessLog(ViewOf(S), i) = ViewOf(S \cup {i})
  <1> DEFINE c == Log[i].cluster
             k == Log[i].key
             handled == Log[i].kind \in HandledKinds
             rows == [d \in Clusters |-> ClusterAfter(S, d)]
             rows2 == [d \in Clusters |-> ClusterAfter(S \cup {i}, d)]
             vals == {p \in Clusters \X Keys : RegisteredAfter(S, p[1], p[2])}
             vals2 == {p \in Clusters \X Keys : RegisteredAfter(S \cup {i}, p[1], p[2])}
  <1>1. c \in Clusters /\ k \in Keys
    BY LogEntry
  <1>2. handled => rows2 = [rows EXCEPT ![c] = Log[i].row]
    <2>1. ASSUME handled, NEW d \in Clusters
          PROVE  ClusterAfter(S \cup {i}, d) = IF d = c THEN Log[i].row ELSE ClusterAfter(S, d)
      BY <2>1, ClusterAfterLater
    <2> QED BY <1>1, <2>1
  <1>3. ~handled => rows2 = rows
    BY ClusterAfterLater
  <1>4. Log[i].kind = "ValidatorAdded" => vals2 = vals \cup {<<c, k>>}
    <2>1. ASSUME Log[i].kind = "ValidatorAdded", NEW d \in Clusters, NEW l \in Keys
          PROVE  RegisteredAfter(S \cup {i}, d, l)
                     <=> RegisteredAfter(S, d, l) \/ (d = c /\ l = k)
      BY <2>1, RegisteredAfterLater DEF Adds, Removes
    <2> QED BY <1>1, <2>1
  <1>5. Log[i].kind = "ValidatorRemoved" => vals2 = vals \ {<<c, k>>}
    <2>1. ASSUME Log[i].kind = "ValidatorRemoved", NEW d \in Clusters, NEW l \in Keys
          PROVE  RegisteredAfter(S \cup {i}, d, l)
                     <=> RegisteredAfter(S, d, l) /\ ~(d = c /\ l = k)
      BY <2>1, RegisteredAfterLater DEF Adds, Removes
    <2> QED BY <1>1, <2>1
  <1>6. Log[i].kind \notin {"ValidatorAdded", "ValidatorRemoved"} => vals2 = vals
    <2>1. ASSUME Log[i].kind \notin {"ValidatorAdded", "ValidatorRemoved"},
                 NEW d \in Clusters, NEW l \in Keys
          PROVE  RegisteredAfter(S \cup {i}, d, l) <=> RegisteredAfter(S, d, l)
      BY <2>1, RegisteredAfterLater DEF Adds, Removes
    <2> QED BY <2>1
  <1>7. /\ ViewOf(S) = [clusters |-> rows, validators |-> vals, events |-> S]
        /\ ViewOf(S \cup {i}) = [clusters |-> rows2, validators |-> vals2, events |-> S \cup {i}]
    BY DEF ViewOf
  <1>8. Log[i].kind \in {"ValidatorAdded", "ValidatorRemoved", "ClusterUpdated", "Unknown"}
    BY LogEntry DEF Kinds, HandledKinds, ClusterKinds
  <1>9. handled <=> Log[i].kind # "Unknown"
    BY <1>8 DEF HandledKinds, ClusterKinds
  <1> HIDE DEF c, k, handled, rows, rows2, vals, vals2
  <1>10. InsertEvent(ViewOf(S), i) = [clusters |-> rows, validators |-> vals, events |-> S \cup {i}]
    BY <1>7 DEF InsertEvent
  <1> DEFINE rows1 == [rows EXCEPT ![c] = Log[i].row]
             all == S \cup {i}
             base == [clusters |-> rows, validators |-> vals, events |-> all]
             upserted == [clusters |-> rows1, validators |-> vals, events |-> all]
             kept == vals \ {<<c, k>>}
             deleted == [clusters |-> rows, validators |-> kept, events |-> all]
             added == [clusters |-> rows1, validators |-> vals \cup {<<c, k>>}, events |-> all]
             removed == [clusters |-> rows1, validators |-> kept, events |-> all]
  <1>11. UpsertCluster(base, i) = upserted
    BY DEF UpsertCluster, c
  <1>12. InsertValidator(upserted, i) = added
    BY DEF InsertValidator, c, k
  <1>13. DeleteValidator(base, i) = deleted
    BY DEF DeleteValidator, c, k
  <1>14. UpsertCluster(deleted, i) = removed
    <2> HIDE DEF kept, all
    <2> QED BY DEF UpsertCluster, c
  <1>15. CASE Log[i].kind = "Unknown"
    BY <1>3, <1>6, <1>7, <1>9, <1>10, <1>15 DEF ProcessLog
  <1>16. CASE Log[i].kind = "ValidatorAdded"
    <2>1. ProcessLog(ViewOf(S), i) = added
      <3> HIDE DEF base, upserted, added
      <3>1. InsertEvent(ViewOf(S), i) = base
        BY <1>10 DEF base
      <3> QED BY <3>1, <1>16, <1>11, <1>12 DEF ProcessLog, ApplyEvent, ClusterKinds
    <2> QED BY <1>2, <1>4, <1>7, <1>9, <1>16, <2>1
  <1>17. CASE Log[i].kind = "ValidatorRemoved"
    <2>1. ProcessLog(ViewOf(S), i) = removed
      <3> HIDE DEF base, deleted, removed
      <3>1. InsertEvent(ViewOf(S), i) = base
        BY <1>10 DEF base
      <3> QED BY <3>1, <1>17, <1>13, <1>14 DEF ProcessLog, ApplyEvent, ClusterKinds
    <2> QED BY <1>2, <1>5, <1>7, <1>9, <1>17, <2>1
  <1>18. CASE Log[i].kind = "ClusterUpdated"
    <2>1. ProcessLog(ViewOf(S), i) = upserted
      <3> HIDE DEF base, upserted
      <3>1. InsertEvent(ViewOf(S), i) = base
        BY <1>10 DEF base
      <3> QED BY <3>1, <1>18, <1>11 DEF ProcessLog, ApplyEvent, ClusterKinds
    <2> QED BY <1>2, <1>6, <1>7, <1>9, <1>18, <2>1
  <1> QED BY <1>8, <1>15, <1>16, <1>17, <1>18

\* The logs up to b are those up to an earlier a and those of the range
\* between, which come later in the log.
LEMMA UptoSplits ==
    ASSUME NEW a \in Nat, NEW b \in Nat, a <= b
    PROVE  /\ Upto(b) = Upto(a) \cup LogsIn(a + 1, b)
           /\ \A i \in Upto(a), j \in LogsIn(a + 1, b) : i < j
  <1>1. \A i \in Positions : Log[i].block \in Nat
    BY LogEntry
  <1>2. Upto(b) = Upto(a) \cup LogsIn(a + 1, b)
    BY <1>1 DEF Upto, LogsIn
  <1>3. ASSUME NEW i \in Upto(a), NEW j \in LogsIn(a + 1, b) PROVE i < j
    <2>1. i \in Positions /\ j \in Positions /\ Log[i].block <= a /\ a + 1 <= Log[j].block
      BY DEF Upto, LogsIn
    <2>2. i \in Int /\ j \in Int
      BY <2>1, LogAssumption DEF Positions
    <2>3. i # j /\ ~(j < i)
      BY <1>1, <2>1, LogAssumption DEF Positions
    <2> QED BY <2>2, <2>3
  <1> QED BY <1>2, <1>3

\* Nothing was logged before the deployment block.
LEMMA NothingBeforeDeploy ==
    ASSUME NEW b \in Nat, b < DeployBlock PROVE Upto(b) = {}
  BY LogEntry, BlockAssumption DEF Upto

-----------------------------------------------------------------------------
(* The inductive invariant.                                                *)

\* No event up to the cursor failed to decode.
Decoded == \A i \in Upto(lastSynced) : Log[i].kind # "Malformed"

\* The open transaction has applied a prefix of the log that ends inside the
\* batch in hand; what is left to do comes after it.
TxIsPrefix ==
    pc = "tx" =>
        /\ lastSynced < txEnd /\ txEnd <= target
        /\ todo \subseteq Upto(txEnd)
        /\ \A i \in Upto(txEnd) \ todo, j \in todo : i < j
        /\ txView = ViewOf(Upto(txEnd) \ todo)
        /\ \A i \in Upto(txEnd) \ todo : Log[i].kind # "Malformed"

\* The fetcher's range lies within the call's.
FetcherInRange ==
    InCall =>
        /\ lastSynced <= target
        /\ fpc \in {"get", "rpc", "send"} => fcur <= target + 1
        /\ fpc \in {"rpc", "send"} => fcur <= fend /\ fend <= target

\* A fetcher that closed the channel has sent an error or everything, unless
\* the context was cancelled.
ClosedMeansSent ==
    (InCall /\ fpc = "closed" /\ ~ctxDone) =>
        \/ batchCh # <<>> /\ batchCh[Len(batchCh)].err
        \/ BatchStart(Len(batchCh) + 1) > target

IInv == /\ TypeOK
        /\ ViewIsChainPrefix
        /\ Decoded
        /\ TxIsPrefix
        /\ FetcherInRange
        /\ PipelineIsContiguous
        /\ ClosedMeansSent
        /\ OkMeansCaughtUp

-----------------------------------------------------------------------------
(* Every step preserves the invariant.                                     *)

\* The empty tables have the type of tables.
LEMMA EmptyViewIsView == EmptyView \in View
  BY ViewOfNothing, ViewOfIsView

\* The batch size stays within its limits.
LEMMA BatchSizeStays ==
    ASSUME NEW n \in MinBatch..MaxBatch
    PROVE  Increase(n) \in MinBatch..MaxBatch /\ Decrease(n) \in MinBatch..MaxBatch
  BY BatchAssumption DEF Increase, Decrease, MinOf, MaxOf

\* Outside a call only the types, the tables and the last result matter.
LEMMA IdleSuffices ==
    ASSUME TypeOK', ViewIsChainPrefix', Decoded', OkMeansCaughtUp', pc' \notin {"loop", "tx"}
    PROVE  IInv'
  BY DEF IInv, TxIsPrefix, FetcherInRange, PipelineIsContiguous, ClosedMeansSent, InCall

\* The variables a process that ended has lost have their types.
LEMMA HaltTypes ==
    ASSUME Halt
    PROVE  /\ pc' = "down" /\ booting' \in BOOLEAN
           /\ txView' \in View /\ txEnd' \in Blocks /\ todo' \in SUBSET Positions
           /\ fpc' = "closed" /\ fcur' \in 0..(MaxBlock + 1) /\ fend' \in Blocks
           /\ batchCh' \in Seq(BatchResult) /\ Len(batchCh') <= PrefetchBuffer
           /\ ctxDone' \in BOOLEAN
  <1>1. 0 \in Blocks /\ 0 \in 0..(MaxBlock + 1)
    BY BlockAssumption DEF Blocks
  <1>2. <<>> \in Seq(BatchResult) /\ Len(<<>>) <= PrefetchBuffer
    BY DEF PrefetchBuffer
  <1> QED BY <1>1, <1>2, EmptyViewIsView DEF Halt

\* The end of the process keeps the database.
LEMMA HaltPreserves ==
    ASSUME IInv, Halt, UNCHANGED <<db, finalized, batchSize, target>>,
           result' \in {"none", "ok", "err"}
    PROVE  IInv'
  <1>1. TypeOK'
    BY HaltTypes DEF IInv, TypeOK, db
  <1>2. ViewIsChainPrefix' /\ Decoded'
    BY DEF IInv, ViewIsChainPrefix, Decoded, db
  <1>3. OkMeansCaughtUp' /\ pc' \notin {"loop", "tx"}
    BY DEF Halt, OkMeansCaughtUp
  <1> QED BY <1>1, <1>2, <1>3, IdleSuffices

\* A return keeps the database; nil is returned only at the target.
LEMMA ReturnPreserves ==
    ASSUME IInv, NEW r \in {"ok", "err"}, Return(r),
           UNCHANGED <<db, finalized, batchSize>>, target' \in Blocks,
           r = "ok" => lastSynced >= target'
    PROVE  IInv'
  <1>1. TypeOK'
    <2>1. CASE Halt
      BY <2>1, HaltTypes DEF IInv, TypeOK, Return, db
    <2>2. CASE ~(booting /\ r = "err")
      <3>1. /\ result' = r /\ pc' = "idle" /\ booting' = FALSE
            /\ txView' = EmptyView /\ txEnd' = 0 /\ todo' = {}
            /\ UNCHANGED <<fetch, ctxDone>>
        BY <2>2, Zenon DEF Return
      <3>2. txView' \in View /\ txEnd' \in Blocks /\ todo' \in SUBSET Positions
        BY <3>1, EmptyViewIsView, BlockAssumption DEF Blocks
      <3> QED BY <3>1, <3>2 DEF IInv, TypeOK, db, fetch
    <2> QED BY <2>1, <2>2 DEF Return
  <1>2. ViewIsChainPrefix' /\ Decoded'
    BY DEF IInv, ViewIsChainPrefix, Decoded, db
  <1>3. OkMeansCaughtUp' /\ pc' \notin {"loop", "tx"}
    BY DEF Return, Halt, OkMeansCaughtUp, db
  <1> QED BY <1>1, <1>2, <1>3, IdleSuffices

\* Process and environment steps.
LEMMA EnvironmentPreserves ==
    ASSUME IInv, Environment \/ Exit
    PROVE  IInv'
  <1>1. CASE Start
    <2>1. TypeOK'
      BY <1>1, EmptyViewIsView, BlockAssumption, BatchAssumption
      DEF IInv, TypeOK, Start, Blocks, db, txv, fetch
    <2>2. Upto(0) = {} /\ ViewOf(Upto(0)) = EmptyView
      BY NothingBeforeDeploy, ViewOfNothing, BlockAssumption
    <2>3. ViewIsChainPrefix' /\ Decoded'
      <3>1. CASE UNCHANGED db
        BY <3>1 DEF IInv, ViewIsChainPrefix, Decoded, db
      <3>2. CASE view' = EmptyView /\ lastSynced' = 0
        BY <2>2, <3>2 DEF ViewIsChainPrefix, Decoded
      <3> QED BY <1>1, <3>1, <3>2 DEF Start
    <2>4. OkMeansCaughtUp' /\ pc' \notin {"loop", "tx"}
      BY <1>1 DEF Start, OkMeansCaughtUp
    <2> QED BY <2>1, <2>3, <2>4, IdleSuffices
  <1>2. CASE Crash \/ Exit
    <2>1. result' \in {"none", "ok", "err"}
      BY <1>2 DEF Crash, Exit, IInv, TypeOK
    <2> QED BY <1>2, <2>1, HaltPreserves DEF Crash, Exit
  <1>3. CASE CancelCtx
    <2>1. TypeOK'
      BY <1>3 DEF IInv, TypeOK, CancelCtx, db, proc, fetch
    <2>2. /\ ViewIsChainPrefix' /\ Decoded' /\ TxIsPrefix' /\ FetcherInRange'
          /\ OkMeansCaughtUp'
      BY <1>3 DEF IInv, ViewIsChainPrefix, Decoded, TxIsPrefix, FetcherInRange,
                  OkMeansCaughtUp, InCall, CancelCtx, db, proc, fetch
    <2>3. PipelineIsContiguous'
      BY <1>3 DEF IInv, PipelineIsContiguous, BatchStart, Taken, InCall, CancelCtx, db, proc, fetch
    <2>4. ClosedMeansSent'
      BY <1>3 DEF ClosedMeansSent, CancelCtx
    <2> QED BY <2>1, <2>2, <2>3, <2>4 DEF IInv
  <1>4. CASE Finalize \/ OtherFetchLogs
    <2>1. TypeOK'
      <3>1. finalized' \in Blocks
        BY <1>4, BlockAssumption DEF IInv, TypeOK, Finalize, OtherFetchLogs, Blocks
      <3>2. batchSize' \in MinBatch..MaxBatch
        BY <1>4, BatchSizeStays DEF IInv, TypeOK, Finalize, OtherFetchLogs
      <3> QED BY <1>4, <3>1, <3>2 DEF IInv, TypeOK, Finalize, OtherFetchLogs, db, proc, fetch
    <2>2. /\ ViewIsChainPrefix' /\ Decoded' /\ TxIsPrefix' /\ FetcherInRange'
          /\ OkMeansCaughtUp'
      BY <1>4 DEF IInv, ViewIsChainPrefix, Decoded, TxIsPrefix, FetcherInRange,
                  OkMeansCaughtUp, InCall, Finalize, OtherFetchLogs, db, proc, fetch
    <2>3. PipelineIsContiguous' /\ ClosedMeansSent'
      BY <1>4 DEF IInv, PipelineIsContiguous, ClosedMeansSent, BatchStart, Taken, InCall,
                  Finalize, OtherFetchLogs, db, proc, fetch
    <2> QED BY <2>1, <2>2, <2>3 DEF IInv
  <1> QED BY <1>1, <1>2, <1>3, <1>4 DEF Environment

\* The batch at the head of the channel begins where the cursor is.
LEMMA HeadBatch ==
    ASSUME IInv, pc = "loop", batchCh # <<>>, ~Head(batchCh).err
    PROVE  /\ Head(batchCh) = batchCh[1]
           /\ batchCh[1] \in BatchResult
           /\ batchCh[1].end \in Blocks
           /\ lastSynced < batchCh[1].end /\ batchCh[1].end <= target
           /\ batchCh[1].logs = LogsIn(lastSynced + 1, batchCh[1].end)
  <1>1. batchCh \in Seq(BatchResult)
    BY DEF IInv, TypeOK
  <1>2. /\ Len(batchCh) \in Nat /\ Len(batchCh) >= 1 /\ Head(batchCh) = batchCh[1]
        /\ batchCh[1] \in BatchResult
    BY <1>1, TailFacts
  <1>3. batchCh[1].end \in Blocks
    BY <1>2 DEF BatchResult
  <1>4. 1 \in 1..Len(batchCh)
    BY <1>2
  <1>5. /\ BatchStart(1) <= batchCh[1].end /\ batchCh[1].end <= target
        /\ batchCh[1].logs = LogsIn(BatchStart(1), batchCh[1].end)
    BY <1>2, <1>4 DEF IInv, PipelineIsContiguous, InCall
  <1>6. BatchStart(1) = lastSynced + 1
    BY DEF BatchStart, Taken
  <1>7. lastSynced < batchCh[1].end
    BY <1>3, <1>5, <1>6 DEF IInv, TypeOK, Blocks
  <1> QED BY <1>2, <1>3, <1>5, <1>6, <1>7

\* Taking that batch out leaves the rest of the channel contiguous.
LEMMA TakeHead ==
    ASSUME IInv, pc = "loop", batchCh # <<>>, ~Head(batchCh).err,
           batchCh' = Tail(batchCh), Taken' = Head(batchCh).end,
           pc' \in {"loop", "tx"}, UNCHANGED <<target, fpc, fcur, ctxDone>>
    PROVE  PipelineIsContiguous' /\ ClosedMeansSent'
  <1>1. batchCh \in Seq(BatchResult)
    BY DEF IInv, TypeOK
  <1>2. PICK n \in Nat : n = Len(batchCh)
    BY <1>1
  <1>3. /\ n \in Nat /\ n >= 1 /\ Len(batchCh') = n - 1
        /\ \A k \in 1..(n - 1) : batchCh'[k] = batchCh[k + 1]
        /\ Head(batchCh) = batchCh[1]
    BY <1>1, <1>2, TailFacts
  <1>4. ASSUME NEW k \in 1..n PROVE BatchStart(k)' = BatchStart(k + 1)
    <2>1. CASE k = 1
      BY <1>3, <2>1 DEF BatchStart
    <2>2. CASE k # 1
      <3>1. k - 1 \in 1..(n - 1) /\ k + 1 # 1 /\ (k + 1) - 1 = k /\ (k - 1) + 1 = k
        BY <1>3, <2>2
      <3>2. batchCh'[k - 1] = batchCh[k]
        BY <1>3, <3>1
      <3> QED BY <2>2, <3>1, <3>2 DEF BatchStart
    <2> QED BY <2>1, <2>2
  <1>5. InCall
    BY DEF InCall
  <1>6. ASSUME NEW k \in 1..Len(batchCh')
        PROVE  \/ batchCh'[k].err /\ k = Len(batchCh') /\ fpc' = "closed"
               \/ /\ ~batchCh'[k].err
                  /\ BatchStart(k)' <= batchCh'[k].end
                  /\ batchCh'[k].end <= target'
                  /\ batchCh'[k].logs = LogsIn(BatchStart(k)', batchCh'[k].end)
    <2>1. k \in 1..(n - 1) /\ k \in 1..n /\ k + 1 \in 1..n /\ (k + 1 = n => k = n - 1)
      BY <1>3
    <2>2. batchCh'[k] = batchCh[k + 1] /\ BatchStart(k)' = BatchStart(k + 1)
      BY <1>3, <1>4, <2>1
    <2>3. \/ batchCh[k + 1].err /\ k + 1 = n /\ fpc = "closed"
          \/ /\ ~batchCh[k + 1].err
             /\ BatchStart(k + 1) <= batchCh[k + 1].end
             /\ batchCh[k + 1].end <= target
             /\ batchCh[k + 1].logs = LogsIn(BatchStart(k + 1), batchCh[k + 1].end)
      BY <1>5, <1>2, <2>1 DEF IInv, PipelineIsContiguous
    <2> QED BY <1>3, <2>1, <2>2, <2>3
  <1>7. BatchStart(Len(batchCh) + 1)' = BatchStart(n + 1)
    <2>1. n \in 1..n /\ Len(batchCh') + 1 = n
      BY <1>3
    <2>2. BatchStart(n)' = BatchStart(n + 1)
      BY <1>4, <2>1
    <2> QED BY <2>1, <2>2 DEF BatchStart, Taken
  <1>8. PipelineIsContiguous'
    BY <1>5, <1>6, <1>7, <1>2 DEF IInv, PipelineIsContiguous
  <1>9. ClosedMeansSent'
    <2> SUFFICES ASSUME fpc = "closed", ~ctxDone, ~(BatchStart(n + 1) > target)
                 PROVE  batchCh' # <<>> /\ batchCh'[Len(batchCh')].err
      BY <1>7 DEF ClosedMeansSent
    <2>1. batchCh[n].err
      BY <1>5, <1>2 DEF IInv, ClosedMeansSent
    <2>2. n # 1
      BY <1>3, <2>1
    <2>3. n - 1 \in 1..(n - 1) /\ (n - 1) + 1 = n
      BY <1>3, <2>2
    <2>4. batchCh'[n - 1] = batchCh[n]
      BY <1>3, <2>3
    <2>5. batchCh' # <<>>
      <3>1. Len(<<>>) = 0
        OBVIOUS
      <3>2. Len(batchCh') # 0
        BY <1>3, <2>2
      <3> QED BY <3>1, <3>2
    <2> QED BY <1>3, <2>1, <2>4, <2>5
  <1> QED BY <1>8, <1>9

\* The initial cursor: nothing was logged before the deployment block.
LEMMA SetInitialBlockPreserves ==
    ASSUME IInv, SetInitialBlock
    PROVE  IInv'
  <1>1. TypeOK'
    BY BlockAssumption DEF IInv, TypeOK, SetInitialBlock, Blocks, txv, fetch
  <1>2. Upto(lastSynced') = Upto(lastSynced)
    <2>1. CASE lastSynced = 0
      <3>1. lastSynced' = DeployBlock - 1
        BY <2>1 DEF SetInitialBlock
      <3>2. Upto(0) = {} /\ Upto(DeployBlock - 1) = {}
        BY NothingBeforeDeploy, BlockAssumption
      <3> QED BY <2>1, <3>1, <3>2
    <2>2. CASE lastSynced # 0
      BY <2>2 DEF SetInitialBlock
    <2> QED BY <2>1, <2>2
  <1>3. ViewIsChainPrefix' /\ Decoded'
    BY <1>2 DEF IInv, ViewIsChainPrefix, Decoded, SetInitialBlock
  <1>4. OkMeansCaughtUp' /\ pc' \notin {"loop", "tx"}
    BY DEF SetInitialBlock, OkMeansCaughtUp
  <1> QED BY <1>1, <1>3, <1>4, IdleSuffices

\* A call begins: nothing to do, or a fetcher that starts behind the cursor.
LEMMA BeginSyncPreserves ==
    ASSUME IInv, NEW b \in Blocks, BeginSync(b), UNCHANGED <<db, finalized, batchSize>>
    PROVE  IInv'
  <1>1. CASE lastSynced >= b
    <2>1. Return("ok") /\ target' = b
      BY <1>1 DEF BeginSync
    <2> QED BY <1>1, <2>1, ReturnPreserves
  <1>2. CASE ~(lastSynced >= b)
    <2>1. /\ target' = b /\ pc' = "loop" /\ fpc' = "get" /\ fcur' = lastSynced + 1
          /\ fend' = 0 /\ batchCh' = <<>> /\ UNCHANGED <<booting, result, txv, ctxDone>>
      BY <1>2 DEF BeginSync
    <2>2. lastSynced \in 0..MaxBlock /\ b \in 0..MaxBlock /\ lastSynced < b
      BY <1>2, BlockAssumption DEF IInv, TypeOK, Blocks
    <2>3. fcur' \in 0..(MaxBlock + 1) /\ fend' \in Blocks
      BY <2>1, <2>2, BlockAssumption DEF Blocks
    <2>4. batchCh' \in Seq(BatchResult) /\ Len(batchCh') = 0 /\ Len(batchCh') <= PrefetchBuffer
      BY <2>1 DEF PrefetchBuffer
    <2>5. TypeOK'
      BY <2>1, <2>3, <2>4 DEF IInv, TypeOK, db, txv
    <2>6. ViewIsChainPrefix' /\ Decoded' /\ TxIsPrefix' /\ OkMeansCaughtUp'
      BY <2>1 DEF IInv, ViewIsChainPrefix, Decoded, TxIsPrefix, OkMeansCaughtUp, db
    <2>7. FetcherInRange'
      BY <2>1, <2>2 DEF FetcherInRange, db
    <2>8. BatchStart(Len(batchCh) + 1)' = lastSynced + 1
      BY <2>1, <2>4 DEF BatchStart, Taken, db
    <2>9. PipelineIsContiguous' /\ ClosedMeansSent'
      BY <2>1, <2>4, <2>8 DEF PipelineIsContiguous, ClosedMeansSent
    <2> QED BY <2>5, <2>6, <2>7, <2>9 DEF IInv
  <1> QED BY <1>1, <1>2

\* The steps that only return.
LEMMA ReturningPreserves ==
    ASSUME IInv, CallFails \/ ReceiveError \/ RejectLog \/ DbFails \/ Drained
    PROVE  IInv'
  <1>1. target \in Blocks
    BY DEF IInv, TypeOK
  <1>2. CASE CallFails \/ ReceiveError \/ RejectLog \/ DbFails
    <2>1. Return("err") /\ UNCHANGED <<db, finalized, batchSize, target>>
      BY <1>2 DEF CallFails, ReceiveError, RejectLog, DbFails
    <2> QED BY <1>1, <2>1, ReturnPreserves
  <1>3. CASE Drained /\ ctxDone
    <2>1. Return("err") /\ UNCHANGED <<db, finalized, batchSize, target>>
      BY <1>3 DEF Drained
    <2> QED BY <1>1, <2>1, ReturnPreserves
  <1>4. CASE Drained /\ ~ctxDone
    <2>1. /\ Return("ok") /\ UNCHANGED <<db, finalized, batchSize, target>>
          /\ pc = "loop" /\ batchCh = <<>> /\ fpc = "closed"
      BY <1>4 DEF Drained
    <2>2. Len(batchCh) = 0
      BY <2>1
    <2>3. BatchStart(Len(batchCh) + 1) > target
      BY <1>4, <2>1 DEF IInv, ClosedMeansSent, InCall
    <2>4. lastSynced >= target
      BY <2>1, <2>2, <2>3 DEF BatchStart, Taken, IInv, TypeOK, Blocks
    <2> QED BY <1>1, <2>1, <2>4, ReturnPreserves
  <1> QED BY <1>2, <1>3, <1>4

\* An empty batch moves the cursor over blocks without logs.
LEMMA ReceiveEmptyPreserves ==
    ASSUME IInv, ReceiveEmpty
    PROVE  IInv'
  <1> DEFINE h == batchCh[1]
  <1>1. /\ pc = "loop" /\ pc' = "loop" /\ batchCh # <<>> /\ ~Head(batchCh).err
        /\ Head(batchCh).logs = {} /\ lastSynced' = Head(batchCh).end
        /\ batchCh' = Tail(batchCh)
        /\ UNCHANGED <<view, finalized, batchSize, proc, fpc, fcur, fend, ctxDone>>
    BY DEF ReceiveEmpty, proc
  <1>2. /\ Head(batchCh) = h /\ h.end \in Blocks
        /\ lastSynced < h.end /\ h.end <= target
        /\ h.logs = LogsIn(lastSynced + 1, h.end)
    BY <1>1, HeadBatch
  <1> HIDE DEF h
  <1>3. TypeOK'
    <2>1. batchCh' \in Seq(BatchResult) /\ Len(batchCh') <= PrefetchBuffer
      <3>1. batchCh \in Seq(BatchResult) /\ Len(batchCh) <= PrefetchBuffer
        BY DEF IInv, TypeOK
      <3> QED BY <1>1, <3>1, TailFacts DEF PrefetchBuffer
    <2> QED BY <1>1, <1>2, <2>1 DEF IInv, TypeOK, proc
  <1>4. Upto(lastSynced') = Upto(lastSynced)
    <2>1. lastSynced \in Nat /\ h.end \in Nat /\ lastSynced <= h.end
      BY <1>2 DEF IInv, TypeOK, Blocks
    <2>2. Upto(h.end) = Upto(lastSynced) \cup LogsIn(lastSynced + 1, h.end)
      BY <2>1, UptoSplits
    <2> QED BY <1>1, <1>2, <2>2
  <1>5. ViewIsChainPrefix' /\ Decoded'
    BY <1>1, <1>4 DEF IInv, ViewIsChainPrefix, Decoded
  <1>6. TxIsPrefix' /\ OkMeansCaughtUp'
    BY <1>1 DEF TxIsPrefix, OkMeansCaughtUp
  <1>7. FetcherInRange'
    BY <1>1, <1>2 DEF IInv, FetcherInRange, InCall, proc
  <1>8. PipelineIsContiguous' /\ ClosedMeansSent'
    <2>1. Taken' = Head(batchCh).end
      BY <1>1 DEF Taken
    <2> QED BY <1>1, <2>1, TakeHead DEF proc
  <1> QED BY <1>3, <1>5, <1>6, <1>7, <1>8 DEF IInv

\* A transaction begins with the committed tables and a whole batch to do.
LEMMA BeginTxPreserves ==
    ASSUME IInv, BeginTx
    PROVE  IInv'
  <1> DEFINE h == batchCh[1]
  <1>1. /\ pc = "loop" /\ pc' = "tx" /\ batchCh # <<>> /\ ~Head(batchCh).err
        /\ txView' = view /\ txEnd' = Head(batchCh).end /\ todo' = Head(batchCh).logs
        /\ batchCh' = Tail(batchCh)
        /\ UNCHANGED <<view, lastSynced, finalized, batchSize, booting, target, result,
                       fpc, fcur, fend, ctxDone>>
    BY DEF BeginTx, db
  <1>2. /\ Head(batchCh) = h /\ h.end \in Blocks /\ h \in BatchResult
        /\ lastSynced < h.end /\ h.end <= target
        /\ h.logs = LogsIn(lastSynced + 1, h.end)
    BY <1>1, HeadBatch
  <1> HIDE DEF h
  <1>3. TypeOK'
    <2>1. batchCh' \in Seq(BatchResult) /\ Len(batchCh') <= PrefetchBuffer
      <3>1. batchCh \in Seq(BatchResult) /\ Len(batchCh) <= PrefetchBuffer
        BY DEF IInv, TypeOK
      <3> QED BY <1>1, <3>1, TailFacts DEF PrefetchBuffer
    <2>2. h.logs \in SUBSET Positions
      BY <1>2 DEF BatchResult
    <2> QED BY <1>1, <1>2, <2>1, <2>2 DEF IInv, TypeOK
  <1>4. TxIsPrefix'
    <2>1. lastSynced \in Nat /\ h.end \in Nat /\ lastSynced <= h.end
      BY <1>2 DEF IInv, TypeOK, Blocks
    <2>2. /\ Upto(h.end) = Upto(lastSynced) \cup h.logs
          /\ \A i \in Upto(lastSynced), j \in h.logs : i < j
      BY <1>2, <2>1, UptoSplits
    <2>3. \A i \in Upto(lastSynced) : i \notin h.logs
      <3>1. \A i \in Upto(lastSynced) : i \in Nat
        BY PositionsAreNat DEF Upto
      <3> QED BY <2>2, <3>1
    <2>4. Upto(h.end) \ h.logs = Upto(lastSynced)
      BY <2>2, <2>3
    <2> QED BY <1>1, <1>2, <2>2, <2>4 DEF IInv, TxIsPrefix, ViewIsChainPrefix, Decoded
  <1>5. ViewIsChainPrefix' /\ Decoded' /\ OkMeansCaughtUp'
    BY <1>1 DEF IInv, ViewIsChainPrefix, Decoded, OkMeansCaughtUp
  <1>6. FetcherInRange'
    BY <1>1 DEF IInv, FetcherInRange, InCall
  <1>7. PipelineIsContiguous' /\ ClosedMeansSent'
    <2>1. Taken' = Head(batchCh).end
      BY <1>1 DEF Taken
    <2> QED BY <1>1, <2>1, TakeHead
  <1> QED BY <1>3, <1>4, <1>5, <1>6, <1>7 DEF IInv

\* The next log of a nonempty set is its least position.
LEMMA NextLogIsLeast ==
    ASSUME NEW S \in SUBSET Positions, S # {}
    PROVE  NextLog(S) \in S /\ \A j \in S : NextLog(S) <= j
  <1>1. S \subseteq Nat
    BY PositionsAreNat
  <1>2. \E i \in S : \A j \in S : i <= j
    BY <1>1, LeastNatural
  <1> QED BY <1>2 DEF NextLog

\* Applying the next log extends the prefix the transaction holds.
LEMMA ApplyLogPreserves ==
    ASSUME IInv, ApplyLog
    PROVE  IInv'
  <1> DEFINE i == NextLog(todo)
             done == Upto(txEnd) \ todo
  <1>1. /\ pc = "tx" /\ pc' = "tx" /\ todo # {} /\ Log[i].kind # "Malformed"
        /\ txView' = ProcessLog(txView, i) /\ todo' = todo \ {i}
        /\ UNCHANGED <<view, lastSynced, finalized, batchSize, booting, target, result,
                       txEnd, fpc, fcur, fend, batchCh, ctxDone>>
    BY DEF ApplyLog, db, fetch
  <1>2. todo \in SUBSET Positions /\ i \in todo /\ \A j \in todo : i <= j
    BY <1>1, NextLogIsLeast DEF IInv, TypeOK
  <1>3. /\ todo \subseteq Upto(txEnd)
        /\ \A m \in done, j \in todo : m < j
        /\ txView = ViewOf(done)
        /\ \A m \in done : Log[m].kind # "Malformed"
    BY <1>1 DEF IInv, TxIsPrefix
  <1>4. done \in SUBSET Positions
    BY DEF Upto
  <1>5. (Upto(txEnd) \ todo)' = done \cup {i}
    BY <1>1, <1>2, <1>3
  <1>6. txView' = ViewOf(done \cup {i})
    <2>1. i \in Positions /\ \A m \in done : m < i
      BY <1>2, <1>3
    <2> HIDE DEF i, done
    <2> QED BY <1>1, <1>3, <1>4, <2>1, ProcessLogExtends
  <1>7. \A m \in done \cup {i}, j \in todo \ {i} : m < j
    <2>1. \A j \in todo : j \in Nat
      BY <1>2, PositionsAreNat
    <2>2. \A j \in todo \ {i} : i < j
      <3> HIDE DEF i
      <3> QED BY <1>2, <2>1
    <2> HIDE DEF i, done
    <2> QED BY <1>3, <2>2
  <1>8. TypeOK'
    <2>1. txView' \in View
      BY <1>2, <1>4, <1>6, ViewOfIsView
    <2> QED BY <1>1, <1>2, <2>1 DEF IInv, TypeOK
  <1>9. TxIsPrefix'
    <2> HIDE DEF i, done
    <2>1. todo' \subseteq Upto(txEnd')
      BY <1>1, <1>3
    <2>2. \A m \in done \cup {i} : Log[m].kind # "Malformed"
      BY <1>1, <1>3
    <2>3. lastSynced' < txEnd' /\ txEnd' <= target'
      BY <1>1 DEF IInv, TxIsPrefix
    <2> QED BY <1>1, <1>5, <1>6, <1>7, <2>1, <2>2, <2>3 DEF TxIsPrefix
  <1>10. ViewIsChainPrefix' /\ Decoded' /\ OkMeansCaughtUp' /\ FetcherInRange'
    BY <1>1 DEF IInv, ViewIsChainPrefix, Decoded, OkMeansCaughtUp, FetcherInRange, InCall
  <1>11. PipelineIsContiguous' /\ ClosedMeansSent'
    BY <1>1 DEF IInv, PipelineIsContiguous, ClosedMeansSent, BatchStart, Taken, InCall
  <1> QED BY <1>8, <1>9, <1>10, <1>11 DEF IInv

\* The commit makes the finished prefix and its end the database's.
LEMMA CommitTxPreserves ==
    ASSUME IInv, CommitTx
    PROVE  IInv'
  <1>1. /\ pc = "tx" /\ pc' = "loop" /\ todo = {}
        /\ view' = txView /\ lastSynced' = txEnd
        /\ txView' = EmptyView /\ txEnd' = 0 /\ todo' = {}
        /\ UNCHANGED <<finalized, batchSize, booting, target, result, fpc, fcur, fend,
                       batchCh, ctxDone>>
    BY DEF CommitTx, fetch
  <1>2. TypeOK'
    BY <1>1, EmptyViewIsView, BlockAssumption DEF IInv, TypeOK, Blocks
  <1>3. ViewIsChainPrefix' /\ Decoded'
    <2>1. Upto(txEnd) \ todo = Upto(txEnd)
      BY <1>1
    <2> QED BY <1>1, <2>1 DEF IInv, TxIsPrefix, ViewIsChainPrefix, Decoded
  <1>4. TxIsPrefix' /\ OkMeansCaughtUp'
    BY <1>1 DEF TxIsPrefix, OkMeansCaughtUp
  <1>5. FetcherInRange'
    BY <1>1 DEF IInv, TxIsPrefix, FetcherInRange, InCall
  <1>6. PipelineIsContiguous' /\ ClosedMeansSent'
    <2>1. Taken' = Taken
      BY <1>1 DEF Taken
    <2> QED BY <1>1, <2>1 DEF IInv, PipelineIsContiguous, ClosedMeansSent, BatchStart, InCall
  <1> QED BY <1>2, <1>3, <1>4, <1>5, <1>6 DEF IInv

\* What holds of the batches while the fetcher may still send: no error yet.
LEMMA SentBatch ==
    ASSUME IInv, InCall, fpc # "closed", NEW k \in 1..Len(batchCh)
    PROVE  /\ ~batchCh[k].err
           /\ BatchStart(k) <= batchCh[k].end
           /\ batchCh[k].end <= target
           /\ batchCh[k].logs = LogsIn(BatchStart(k), batchCh[k].end)
  BY DEF IInv, PipelineIsContiguous

\* A batch or an error sent after the others keeps the channel contiguous.
LEMMA SendKeepsPipeline ==
    ASSUME IInv, InCall, fpc # "closed", NEW e \in BatchResult,
           batchCh' = Append(batchCh, e), UNCHANGED <<pc, lastSynced, txEnd, target>>,
           \/ e.err /\ fpc' = "closed"
           \/ /\ ~e.err
              /\ BatchStart(Len(batchCh) + 1) <= e.end /\ e.end <= target
              /\ e.logs = LogsIn(BatchStart(Len(batchCh) + 1), e.end)
              /\ fpc' = "senderr" \/ (fpc' = "get" /\ fcur' = e.end + 1)
    PROVE  PipelineIsContiguous' /\ (fpc' = "closed" => ClosedMeansSent')
  <1>1. batchCh \in Seq(BatchResult)
    BY DEF IInv, TypeOK
  <1>2. PICK n \in Nat : n = Len(batchCh)
    BY <1>1
  <1>3. /\ Len(batchCh') = n + 1
        /\ \A k \in 1..n : batchCh'[k] = batchCh[k]
        /\ batchCh'[n + 1] = e
    BY <1>1, <1>2, AppendFacts
  <1>4. Taken' = Taken
    BY DEF Taken
  <1>5. ASSUME NEW k \in 1..(n + 1) PROVE BatchStart(k)' = BatchStart(k)
    <2>1. CASE k = 1
      BY <1>4, <2>1 DEF BatchStart
    <2>2. CASE k # 1
      <3>1. k - 1 \in 1..n
        BY <2>2
      <3> QED BY <1>3, <2>2, <3>1 DEF BatchStart
    <2> QED BY <2>1, <2>2
  <1>6. ASSUME NEW k \in 1..Len(batchCh')
        PROVE  \/ batchCh'[k].err /\ k = Len(batchCh') /\ fpc' = "closed"
               \/ /\ ~batchCh'[k].err
                  /\ BatchStart(k)' <= batchCh'[k].end
                  /\ batchCh'[k].end <= target'
                  /\ batchCh'[k].logs = LogsIn(BatchStart(k)', batchCh'[k].end)
    <2>1. k \in 1..(n + 1)
      BY <1>3
    <2>2. CASE k = n + 1
      BY <1>2, <1>3, <1>5, <2>1, <2>2
    <2>3. CASE k # n + 1
      <3>1. k \in 1..n /\ batchCh'[k] = batchCh[k]
        BY <1>3, <2>1, <2>3
      <3> QED BY <1>2, <1>5, <2>1, <3>1, SentBatch
    <2> QED BY <2>2, <2>3
  <1>7. fpc' = "get" => fcur' = BatchStart(Len(batchCh) + 1)'
    <2>1. BatchStart(n + 2)' = e.end + 1
      BY <1>3 DEF BatchStart
    <2>2. Len(batchCh') + 1 = n + 2
      BY <1>3
    <2> QED BY <2>1, <2>2 DEF BatchStart
  <1>8. PipelineIsContiguous'
    BY <1>6, <1>7 DEF PipelineIsContiguous
  <1>9. fpc' = "closed" => ClosedMeansSent'
    <2> SUFFICES ASSUME fpc' = "closed" PROVE ClosedMeansSent'
      OBVIOUS
    <2>1. e.err
      OBVIOUS
    <2>2. Len(<<>>) = 0
      OBVIOUS
    <2>3. batchCh' # <<>> /\ batchCh'[Len(batchCh')] = e
      BY <1>3, <2>2
    <2> QED BY <2>1, <2>3 DEF ClosedMeansSent
  <1> QED BY <1>8, <1>9

\* The fetcher's steps.
LEMMA FetcherPreserves ==
    ASSUME IInv, Fetcher
    PROVE  IInv'
  <1>1. /\ UNCHANGED <<view, lastSynced, finalized, pc, booting, target, result, txView,
                       txEnd, todo, ctxDone>>
        /\ fpc # "closed"
    BY DEF Fetcher, NextRange, FetchOk, FetchShrink, FetchFails, SendBatch, AbortSend,
           SendError, db, proc
  <1>2. ViewIsChainPrefix' /\ Decoded' /\ TxIsPrefix' /\ OkMeansCaughtUp'
    BY <1>1 DEF IInv, ViewIsChainPrefix, Decoded, TxIsPrefix, OkMeansCaughtUp
  <1>3. /\ fcur \in 0..(MaxBlock + 1) /\ fend \in 0..MaxBlock /\ target \in 0..MaxBlock
        /\ batchSize \in MinBatch..MaxBatch /\ batchSize \in Nat /\ batchSize >= 1
        /\ MaxBlock \in Nat
        /\ batchCh \in Seq(BatchResult) /\ Len(batchCh) <= PrefetchBuffer
    BY BlockAssumption, BatchAssumption DEF IInv, TypeOK, Blocks
  <1>4. SUFFICES /\ batchSize' \in MinBatch..MaxBatch
                 /\ fpc' \in {"get", "rpc", "send", "senderr", "closed"}
                 /\ fcur' \in 0..(MaxBlock + 1) /\ fend' \in Blocks
                 /\ batchCh' \in Seq(BatchResult) /\ Len(batchCh') <= PrefetchBuffer
                 /\ InCall => FetcherInRange' /\ PipelineIsContiguous' /\ ClosedMeansSent'
    <2>1. TypeOK'
      BY <1>1, <1>4 DEF IInv, TypeOK
    <2>2. ~InCall => FetcherInRange' /\ PipelineIsContiguous' /\ ClosedMeansSent'
      BY <1>1 DEF InCall, FetcherInRange, PipelineIsContiguous, ClosedMeansSent
    <2> QED BY <1>2, <1>4, <2>1, <2>2 DEF IInv
  <1>5. CASE NextRange
    <2>1. UNCHANGED <<batchSize, fcur, batchCh>> /\ fpc = "get"
      BY <1>5 DEF NextRange
    <2>2. CASE fcur <= target
      <3>1. fpc' = "rpc" /\ fend' = MinOf(fcur + batchSize - 1, target)
        BY <1>5, <2>2 DEF NextRange
      <3>2. fcur <= fend' /\ fend' <= target /\ fend' \in Blocks
        BY <1>3, <2>2, <3>1 DEF MinOf, Blocks
      <3>3. InCall => FetcherInRange' /\ PipelineIsContiguous' /\ ClosedMeansSent'
        BY <1>1, <2>1, <3>1, <3>2
        DEF IInv, FetcherInRange, PipelineIsContiguous, ClosedMeansSent, BatchStart, Taken, InCall
      <3> QED BY <1>3, <2>1, <3>1, <3>2, <3>3
    <2>3. CASE ~(fcur <= target)
      <3>1. fpc' = "closed" /\ UNCHANGED fend
        BY <1>5, <2>3 DEF NextRange
      <3>2. InCall => BatchStart(Len(batchCh) + 1) > target
        BY <1>3, <2>1, <2>3 DEF IInv, PipelineIsContiguous
      <3>3. InCall => FetcherInRange' /\ PipelineIsContiguous' /\ ClosedMeansSent'
        BY <1>1, <2>1, <3>1, <3>2
        DEF IInv, FetcherInRange, PipelineIsContiguous, ClosedMeansSent, BatchStart, Taken, InCall
      <3> QED BY <1>3, <2>1, <3>1, <3>3 DEF Blocks
    <2> QED BY <2>2, <2>3
  <1>6. CASE FetchOk \/ FetchShrink \/ FetchFails \/ AbortSend
    <2>1. /\ UNCHANGED <<fcur, fend, batchCh>>
          /\ \/ fpc = "rpc" /\ fpc' \in {"send", "get", "senderr"}
             \/ fpc = "send" /\ fpc' = "senderr"
          /\ batchSize' \in {batchSize, Increase(batchSize), Decrease(batchSize)}
      BY <1>6 DEF FetchOk, FetchShrink, FetchFails, AbortSend
    <2>2. batchSize' \in MinBatch..MaxBatch
      BY <1>3, <2>1, BatchSizeStays
    <2>3. InCall => FetcherInRange' /\ PipelineIsContiguous' /\ ClosedMeansSent'
      BY <1>1, <2>1
      DEF IInv, FetcherInRange, PipelineIsContiguous, ClosedMeansSent, BatchStart, Taken, InCall
    <2> QED BY <1>3, <2>1, <2>2, <2>3 DEF Blocks
  <1>7. CASE SendBatch
    <2> DEFINE e == Batch(fend, LogsIn(fcur, fend))
    <2>1. /\ fpc = "send" /\ Len(batchCh) < PrefetchBuffer /\ batchCh' = Append(batchCh, e)
          /\ UNCHANGED <<batchSize, fend>>
          /\ \/ fpc' = "senderr" /\ fcur' = fcur
             \/ fpc' = "get" /\ fcur' = fend + 1
      BY <1>7 DEF SendBatch
    <2>2. e \in BatchResult /\ ~e.err /\ e.end = fend /\ e.logs = LogsIn(fcur, fend)
      BY <1>3 DEF Batch, BatchResult, Blocks, LogsIn
    <2> HIDE DEF e
    <2>3. batchCh' \in Seq(BatchResult) /\ Len(batchCh') <= PrefetchBuffer
      BY <1>3, <2>1, <2>2, AppendFacts DEF PrefetchBuffer
    <2>4. fcur' \in 0..(MaxBlock + 1)
      BY <1>3, <2>1
    <2>5. ASSUME InCall PROVE FetcherInRange' /\ PipelineIsContiguous' /\ ClosedMeansSent'
      <3>1. fcur <= fend /\ fend <= target /\ fcur = BatchStart(Len(batchCh) + 1)
        BY <2>1, <2>5 DEF IInv, FetcherInRange, PipelineIsContiguous
      <3>2. PipelineIsContiguous'
        BY <1>1, <2>1, <2>2, <2>5, <3>1, SendKeepsPipeline
      <3>3. ClosedMeansSent'
        BY <2>1 DEF ClosedMeansSent
      <3>4. FetcherInRange'
        BY <1>1, <1>3, <2>1, <2>5, <3>1 DEF IInv, FetcherInRange, InCall
      <3> QED BY <3>2, <3>3, <3>4
    <2> QED BY <1>3, <2>1, <2>3, <2>4, <2>5 DEF Blocks
  <1>8. CASE SendError
    <2>1. /\ fpc = "senderr" /\ fpc' = "closed" /\ UNCHANGED <<batchSize, fcur, fend>>
          /\ \/ Len(batchCh) < PrefetchBuffer /\ batchCh' = Append(batchCh, ErrResult)
             \/ FetchCancelled /\ UNCHANGED batchCh
      BY <1>8 DEF SendError
    <2>2. ErrResult \in BatchResult /\ ErrResult.err
      BY <1>3 DEF ErrResult, BatchResult, Blocks
    <2>3. InCall => FetcherInRange'
      BY <1>1, <2>1 DEF IInv, FetcherInRange, InCall
    <2>4. CASE Len(batchCh) < PrefetchBuffer /\ batchCh' = Append(batchCh, ErrResult)
      <3>1. batchCh' \in Seq(BatchResult) /\ Len(batchCh') <= PrefetchBuffer
        BY <1>3, <2>2, <2>4, AppendFacts DEF PrefetchBuffer
      <3>2. InCall => PipelineIsContiguous' /\ ClosedMeansSent'
        BY <1>1, <2>1, <2>2, <2>4, SendKeepsPipeline
      <3> QED BY <1>3, <2>1, <2>3, <3>1, <3>2 DEF Blocks
    <2>5. CASE FetchCancelled /\ UNCHANGED batchCh
      <3>1. InCall => PipelineIsContiguous'
        BY <1>1, <2>1, <2>5 DEF IInv, PipelineIsContiguous, BatchStart, Taken, InCall
      <3>2. InCall => ClosedMeansSent'
        BY <1>1, <2>5 DEF FetchCancelled, ClosedMeansSent
      <3> QED BY <1>3, <2>1, <2>3, <2>5, <3>1, <3>2 DEF Blocks
    <2> QED BY <2>1, <2>4, <2>5
  <1> QED BY <1>5, <1>6, <1>7, <1>8 DEF Fetcher

-----------------------------------------------------------------------------
(* The theorems.                                                           *)

\* The initial states satisfy the invariant.
LEMMA InitEstablishes == Init => IInv
  <1> SUFFICES ASSUME Init PROVE IInv
    OBVIOUS
  <1>1. 0 \in Blocks /\ 0 \in 0..(MaxBlock + 1) /\ finalized \in Blocks
    BY BlockAssumption DEF Init, Blocks
  <1>2. batchCh \in Seq(BatchResult) /\ Len(batchCh) <= PrefetchBuffer
    BY DEF Init, PrefetchBuffer
  <1>3. batchSize \in MinBatch..MaxBatch
    BY BatchAssumption DEF Init
  <1>4. TypeOK
    BY <1>1, <1>2, <1>3, EmptyViewIsView DEF Init, TypeOK
  <1>5. Upto(0) = {}
    BY NothingBeforeDeploy, BlockAssumption
  <1>6. ViewIsChainPrefix /\ Decoded
    BY <1>5, ViewOfNothing DEF Init, ViewIsChainPrefix, Decoded
  <1>7. /\ TxIsPrefix /\ FetcherInRange /\ PipelineIsContiguous /\ ClosedMeansSent
        /\ OkMeansCaughtUp
    BY DEF Init, TxIsPrefix, FetcherInRange, PipelineIsContiguous, ClosedMeansSent,
           OkMeansCaughtUp, InCall
  <1> QED BY <1>4, <1>6, <1>7 DEF IInv

\* Every step preserves the invariant: one case per action.
LEMMA NextPreserves == IInv /\ [Next]_vars => IInv'
  <1> SUFFICES ASSUME IInv, [Next]_vars PROVE IInv'
    OBVIOUS
  <1>1. CASE Environment \/ Exit
    BY <1>1, EnvironmentPreserves
  <1>2. CASE SetInitialBlock
    BY <1>2, SetInitialBlockPreserves
  <1>3. CASE SyncToFinalized
    <2>1. finalized \in Blocks
      BY DEF IInv, TypeOK
    <2> QED BY <1>3, <2>1, BeginSyncPreserves DEF SyncToFinalized
  <1>4. CASE SyncToBlock
    <2>1. PICK b \in DeployBlock..finalized : BeginSync(b)
      BY <1>4 DEF SyncToBlock
    <2>2. b \in Blocks
      BY BlockAssumption DEF IInv, TypeOK, Blocks
    <2> QED BY <1>4, <2>1, <2>2, BeginSyncPreserves DEF SyncToBlock
  <1>5. CASE CallFails \/ ReceiveError \/ RejectLog \/ DbFails \/ Drained
    BY <1>5, ReturningPreserves
  <1>6. CASE ReceiveEmpty
    BY <1>6, ReceiveEmptyPreserves
  <1>7. CASE BeginTx
    BY <1>7, BeginTxPreserves
  <1>8. CASE ApplyLog
    BY <1>8, ApplyLogPreserves
  <1>9. CASE CommitTx
    BY <1>9, CommitTxPreserves
  <1>10. CASE Fetcher
    BY <1>10, FetcherPreserves
  <1>11. CASE UNCHANGED vars
    <2>1. /\ TypeOK' /\ ViewIsChainPrefix' /\ Decoded' /\ TxIsPrefix' /\ FetcherInRange'
          /\ OkMeansCaughtUp'
      BY <1>11 DEF IInv, vars, TypeOK, ViewIsChainPrefix, Decoded, TxIsPrefix,
                   FetcherInRange, OkMeansCaughtUp, InCall
    <2>2. PipelineIsContiguous' /\ ClosedMeansSent'
      BY <1>11 DEF IInv, vars, PipelineIsContiguous, ClosedMeansSent, BatchStart, Taken, InCall
    <2> QED BY <2>1, <2>2 DEF IInv
  <1> QED BY <1>1, <1>2, <1>3, <1>4, <1>5, <1>6, <1>7, <1>8, <1>9, <1>10, <1>11
          DEF Next, Processor

\* IInv is an invariant of the syncer.
THEOREM Invariance == Spec => []IInv
  BY InitEstablishes, NextPreserves, PTL DEF Spec

\* Every variable keeps its type, the batch size its limits.
THEOREM TypeCorrect == Spec => []TypeOK
  <1>1. IInv => TypeOK
    BY DEF IInv
  <1> QED BY <1>1, Invariance, PTL

\* The committed tables are the chain's events up to last_synced_block, for
\* every log, batch size and failure.
THEOREM ViewCorrect == Spec => []ViewIsChainPrefix
  <1>1. IInv => ViewIsChainPrefix
    BY DEF IInv
  <1> QED BY <1>1, Invariance, PTL

\* SyncToBlock returns nil only at its target.
THEOREM OkCorrect == Spec => []OkMeansCaughtUp
  <1>1. IInv => OkMeansCaughtUp
    BY DEF IInv
  <1> QED BY <1>1, Invariance, PTL

\* The prefetch pipeline has neither gap nor overlap.
THEOREM PipelineCorrect == Spec => []PipelineIsContiguous
  <1>1. IInv => PipelineIsContiguous
    BY DEF IInv
  <1> QED BY <1>1, Invariance, PTL

-----------------------------------------------------------------------------
(* Refinement of MaterializedView.                                         *)

\* The abstract specification reads the same log.
LEMMA SameLog ==
    /\ Abstract!EmptyView = EmptyView
    /\ \A b : Abstract!Upto(b) = Upto(b)
    /\ \A S : Abstract!ViewOf(S) = ViewOf(S)
  <1>1. Abstract!EmptyView = EmptyView
    BY DEF EmptyView, Abstract!EmptyView
  <1>2. \A b : Abstract!Upto(b) = Upto(b)
    BY DEF Upto, Positions, Abstract!Upto, Abstract!Positions
  <1>3. ASSUME NEW S PROVE Abstract!ViewOf(S) = ViewOf(S)
    BY Zenon
    DEF ViewOf, ClusterAfter, RegisteredAfter, Snapshots, Latest, Adds, Removes,
        HandledKinds, ClusterKinds,
        Abstract!ViewOf, Abstract!ClusterAfter, Abstract!RegisteredAfter,
        Abstract!Snapshots, Abstract!Latest, Abstract!Adds, Abstract!Removes,
        Abstract!HandledKinds, Abstract!ClusterKinds
  <1> QED BY <1>1, <1>2, <1>3

\* Every step is an abstract step or leaves the tables and the cursor alone.
LEMMA StepSimulation ==
    IInv /\ [Next]_vars => [Abstract!Next]_(Abstract!vars)
  <1> SUFFICES ASSUME IInv, [Next]_vars, ~UNCHANGED db PROVE Abstract!Next
    BY DEF Abstract!vars, db
  <1>1. ViewIsChainPrefix' /\ Decoded' /\ lastSynced' \in 0..MaxBlock /\ lastSynced \in 0..MaxBlock
    BY NextPreserves DEF IInv, TypeOK, Blocks
  <1>2. CASE Start
    BY <1>2, SameLog DEF Start, Abstract!Next, Abstract!Clear
  <1>3. CASE lastSynced' > lastSynced
    BY <1>1, <1>3, SameLog
    DEF ViewIsChainPrefix, Decoded, Abstract!Next, Abstract!Advance
  <1>4. CASE SetInitialBlock
    <2>1. lastSynced' > lastSynced
      BY <1>1, <1>4, BlockAssumption DEF SetInitialBlock, db
    <2> QED BY <1>3, <2>1
  <1>5. CASE ReceiveEmpty
    <2>1. lastSynced' > lastSynced
      BY <1>1, <1>5, HeadBatch DEF ReceiveEmpty, Blocks
    <2> QED BY <1>3, <2>1
  <1>6. CASE CommitTx
    <2>1. lastSynced' > lastSynced
      BY <1>1, <1>6 DEF CommitTx, IInv, TxIsPrefix
    <2> QED BY <1>3, <2>1
  <1>7. UNCHANGED db \/ Start \/ SetInitialBlock \/ ReceiveEmpty \/ CommitTx
    BY DEF Next, Environment, Processor, Fetcher, Crash, CancelCtx, Finalize, OtherFetchLogs,
           SyncToFinalized, SyncToBlock, CallFails, ReceiveError, BeginTx, ApplyLog, RejectLog,
           DbFails, Drained, Exit, NextRange, FetchOk, FetchShrink, FetchFails, SendBatch,
           AbortSend, SendError, vars, db
  <1> QED BY <1>2, <1>4, <1>5, <1>6, <1>7

\* The syncer implements the materialised view: the cursor moves forward
\* together with the tables, never past an event that did not decode.
THEOREM Refinement == Spec => RefinesMaterializedView
  <1>1. Init => Abstract!Init
    BY SameLog DEF Init, Abstract!Init
  <1> QED BY <1>1, Invariance, StepSimulation, PTL DEF Spec, RefinesMaterializedView, Abstract!Spec

-----------------------------------------------------------------------------
(* The head snapshot (HeadState).                                          *)

(* The inductive invariant.                                                *)

\* The tables are those of the chain at the cursor: what MaterializedView
\* promises, as far as the clusters go.
TablesAtCursor ==
    \A c \in Clusters : tables.clusters[c] = ClusterAfter(Upto(cursor), c)

Building == {"head", "fetch", "apply", "done"}

\* The positions whose events are in the overlay.
Applied == IF hpc = "head" THEN Upto(from) ELSE Upto(cur - 1) \ unapplied

\* The overlay o has the row of the last snapshot of c among the positions S,
\* and none when there is no snapshot.
HasLast(o, S, c) ==
    IF Snapshots(S, c) = {} THEN c \notin DOMAIN o
    ELSE /\ c \in DOMAIN o
         /\ \E i \in Snapshots(S, c) : /\ \A j \in Snapshots(S, c) : j <= i
                                       /\ o[c] = Log[i].row

OverlayOfApplied == hpc \in Building => \A c \in requested : HasLast(overlay, Applied, c)

\* The logs still to be applied come after those that are; the batch in hand
\* is all that is between what was applied and the next block to fetch.
BatchInOrder ==
    /\ hpc # "apply" => unapplied = {}
    /\ unapplied \subseteq Upto(cur - 1)
    /\ \A i \in Upto(cur - 1) \ unapplied, j \in unapplied : i < j

\* How far the call is.
Progress ==
    /\ hpc = "fetch" => from < headNum /\ from < cur /\ cur <= headNum
    /\ hpc = "apply" => from < headNum /\ from < cur /\ cur <= headNum + 1
    /\ hpc = "done" => cur = OverlayBlock + 1

HeadInv == /\ HeadTypeOK /\ TablesAtCursor /\ OverlayOfApplied /\ BatchInOrder /\ Progress

-----------------------------------------------------------------------------
(* The log.                                                                *)

\* Positions are naturals, and their records have blocks, rows and kinds.
LEMMA LogFacts ==
    ASSUME NEW i \in Positions
    PROVE  /\ i \in Nat /\ i <= Len(Log)
           /\ Log[i].block \in Nat /\ DeployBlock <= Log[i].block
           /\ Log[i].kind \in Kinds /\ Log[i].cluster \in Clusters
           /\ Log[i].row \in Rows
  <1>1. i \in Nat /\ i <= Len(Log)
    BY LogAssumption DEF Positions
  <1> QED BY <1>1, LogEntry

\* A set of snapshots that is not empty has a last one.
LEMMA LastExists ==
    ASSUME NEW S \in SUBSET Positions, S # {}
    PROVE  \E i \in S : \A j \in S : j <= i
  BY LatestIsGreatest

\* Latest is that position.
LEMMA LatestIsLast ==
    ASSUME NEW S \in SUBSET Positions, NEW i \in S, \A j \in S : j <= i
    PROVE  Latest(S) = i
  <1>1. Latest(S) \in S /\ \A j \in S : j <= Latest(S)
    BY DEF Latest
  <1>2. i \in Nat /\ Latest(S) \in Nat
    BY <1>1, LogFacts
  <1>3. i <= Latest(S) /\ Latest(S) <= i
    BY <1>1
  <1> QED BY <1>2, <1>3

\* Hence the row the chain has for a cluster.
LEMMA ClusterAfterLast ==
    ASSUME NEW S \in SUBSET Positions, NEW c,
           NEW i \in Snapshots(S, c), \A j \in Snapshots(S, c) : j <= i
    PROVE  ClusterAfter(S, c) = Log[i].row
  <1>1. Snapshots(S, c) \in SUBSET Positions
    BY DEF Snapshots
  <1>2. Latest(Snapshots(S, c)) = i
    BY <1>1, LatestIsLast
  <1> QED BY <1>2 DEF ClusterAfter

\* The logs of a range come after those before it.
LEMMA RangeComesAfter ==
    ASSUME NEW a \in Nat \ {0}, NEW b \in Nat, a <= b
    PROVE  /\ Upto(b) \ LogsIn(a, b) = Upto(a - 1)
           /\ LogsIn(a, b) \subseteq Upto(b)
           /\ \A i \in Upto(a - 1), j \in LogsIn(a, b) : i < j
  <1>1. \A i \in Positions : Log[i].block \in Nat
    BY LogFacts
  <1>2. Upto(b) \ LogsIn(a, b) = Upto(a - 1) /\ LogsIn(a, b) \subseteq Upto(b)
    BY <1>1 DEF Upto, LogsIn
  <1>3. ASSUME NEW i \in Upto(a - 1), NEW j \in LogsIn(a, b) PROVE i < j
    <2>1. i \in Positions /\ j \in Positions /\ Log[i].block <= a - 1 /\ a <= Log[j].block
      BY DEF Upto, LogsIn
    <2>2. i \in Nat /\ j \in Nat
      BY <2>1, LogFacts
    <2>3. i # j /\ ~(j < i)
      BY <1>1, <2>1, LogAssumption DEF Positions
    <2> QED BY <2>2, <2>3
  <1> QED BY <1>2, <1>3

\* One step of the syncer leaves the tables at its new cursor.
LEMMA AdvanceTables ==
    ASSUME Syncer!Advance
    PROVE  TablesAtCursor' /\ cursor' \in 0..MaxBlock
  <1>1. PICK b \in 0..MaxBlock : cursor' = b /\ tables' = Syncer!ViewOf(Syncer!Upto(b))
    BY DEF Syncer!Advance
  <1>2. Syncer!Upto(b) = Upto(b)
    BY DEF Upto, Positions, Syncer!Upto, Syncer!Positions
  <1>3. ASSUME NEW c \in Clusters
        PROVE  Syncer!ViewOf(Upto(b)).clusters[c] = Syncer!ClusterAfter(Upto(b), c)
    BY DEF Syncer!ViewOf
  <1>4. ASSUME NEW c \in Clusters
        PROVE  Syncer!ClusterAfter(Upto(b), c) = ClusterAfter(Upto(b), c)
    BY Zenon
    DEF ClusterAfter, Snapshots, Latest, HandledKinds, ClusterKinds,
        Syncer!ClusterAfter, Syncer!Snapshots, Syncer!Latest, Syncer!HandledKinds,
        Syncer!ClusterKinds
  <1>5. TablesAtCursor'
    <2> SUFFICES ASSUME NEW c \in Clusters
                 PROVE  tables'.clusters[c] = ClusterAfter(Upto(b), c)
      BY <1>1 DEF TablesAtCursor
    <2> QED BY <1>1, <1>2, <1>3, <1>4
  <1> QED BY <1>1, <1>5

-----------------------------------------------------------------------------
(* The invariant at the start, and what follows from it.                   *)

LEMMA HeadInitStep == HeadInit => HeadInv
  <1> SUFFICES ASSUME HeadInit PROVE HeadInv
    OBVIOUS
  <1>1. DeployBlock \in Nat \ {0} /\ MaxBlock \in Nat /\ DeployBlock <= MaxBlock
    BY BlockAssumption
  <1>2. HeadTypeOK
    BY <1>1 DEF HeadInit, HeadTypeOK, Syncer!Init
  <1>3. TablesAtCursor
    <2>1. tables = EmptyView /\ cursor = 0
      BY DEF HeadInit, Syncer!Init, EmptyView, Syncer!EmptyView
    <2>2. Upto(0) = {}
      BY <1>1, LogFacts DEF Upto
    <2>3. \A c \in Clusters : ClusterAfter({}, c) = NoRow
      BY DEF ClusterAfter, Snapshots
    <2> QED BY <2>1, <2>2, <2>3 DEF TablesAtCursor, EmptyView
  <1> QED BY <1>2, <1>3 DEF HeadInit, HeadInv, OverlayOfApplied, BatchInOrder, Progress, Building

\* An overlay that has the last snapshot has the chain's row.
LEMMA HasLastMeans ==
    ASSUME NEW S \in SUBSET Positions, NEW c, HasLast(overlay, S, c)
    PROVE  ClusterAfter(S, c) = IF c \in DOMAIN overlay THEN overlay[c] ELSE NoRow
  <1>1. CASE Snapshots(S, c) = {}
    BY <1>1 DEF HasLast, ClusterAfter
  <1>2. CASE Snapshots(S, c) # {}
    <2>1. PICK i \in Snapshots(S, c) : /\ \A j \in Snapshots(S, c) : j <= i
                                       /\ overlay[c] = Log[i].row
      BY <1>2 DEF HasLast
    <2>2. ClusterAfter(S, c) = Log[i].row
      BY <2>1, ClusterAfterLast
    <2> QED BY <1>2, <2>1, <2>2 DEF HasLast
  <1> QED BY <1>1, <1>2

LEMMA HeadInvOverlay == HeadInv => OverlayIsHeadState
  <1> SUFFICES ASSUME HeadInv, hpc = "done" PROVE
          /\ DOMAIN overlay \subseteq requested
          /\ \A c \in requested :
                ClusterAfter(Upto(OverlayBlock), c) =
                    IF c \in DOMAIN overlay THEN overlay[c] ELSE NoRow
    BY DEF OverlayIsHeadState
  <1>1. cur = OverlayBlock + 1 /\ OverlayBlock \in Nat /\ unapplied = {}
    BY DEF HeadInv, Progress, BatchInOrder, HeadTypeOK, OverlayBlock
  <1>2. Applied = Upto(OverlayBlock)
    <2>1. cur - 1 = OverlayBlock
      BY <1>1
    <2> QED BY <1>1, <2>1 DEF Applied
  <1>3. ASSUME NEW c \in requested
        PROVE  ClusterAfter(Upto(OverlayBlock), c) =
                   IF c \in DOMAIN overlay THEN overlay[c] ELSE NoRow
    <2>1. HasLast(overlay, Upto(OverlayBlock), c)
      BY <1>2 DEF HeadInv, OverlayOfApplied, Building
    <2>2. Upto(OverlayBlock) \in SUBSET Positions
      BY DEF Upto
    <2> QED BY <2>1, <2>2, HasLastMeans
  <1> QED BY <1>3 DEF HeadInv, HeadTypeOK

-----------------------------------------------------------------------------
(* The chain and the syncer leave the call alone.                          *)

LEMMA HeadEnvironmentStep ==
    ASSUME HeadInv, NewBlock \/ FinalizeBlock \/ Sync PROVE HeadInv'
  <1>1. UNCHANGED <<hpc, requested, overlay, from, headNum, cur, unapplied>>
    BY DEF NewBlock, FinalizeBlock, Sync, call
  <1>2. head' \in DeployBlock..MaxBlock /\ finalBlock' \in DeployBlock..MaxBlock
    BY BlockAssumption DEF HeadInv, HeadTypeOK, NewBlock, FinalizeBlock, Sync, chain
  <1>3. TablesAtCursor' /\ cursor' \in 0..MaxBlock
    <2>1. CASE Sync
      BY <2>1, AdvanceTables DEF Sync
    <2>2. CASE UNCHANGED <<tables, cursor>>
      BY <2>2 DEF HeadInv, TablesAtCursor, HeadTypeOK
    <2> QED BY <2>1, <2>2 DEF NewBlock, FinalizeBlock
  <1>4. HeadTypeOK'
    BY <1>1, <1>2, <1>3 DEF HeadInv, HeadTypeOK
  <1>5. OverlayOfApplied' /\ BatchInOrder' /\ Progress'
    BY <1>1 DEF HeadInv, OverlayOfApplied, Applied, HasLast, BatchInOrder, Progress,
                OverlayBlock
  <1> QED BY <1>3, <1>4, <1>5 DEF HeadInv

-----------------------------------------------------------------------------
(* The call.                                                               *)

\* The steps of the call leave the tables and the chain alone.
LEMMA CallOnly ==
    ASSUME HeadInv, UNCHANGED <<tables, cursor, chain>>,
           hpc' \in {"idle", "head", "fetch", "apply", "done", "error"},
           requested' \subseteq Clusters, DOMAIN overlay' \subseteq requested',
           from' \in 0..MaxBlock, headNum' \in 0..MaxBlock, cur' \in 0..(MaxBlock + 1),
           unapplied' \subseteq Positions, OverlayOfApplied', BatchInOrder', Progress'
    PROVE  HeadInv'
  <1>1. HeadTypeOK'
    BY DEF HeadInv, HeadTypeOK, chain
  <1>2. TablesAtCursor'
    BY DEF HeadInv, TablesAtCursor
  <1> QED BY <1>1, <1>2 DEF HeadInv

\* Rows and cursor, read together, are of one block.
LEMMA GetFinalizedClustersStep ==
    ASSUME HeadInv, GetFinalizedClusters PROVE HeadInv'
  <1>1. /\ UNCHANGED <<tables, cursor, chain, headNum, cur, unapplied>>
        /\ hpc = "idle" /\ hpc' = "head" /\ from' = cursor
        /\ requested' \subseteq Clusters
        /\ overlay' = [c \in {c \in requested' : tables.clusters[c] # NoRow} |->
                           tables.clusters[c]]
    BY DEF GetFinalizedClusters, RowsOf
  <1>2. unapplied = {} /\ cursor \in 0..MaxBlock
    BY <1>1 DEF HeadInv, BatchInOrder, HeadTypeOK
  <1>3. OverlayOfApplied'
    <2> DEFINE S == Upto(cursor)
    <2>1. Applied' = S
      BY <1>1 DEF Applied
    <2>2. S \in SUBSET Positions
      BY DEF Upto
    <2> HIDE DEF S
    <2>3. ASSUME NEW c \in requested' PROVE HasLast(overlay', S, c)
      <3>1. tables.clusters[c] = ClusterAfter(S, c) /\ c \in Clusters
        BY <1>1 DEF HeadInv, TablesAtCursor, S
      <3>2. CASE Snapshots(S, c) = {}
        <4>1. tables.clusters[c] = NoRow
          BY <3>1, <3>2 DEF ClusterAfter
        <4>2. c \notin DOMAIN overlay'
          BY <1>1, <4>1
        <4> QED BY <1>1, <3>2, <4>2 DEF HasLast, S
      <3>3. CASE Snapshots(S, c) # {}
        <4>1. Snapshots(S, c) \in SUBSET Positions
          BY <2>2 DEF Snapshots
        <4>2. PICK i \in Snapshots(S, c) : \A j \in Snapshots(S, c) : j <= i
          BY <3>3, <4>1, LastExists
        <4>3. tables.clusters[c] = Log[i].row
          BY <2>2, <3>1, <4>2, ClusterAfterLast
        <4>4. Log[i].row # NoRow
          <5>1. Log[i].row \in Rows
            BY <4>1, <4>2, LogFacts
          <5> QED BY <5>1, RowAssumption
        <4>5. c \in DOMAIN overlay' /\ overlay'[c] = Log[i].row
          BY <1>1, <4>3, <4>4
        <4> QED BY <1>1, <4>2, <4>5 DEF HasLast, S
      <3> QED BY <3>2, <3>3
    <2> QED BY <1>1, <2>1, <2>3 DEF OverlayOfApplied, HasLast, S
  <1>4. BatchInOrder' /\ Progress'
    BY <1>1, <1>2 DEF HeadInv, BatchInOrder, Progress
  <1>5. DOMAIN overlay' \subseteq requested'
    BY <1>1
  <1>6. /\ hpc' \in {"idle", "head", "fetch", "apply", "done", "error"}
        /\ from' \in 0..MaxBlock /\ headNum' \in 0..MaxBlock
        /\ cur' \in 0..(MaxBlock + 1) /\ unapplied' \subseteq Positions
    BY <1>1, <1>2 DEF HeadInv, HeadTypeOK
  <1> QED BY <1>1, <1>3, <1>4, <1>5, <1>6, CallOnly

LEMMA GetHeadBlockStep ==
    ASSUME HeadInv, GetHeadBlock PROVE HeadInv'
  <1>1. /\ UNCHANGED <<tables, cursor, chain, requested, overlay, from, unapplied>>
        /\ hpc = "head" /\ headNum' \in DeployBlock..head /\ cur' = from + 1
        /\ hpc' = IF from >= headNum' THEN "done" ELSE "fetch"
    BY DEF GetHeadBlock
  <1>2. /\ from \in 0..MaxBlock /\ head \in DeployBlock..MaxBlock
        /\ MaxBlock \in Nat /\ DeployBlock \in Nat /\ unapplied = {}
    BY <1>1, BlockAssumption DEF HeadInv, HeadTypeOK, BatchInOrder
  <1>3. /\ headNum' \in 0..MaxBlock /\ cur' \in 0..(MaxBlock + 1) /\ cur' - 1 = from
        /\ hpc' \in {"done", "fetch"}
    BY <1>1, <1>2
  <1>4. OverlayOfApplied'
    <2>1. Applied = Upto(from) /\ Applied' = Upto(from)
      BY <1>1, <1>2, <1>3 DEF Applied
    <2>2. \A c \in requested : HasLast(overlay, Upto(from), c)
      BY <1>1, <2>1 DEF HeadInv, OverlayOfApplied, Building
    <2> QED BY <1>1, <2>1, <2>2 DEF OverlayOfApplied, HasLast
  <1>5. BatchInOrder'
    BY <1>1, <1>2, <1>3 DEF BatchInOrder
  <1>6. Progress'
    BY <1>1, <1>2, <1>3 DEF Progress, OverlayBlock
  <1> QED BY <1>1, <1>2, <1>3, <1>4, <1>5, <1>6, CallOnly DEF HeadInv, HeadTypeOK

LEMMA FetchLogsStep ==
    ASSUME HeadInv, FetchLogs PROVE HeadInv'
  <1>1. /\ UNCHANGED <<tables, cursor, chain, requested, overlay, from, headNum>>
        /\ hpc = "fetch" /\ hpc' = "apply"
    BY DEF FetchLogs
  <1>2. PICK end \in cur..headNum : unapplied' = LogsIn(cur, end) /\ cur' = end + 1
    BY DEF FetchLogs
  <1>3. /\ from \in 0..MaxBlock /\ headNum \in 0..MaxBlock /\ cur \in 0..(MaxBlock + 1)
        /\ MaxBlock \in Nat /\ unapplied = {}
        /\ from < headNum /\ from < cur /\ cur <= headNum
    BY <1>1, BlockAssumption DEF HeadInv, HeadTypeOK, BatchInOrder, Progress
  <1>4. /\ cur \in Nat \ {0} /\ end \in Nat /\ cur <= end /\ end <= headNum
        /\ cur' \in 0..(MaxBlock + 1) /\ cur' - 1 = end
    BY <1>2, <1>3
  <1>5. /\ Upto(end) \ LogsIn(cur, end) = Upto(cur - 1)
        /\ LogsIn(cur, end) \subseteq Upto(end)
        /\ \A i \in Upto(cur - 1), j \in LogsIn(cur, end) : i < j
    BY <1>4, RangeComesAfter
  <1>6. OverlayOfApplied'
    <2>1. Applied = Upto(cur - 1) /\ Applied' = Upto(cur - 1)
      BY <1>1, <1>2, <1>3, <1>4, <1>5 DEF Applied
    <2>2. \A c \in requested : HasLast(overlay, Upto(cur - 1), c)
      BY <1>1, <2>1 DEF HeadInv, OverlayOfApplied, Building
    <2> QED BY <1>1, <2>1, <2>2 DEF OverlayOfApplied, HasLast
  <1>7. BatchInOrder'
    BY <1>1, <1>2, <1>4, <1>5 DEF BatchInOrder
  <1>8. Progress'
    BY <1>1, <1>2, <1>3, <1>4 DEF Progress
  <1>9. unapplied' \subseteq Positions
    BY <1>2 DEF LogsIn
  <1> QED BY <1>1, <1>3, <1>4, <1>6, <1>7, <1>8, <1>9, CallOnly DEF HeadInv, HeadTypeOK

\* One log, later than all that were applied, changes the row of its own
\* cluster, if it was asked for, and no other.
LEMMA ApplyKeepsLast ==
    ASSUME NEW S \in SUBSET Positions, NEW i \in Positions, \A j \in S : j < i,
           Log[i].kind # "Malformed", NEW c \in requested, NEW o, HasLast(o, S, c)
    PROVE  HasLast(applyClusterEventToOverlay(o, i), S \cup {i}, c)
  <1> DEFINE k == Log[i].cluster
             p == applyClusterEventToOverlay(o, i)
             old == Snapshots(S, c)
             new == Snapshots(S \cup {i}, c)
  <1>1. Log[i].kind = "Unknown" \/ Log[i].kind \in HandledKinds
    BY LogFacts DEF Kinds
  <1>2. "Unknown" \notin HandledKinds
    BY DEF HandledKinds, ClusterKinds
  <1>3. CASE Log[i].kind \in HandledKinds /\ k = c
    <2>1. new = old \cup {i}
      BY <1>3 DEF Snapshots
    <2>2. \A j \in new : j <= i
      <3>1. ASSUME NEW j \in new PROVE j <= i
        <4>1. j \in S \/ j = i
          BY DEF Snapshots
        <4>2. i \in Nat
          BY LogFacts
        <4>3. CASE j \in S
          <5>1. j \in Nat /\ j < i
            BY <4>3, LogFacts
          <5> QED BY <4>2, <5>1
        <4> QED BY <4>1, <4>2, <4>3
      <3> QED BY <3>1
    <2>3. c \in DOMAIN p /\ p[c] = Log[i].row
      BY <1>2, <1>3 DEF applyClusterEventToOverlay
    <2> HIDE DEF new, p
    <2>4. i \in new /\ new # {}
      BY <2>1
    <2>5. HasLast(p, S \cup {i}, c)
      BY <2>2, <2>3, <2>4 DEF HasLast, new
    <2> QED BY <2>5 DEF p
  <1>4. CASE ~(Log[i].kind \in HandledKinds /\ k = c)
    <2>1. new = old
      BY <1>4 DEF Snapshots
    <2>2. /\ c \in DOMAIN p <=> c \in DOMAIN o
          /\ c \in DOMAIN o => p[c] = o[c]
      <3>1. CASE Log[i].kind = "Unknown" \/ k \notin requested
        BY <3>1 DEF applyClusterEventToOverlay
      <3>2. CASE Log[i].kind # "Unknown" /\ k \in requested
        <4>1. k # c
          BY <1>1, <1>4, <3>2
        <4>2. p = [d \in DOMAIN o \cup {k} |-> IF d = k THEN Log[i].row ELSE o[d]]
          BY <3>2 DEF applyClusterEventToOverlay
        <4> HIDE DEF k, p
        <4> QED BY <4>1, <4>2
      <3> QED BY <3>1, <3>2
    <2> HIDE DEF new, old, p
    <2>3. HasLast(p, S \cup {i}, c)
      BY <2>1, <2>2 DEF HasLast, new, old
    <2> QED BY <2>3 DEF p
  <1> QED BY <1>3, <1>4

LEMMA ApplyToOverlayStep ==
    ASSUME HeadInv, ApplyToOverlay PROVE HeadInv'
  <1> DEFINE i == NextUnapplied
  <1>1. /\ UNCHANGED <<tables, cursor, chain, hpc, requested, from, headNum, cur>>
        /\ hpc = "apply" /\ unapplied # {} /\ Log[i].kind # "Malformed"
        /\ overlay' = applyClusterEventToOverlay(overlay, i)
        /\ unapplied' = unapplied \ {i}
    BY DEF ApplyToOverlay
  <1>2. /\ unapplied \subseteq Positions /\ unapplied \subseteq Upto(cur - 1)
        /\ \A k \in Upto(cur - 1) \ unapplied, j \in unapplied : k < j
    BY DEF HeadInv, HeadTypeOK, BatchInOrder
  <1>3. i \in unapplied /\ \A j \in unapplied : i <= j
    <2>1. unapplied \subseteq Nat
      BY <1>2, LogFacts
    <2>2. \E k \in unapplied : \A j \in unapplied : k <= j
      BY <1>1, <2>1, LeastNatural
    <2> QED BY <2>2 DEF NextUnapplied
  <1> HIDE DEF i
  <1>4. i \in Positions /\ i \in Upto(cur - 1) /\ Applied = Upto(cur - 1) \ unapplied
        /\ Applied \in SUBSET Positions
    BY <1>1, <1>2, <1>3 DEF Applied, Upto
  <1>5. Applied' = Applied \cup {i}
    <2>1. Applied' = Upto(cur - 1) \ (unapplied \ {i})
      BY <1>1 DEF Applied
    <2> QED BY <1>3, <1>4, <2>1
  <1>6. \A j \in Applied : j < i
    BY <1>2, <1>3, <1>4
  <1>7. OverlayOfApplied'
    <2>1. \A c \in requested : HasLast(overlay, Applied, c)
      BY <1>1 DEF HeadInv, OverlayOfApplied, Building
    <2>2. ASSUME NEW c \in requested
          PROVE  HasLast(applyClusterEventToOverlay(overlay, i), Applied \cup {i}, c)
      BY <1>1, <1>4, <1>6, <2>1, ApplyKeepsLast
    <2> QED BY <1>1, <1>5, <2>2 DEF OverlayOfApplied
  <1>8. BatchInOrder'
    <2>1. ASSUME NEW k \in Upto(cur - 1) \ unapplied', NEW j \in unapplied' PROVE k < j
      <3>1. j \in unapplied /\ j # i /\ i <= j /\ i \in Nat /\ j \in Nat
        BY <1>1, <1>2, <1>3, LogFacts
      <3>2. CASE k = i
        BY <3>1, <3>2
      <3>3. CASE k # i
        <4>1. k \in Upto(cur - 1) \ unapplied
          BY <1>1, <3>3
        <4> QED BY <1>2, <3>1, <4>1
      <3> QED BY <3>2, <3>3
    <2> QED BY <1>1, <1>2, <2>1 DEF BatchInOrder
  <1>9. Progress'
    BY <1>1 DEF HeadInv, Progress
  <1>10. DOMAIN overlay' \subseteq requested'
    BY <1>1 DEF HeadInv, HeadTypeOK, applyClusterEventToOverlay
  <1> QED BY <1>1, <1>2, <1>7, <1>8, <1>9, <1>10, CallOnly DEF HeadInv, HeadTypeOK

LEMMA EndBatchStep ==
    ASSUME HeadInv, EndBatch PROVE HeadInv'
  <1>1. /\ UNCHANGED <<tables, cursor, chain, requested, overlay, from, headNum, cur,
                       unapplied>>
        /\ hpc = "apply" /\ unapplied = {}
        /\ hpc' = IF cur > headNum THEN "done" ELSE "fetch"
    BY DEF EndBatch
  <1>2. /\ from \in Nat /\ headNum \in Nat /\ cur \in Nat
        /\ from < headNum /\ from < cur /\ cur <= headNum + 1
    BY <1>1 DEF HeadInv, HeadTypeOK, Progress
  <1>3. hpc' \in {"done", "fetch"}
    BY <1>1
  <1>4. OverlayOfApplied'
    <2>1. Applied' = Applied
      BY <1>1, <1>3 DEF Applied
    <2>2. \A c \in requested : HasLast(overlay, Applied, c)
      BY <1>1 DEF HeadInv, OverlayOfApplied, Building
    <2> QED BY <1>1, <2>1, <2>2 DEF OverlayOfApplied, HasLast
  <1>5. BatchInOrder'
    BY <1>1, <1>3 DEF HeadInv, BatchInOrder
  <1>6. Progress'
    BY <1>1, <1>2 DEF Progress, OverlayBlock
  <1> QED BY <1>1, <1>3, <1>4, <1>5, <1>6, CallOnly DEF HeadInv, HeadTypeOK

\* Outside a call there is nothing to say of the overlay.
LEMMA HeadEndStep ==
    ASSUME HeadInv, Fail \/ Release PROVE HeadInv'
  <1>1. UNCHANGED <<tables, cursor, chain>>
    BY DEF Fail, Release
  <1>2. hpc' \in {"idle", "error"} /\ overlay' = <<>> /\ unapplied' = {}
    <2>1. CASE Fail
      BY <2>1 DEF Fail
    <2>2. CASE Release
      BY <2>2 DEF Release
    <2> QED BY <2>1, <2>2
  <1>3. /\ requested' \subseteq Clusters /\ from' \in 0..MaxBlock
        /\ headNum' \in 0..MaxBlock /\ cur' \in 0..(MaxBlock + 1)
    <2>1. CASE Fail
      BY <2>1 DEF Fail, HeadInv, HeadTypeOK
    <2>2. CASE Release
      BY <2>2, BlockAssumption DEF Release
    <2> QED BY <2>1, <2>2
  <1>4. OverlayOfApplied' /\ BatchInOrder' /\ Progress'
    BY <1>2 DEF OverlayOfApplied, Building, BatchInOrder, Progress
  <1>5. DOMAIN overlay' \subseteq requested' /\ unapplied' \subseteq Positions
    BY <1>2
  <1> QED BY <1>1, <1>2, <1>3, <1>4, <1>5, CallOnly

-----------------------------------------------------------------------------

LEMMA HeadNextStep ==
    ASSUME HeadInv, [HeadNext]_headVars PROVE HeadInv'
  <1>1. CASE HeadNext
    BY <1>1, HeadEnvironmentStep, GetFinalizedClustersStep, GetHeadBlockStep, FetchLogsStep,
       ApplyToOverlayStep, EndBatchStep, HeadEndStep DEF HeadNext
  <1>2. CASE UNCHANGED headVars
    BY <1>2 DEF headVars, HeadInv, HeadTypeOK, TablesAtCursor, OverlayOfApplied, Applied, HasLast,
                BatchInOrder, Progress, OverlayBlock
  <1> QED BY <1>1, <1>2

\* The inductive invariant holds in every reachable state.
THEOREM HeadInvariant == HeadSpec => []HeadInv
  BY HeadInitStep, HeadNextStep, PTL DEF HeadSpec

\* Tables, chain and call keep their types.
THEOREM HeadTypeCorrect == HeadSpec => []HeadTypeOK
  BY HeadInvariant, PTL DEF HeadInv

\* A finished overlay is the state of the requested clusters at one block,
\* although the tables and the chain move between its reads
\* (BuildHeadStateSnapshot, applyClusterEventToOverlay).
THEOREM HeadOverlayCorrect == HeadSpec => []OverlayIsHeadState
  BY HeadInvariant, HeadInvOverlay, PTL

=============================================================================
