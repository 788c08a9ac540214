--------------------------- MODULE ClusterBalances --------------------------
(***************************************************************************)
(* How a commit gets the effective balance of each cluster: the validators *)
(* of active clusters (storage/storage.go GetActiveValidators), their      *)
(* balances fetched from the beacon node in concurrent batches             *)
(* (eth/beacon/client.go GetValidatorBalances), each batch retried         *)
(* (eth/retry.go WithRetry), and the sum by cluster (oracle/oracle.go).    *)
(*                                                                         *)
(* The tables and the finalized beacon state stand still during one fetch; *)
(* OracleCommit models what happens when they do not.                      *)
(***************************************************************************)
EXTENDS Integers, Sequences, FiniteSets, SequencesExt

CONSTANTS
    Clusters, Keys,  \* cluster ids and public keys, as numbers
    Gwei,            \* effective balances a validator may have
    Absent,          \* the validator is not in the beacon state
    BalanceFloor,    \* balanceFloor, in Gwei
    GweiPerETH,
    Width,           \* bits of ClusterBalance.EffectiveBalance
    BatchSize,       \* balanceFetchBatchSize
    Concurrency,     \* balanceFetchConcurrency
    BatchRetries     \* RetryConfig.MaxRetries

MaxOf(a, b) == IF a >= b THEN a ELSE b
MinOf(a, b) == IF a <= b THEN a ELSE b

ASSUME SizeAssumption ==
    /\ Clusters \subseteq Nat /\ Keys \subseteq Nat
    /\ IsFiniteSet(Clusters) /\ IsFiniteSet(Keys)
    /\ Gwei \subseteq Nat /\ Absent \notin Gwei
    /\ {BalanceFloor, GweiPerETH, Width, BatchSize, Concurrency} \subseteq Nat \ {0}
    /\ BatchRetries \in Nat

\* The conversion to uint32 is modulo this.
Modulus == 2^Width

\* A cluster with every key at the largest balance still fits the width: the
\* conversion is exact as long as this holds.
ASSUME WidthAssumption ==
    /\ Modulus \in Nat
    /\ \A g \in Gwei \cup {BalanceFloor} :
          (Cardinality(Keys) * g) \div GweiPerETH < Modulus

VARIABLES
    registered,  \* the validators table
    active,      \* clusters whose is_active is set
    beacon,      \* the finalized beacon state: balances by key
    pc,
    validators,  \* what GetActiveValidators returned
    batches,     \* public keys of each request
    started,     \* batches handed to the errgroup, in order
    worker,      \* state of each batch's goroutine
    attempt,     \* retries of each batch
    merged,      \* balances received so far
    balances     \* effective balance, in ETH, of each cluster

tables == <<registered, active, beacon>>
balanceVars == <<registered, active, beacon, pc, validators, batches, started, worker,
                 attempt, merged, balances>>

NoFetch == /\ validators' = <<>> /\ batches' = <<>> /\ started' = 0
           /\ worker' = <<>> /\ attempt' = <<>> /\ merged' = <<>>

BalancesInit ==
    /\ registered \in SUBSET (Clusters \X Keys)
    /\ active \in SUBSET Clusters
    /\ beacon \in [Keys -> Gwei \cup {Absent}]
    /\ pc = "idle"
    /\ validators = <<>> /\ batches = <<>> /\ started = 0
    /\ worker = <<>> /\ attempt = <<>> /\ merged = <<>> /\ balances = <<>>

-----------------------------------------------------------------------------

\* The elements of S in the order of the relation R.
Ranked(S, R) ==
    [n \in 1..Cardinality(S) |->
        CHOOSE x \in S : Cardinality({y \in S : <<y, x>> \in R}) = n - 1]

\* ORDER BY cluster_id, validator_pubkey.
RowBefore(v, w) == v[1] < w[1] \/ (v[1] = w[1] /\ v[2] < w[2])

GetActiveValidators ==
    LET vs == {v \in registered : v[1] \in active}
    IN  Ranked(vs, {p \in vs \X vs : RowBefore(p[1], p[2])})

\* Each key once, in the order in which the keys are met.
deduplicatePubkeys(vs) ==
    LET ks  == {v[2] : v \in ToSet(vs)}
        met == [k \in ks |-> CHOOSE i \in DOMAIN vs :
                   vs[i][2] = k /\ \A j \in DOMAIN vs : vs[j][2] = k => i <= j]
    IN  Ranked(ks, {p \in ks \X ks : met[p[1]] < met[p[2]]})

batchesOf(ks) ==
    [i \in 1..((Len(ks) + BatchSize - 1) \div BatchSize) |->
        SubSeq(ks, (i - 1) * BatchSize + 1, MinOf(i * BatchSize, Len(ks)))]

\* The balance counted for a validator, given the balances received.
Counted(m, k) == MaxOf(IF k \in DOMAIN m THEN m[k] ELSE 0, BalanceFloor)

aggregateByCluster(vs, m) ==
    LET counted == [i \in DOMAIN vs |-> Counted(m, vs[i][2])]
    IN  [c \in {v[1] : v \in ToSet(vs)} |->
            (SumFunctionOnSet(counted, {i \in DOMAIN vs : vs[i][1] = c}) \div GweiPerETH)
                % Modulus]

-----------------------------------------------------------------------------
(* fetchBalances.                                                          *)

\* Without validators there is nothing to fetch.
Begin ==
    /\ pc = "idle"
    /\ IF GetActiveValidators = <<>>
       THEN /\ pc' = "done" /\ balances' = <<>>
            /\ NoFetch
       ELSE /\ pc' = "fetch"
            /\ validators' = GetActiveValidators
            /\ batches' = batchesOf(deduplicatePubkeys(validators'))
            /\ worker' = [i \in DOMAIN batches' |-> "queued"]
            /\ attempt' = [i \in DOMAIN batches' |-> 0]
            /\ started' = 0 /\ merged' = <<>>
            /\ UNCHANGED balances
    /\ UNCHANGED tables

Running == {i \in DOMAIN worker : worker[i] = "running"}
Failed  == {i \in DOMAIN worker : worker[i] = "failed"}

\* g.Go blocks while the limit is reached.
StartBatch ==
    /\ pc = "fetch" /\ started < Len(batches)
    /\ Cardinality(Running) < Concurrency
    /\ started' = started + 1
    /\ worker' = [worker EXCEPT ![started + 1] = "running"]
    /\ UNCHANGED <<tables, pc, validators, batches, attempt, merged, balances>>

\* The node answers with the validators of the batch it knows.
AnswerBatch ==
    /\ \E i \in Running :
          /\ merged' = [k \in DOMAIN merged \cup
                              {k \in ToSet(batches[i]) : beacon[k] # Absent} |->
                            IF k \in ToSet(batches[i]) THEN beacon[k] ELSE merged[k]]
          /\ worker' = [worker EXCEPT ![i] = "ok"]
    /\ UNCHANGED <<tables, pc, validators, batches, started, attempt, balances>>

\* A transient error: the batch waits and is sent again, while attempts are
\* left and no other batch has failed, which cancels the context.
RetryBatch ==
    /\ \E i \in Running :
          /\ attempt[i] < BatchRetries /\ Failed = {}
          /\ attempt' = [attempt EXCEPT ![i] = @ + 1]
    /\ UNCHANGED <<tables, pc, validators, batches, started, worker, merged, balances>>

\* An error that is not retriable, the last attempt, or a cancelled context.
FailBatch ==
    /\ \E i \in Running : worker' = [worker EXCEPT ![i] = "failed"]
    /\ UNCHANGED <<tables, pc, validators, batches, started, attempt, merged, balances>>

\* Mutant: the batches that were answered are enough.
WaitAny ==
    /\ pc = "fetch" /\ started = Len(batches) /\ Running = {}
    /\ pc' = "done" /\ balances' = aggregateByCluster(validators, merged)
    /\ NoFetch /\ UNCHANGED tables

\* g.Wait: one failed batch fails the fetch, and with it the commit.
Wait ==
    /\ pc = "fetch" /\ started = Len(batches) /\ Running = {}
    /\ IF Failed # {}
       THEN pc' = "error" /\ balances' = <<>>
       ELSE pc' = "done" /\ balances' = aggregateByCluster(validators, merged)
    /\ NoFetch /\ UNCHANGED tables

\* The next commit.
Again ==
    /\ pc \in {"done", "error"}
    /\ pc' = "idle" /\ balances' = <<>>
    /\ UNCHANGED <<tables, validators, batches, started, worker, attempt, merged>>

BalancesNext == Begin \/ StartBatch \/ AnswerBatch \/ RetryBatch \/ FailBatch \/ Wait \/ Again

BalancesSpec == BalancesInit /\ [][BalancesNext]_balanceVars

-----------------------------------------------------------------------------
(* Properties.                                                             *)

\* Types; at most Concurrency requests are in flight and no batch is retried
\* more than MaxRetries times.
BalancesTypeOK ==
    /\ pc \in {"idle", "fetch", "done", "error"}
    /\ validators \in Seq(registered)
    /\ \A i \in DOMAIN batches : ToSet(batches[i]) \subseteq Keys
    /\ DOMAIN worker = DOMAIN batches /\ DOMAIN attempt = DOMAIN batches
    /\ \A i \in DOMAIN batches : /\ worker[i] \in {"queued", "running", "ok", "failed"}
                                 /\ attempt[i] \in 0..BatchRetries
    /\ started \in 0..Len(batches) /\ Cardinality(Running) <= Concurrency
    /\ DOMAIN merged \subseteq Keys /\ DOMAIN balances \subseteq Clusters

\* What a cluster must be reported with, from the tables and the beacon state
\* alone.
TrueBalance(c) ==
    LET keys     == {k \in Keys : <<c, k>> \in registered}
        onBeacon == {k \in keys : beacon[k] # Absent}
        above    == {k \in onBeacon : beacon[k] > BalanceFloor}
    IN  (BalanceFloor * Cardinality(keys \ above) + SumFunctionOnSet(beacon, above))
            \div GweiPerETH

\* The balances a commit is built from are exact: every active cluster with
\* validators is there, once, with the floored sum of all its validators, and
\* nothing is lost to the split in batches, to the order of their answers, to
\* retries, to a key two clusters share or to the 32-bit conversion.  A
\* validator whose answer is missing would silently count as 32 ETH
\* (fetchBalances, aggregateByCluster, GetValidatorBalances).
BalancesExact ==
    pc = "done" =>
        /\ DOMAIN balances = {c \in active : \E k \in Keys : <<c, k>> \in registered}
        /\ \A c \in DOMAIN balances : balances[c] = TrueBalance(c)

=============================================================================
