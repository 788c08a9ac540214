------------------------------ MODULE EventLog ------------------------------
(***************************************************************************)
(* The SSV contract's event log on the finalized chain, and the view of it *)
(* that the oracle keeps in its SQLite tables.                             *)
(*                                                                         *)
(* A log is identified by its position in the order (block, transaction    *)
(* index, log index); finalized blocks do not change, so the log is a      *)
(* constant.  The view is the content of the tables clusters, validators   *)
(* and contract_events.                                                    *)
(***************************************************************************)
EXTENDS Integers, Sequences

CONSTANTS
    Clusters,     \* cluster ids
    Keys,         \* validator public keys
    Rows,         \* cluster snapshots an event may carry
    NoRow,        \* no row for the cluster in the table
    DeployBlock,  \* ssv_contract_deploy_block
    MaxBlock,     \* bound: the last block of the chain
    Log           \* the logs of the contract, in chain order

\* The six events whose handler only stores the cluster snapshot: Liquidated,
\* Reactivated, Withdrawn, Deposited, MigratedToETH and BalanceUpdated.
ClusterKinds == {"ClusterUpdated"}
HandledKinds == {"ValidatorAdded", "ValidatorRemoved"} \cup ClusterKinds

\* "Unknown" is a signature the parser does not list, which a node that ignores
\* the topic filter may return; "Malformed" a handled event whose data the
\* parser rejects.
Kinds == HandledKinds \cup {"Unknown", "Malformed"}

LogRecord == [block : DeployBlock..MaxBlock, kind : Kinds,
              cluster : Clusters, key : Keys, row : Rows]

ASSUME BlockAssumption == /\ DeployBlock \in Nat \ {0}
                          /\ MaxBlock \in Nat
                          /\ DeployBlock <= MaxBlock

ASSUME RowAssumption == NoRow \notin Rows

\* Positions follow block order, and nothing precedes the deployment block.
ASSUME LogAssumption == /\ Log \in Seq(LogRecord)
                        /\ \A i, j \in 1..Len(Log) :
                               i < j => Log[i].block <= Log[j].block

Positions == 1..Len(Log)

View == [clusters   : [Clusters -> Rows \cup {NoRow}],
         validators : SUBSET (Clusters \X Keys),
         events     : SUBSET Positions]

EmptyView == [clusters   |-> [c \in Clusters |-> NoRow],
              validators |-> {},
              events     |-> {}]

-----------------------------------------------------------------------------
(* One log applied to the tables, as the handlers of the syncer do it.     *)

InsertEvent(v, i) == [v EXCEPT !.events = @ \cup {i}]

UpsertCluster(v, i) == [v EXCEPT !.clusters[Log[i].cluster] = Log[i].row]

InsertValidator(v, i) ==
    [v EXCEPT !.validators = @ \cup {<<Log[i].cluster, Log[i].key>>}]

DeleteValidator(v, i) ==
    [v EXCEPT !.validators = @ \ {<<Log[i].cluster, Log[i].key>>}]

ApplyEvent(v, i) ==
    CASE Log[i].kind = "ValidatorAdded"   -> InsertValidator(UpsertCluster(v, i), i)
      [] Log[i].kind = "ValidatorRemoved" -> UpsertCluster(DeleteValidator(v, i), i)
      [] Log[i].kind \in ClusterKinds     -> UpsertCluster(v, i)

\* processLog on a log that parses: a handled event is stored and applied,
\* an unknown one is only stored.
ProcessLog(v, i) ==
    IF Log[i].kind = "Unknown"
    THEN InsertEvent(v, i)
    ELSE ApplyEvent(InsertEvent(v, i), i)

-----------------------------------------------------------------------------
(* What the tables must hold once exactly the logs in S have been applied, *)
(* stated from the chain alone.                                            *)

Upto(b) == {i \in Positions : Log[i].block <= b}

LogsIn(a, b) == {i \in Positions : a <= Log[i].block /\ Log[i].block <= b}

Latest(S) == CHOOSE i \in S : \A j \in S : j <= i

Snapshots(S, c) == {i \in S : Log[i].kind \in HandledKinds /\ Log[i].cluster = c}

ClusterAfter(S, c) ==
    IF Snapshots(S, c) = {} THEN NoRow ELSE Log[Latest(Snapshots(S, c))].row

\* Position i is a removal of validator k from cluster c.
Removes(i, c, k) == /\ Log[i].kind = "ValidatorRemoved"
                    /\ Log[i].cluster = c
                    /\ Log[i].key = k

Adds(i, c, k) == /\ Log[i].kind = "ValidatorAdded"
                 /\ Log[i].cluster = c
                 /\ Log[i].key = k

RegisteredAfter(S, c, k) ==
    \E i \in S : /\ Adds(i, c, k)
                 /\ \A j \in S : j > i => ~Removes(j, c, k)

ViewOf(S) ==
    [clusters   |-> [c \in Clusters |-> ClusterAfter(S, c)],
     validators |-> {p \in Clusters \X Keys : RegisteredAfter(S, p[1], p[2])},
     events     |-> S]

=============================================================================
