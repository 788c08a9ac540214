------------------------------ MODULE HeadState -----------------------------
(***************************************************************************)
(* BuildHeadStateSnapshot (eth/syncer/headstate.go): the clusters the      *)
(* updater asks for as they are at the head of the chain, built from the   *)
(* finalized tables and the logs since, while the syncer, on another       *)
(* goroutine, moves the tables and the chain grows.                        *)
(*                                                                         *)
(* The syncer appears as what it promises (MaterializedView).  The chain   *)
(* only grows here: no block is replaced while a snapshot is being built.  *)
(***************************************************************************)
EXTENDS EventLog

VARIABLES
    tables, cursor,    \* the syncer's tables and its cursor
    head, finalBlock,  \* latest block and latest finalized block
    hpc,               \* where the call is
    requested,         \* clusterIDs of the call
    overlay,           \* rows by cluster id, for the clusters that have one
    from,              \* the cursor read with the rows
    headNum,
    cur,               \* next block to fetch
    unapplied          \* logs of the fetched batch still to be applied

chain == <<head, finalBlock>>
call  == <<hpc, requested, overlay, from, headNum, cur, unapplied>>
headVars == <<tables, cursor, head, finalBlock, hpc, requested, overlay, from, headNum, cur,
              unapplied>>

Syncer == INSTANCE MaterializedView WITH view <- tables, lastSynced <- cursor

HeadInit ==
    /\ Syncer!Init
    /\ head = DeployBlock /\ finalBlock = DeployBlock
    /\ hpc = "idle" /\ requested = {} /\ overlay = <<>>
    /\ from = 0 /\ headNum = 0 /\ cur = 0 /\ unapplied = {}

-----------------------------------------------------------------------------
(* The chain and the syncer.                                               *)

NewBlock == /\ head < MaxBlock /\ head' = head + 1
            /\ UNCHANGED <<tables, cursor, finalBlock, call>>

FinalizeBlock == /\ finalBlock < head /\ finalBlock' = finalBlock + 1
                 /\ UNCHANGED <<tables, cursor, head, call>>

\* A batch of the syncer is committed, up to a finalized block.
Sync == /\ Syncer!Advance /\ cursor' <= finalBlock
        /\ UNCHANGED <<chain, call>>

-----------------------------------------------------------------------------
(* The snapshot.                                                           *)

RowsOf(S) == [c \in {c \in S : tables.clusters[c] # NoRow} |-> tables.clusters[c]]

\* Mutant: the cursor is read after the rows, in a transaction of its own.
GetFinalizedClustersTwice ==
    /\ hpc = "idle"
    /\ requested' \in SUBSET Clusters \ {{}}
    /\ overlay' = RowsOf(requested')
    /\ from' \in cursor..finalBlock
    /\ hpc' = "head"
    /\ UNCHANGED <<tables, cursor, chain, headNum, cur, unapplied>>

\* Rows and cursor, from one read transaction.
GetFinalizedClusters ==
    /\ hpc = "idle"
    /\ requested' \in SUBSET Clusters \ {{}}
    /\ overlay' = RowsOf(requested')
    /\ from' = cursor
    /\ hpc' = "head"
    /\ UNCHANGED <<tables, cursor, chain, headNum, cur, unapplied>>

\* The node asked may be behind the one that served the syncer.
GetHeadBlock ==
    /\ hpc = "head"
    /\ headNum' \in DeployBlock..head
    /\ cur' = from + 1
    /\ hpc' = IF from >= headNum' THEN "done" ELSE "fetch"
    /\ UNCHANGED <<tables, cursor, chain, requested, overlay, from, unapplied>>

\* An unknown event is skipped, and so is one of another cluster.
applyClusterEventToOverlay(o, i) ==
    IF Log[i].kind = "Unknown" \/ Log[i].cluster \notin requested THEN o
    ELSE [c \in DOMAIN o \cup {Log[i].cluster} |->
             IF c = Log[i].cluster THEN Log[i].row ELSE o[c]]

\* One batch of FetchLogs, of whatever size is current.
FetchLogs ==
    /\ hpc = "fetch"
    /\ \E end \in cur..headNum : unapplied' = LogsIn(cur, end) /\ cur' = end + 1
    /\ hpc' = "apply"
    /\ UNCHANGED <<tables, cursor, chain, requested, overlay, from, headNum>>

NextUnapplied == CHOOSE i \in unapplied : \A j \in unapplied : i <= j

\* The logs of the batch, in chain order.  A handled event of any cluster that
\* does not parse ends the call (Fail).
ApplyToOverlay ==
    /\ hpc = "apply" /\ unapplied # {}
    /\ Log[NextUnapplied].kind # "Malformed"
    /\ overlay' = applyClusterEventToOverlay(overlay, NextUnapplied)
    /\ unapplied' = unapplied \ {NextUnapplied}
    /\ UNCHANGED <<tables, cursor, chain, hpc, requested, from, headNum, cur>>

EndBatch ==
    /\ hpc = "apply" /\ unapplied = {}
    /\ hpc' = IF cur > headNum THEN "done" ELSE "fetch"
    /\ UNCHANGED <<tables, cursor, chain, requested, overlay, from, headNum, cur, unapplied>>

\* The node or the database fails, or an event does not parse: the caller
\* gets no overlay.
Fail ==
    /\ \/ hpc \in {"head", "fetch"}
       \/ hpc = "apply" /\ unapplied # {} /\ Log[NextUnapplied].kind = "Malformed"
    /\ hpc' = "error" /\ overlay' = <<>> /\ unapplied' = {}
    /\ UNCHANGED <<tables, cursor, chain, requested, from, headNum, cur>>

\* The updater is done with the overlay.
Release ==
    /\ hpc \in {"done", "error"}
    /\ hpc' = "idle" /\ requested' = {} /\ overlay' = <<>>
    /\ from' = 0 /\ headNum' = 0 /\ cur' = 0 /\ unapplied' = {}
    /\ UNCHANGED <<tables, cursor, chain>>

HeadNext == \/ NewBlock \/ FinalizeBlock \/ Sync
            \/ GetFinalizedClusters \/ GetHeadBlock \/ FetchLogs \/ ApplyToOverlay \/ EndBatch
            \/ Fail \/ Release

HeadSpec == HeadInit /\ [][HeadNext]_headVars

-----------------------------------------------------------------------------
(* Properties.                                                             *)

\* Types of the tables, the chain and the call.
HeadTypeOK ==
    /\ cursor \in 0..MaxBlock
    /\ head \in DeployBlock..MaxBlock /\ finalBlock \in DeployBlock..MaxBlock
    /\ hpc \in {"idle", "head", "fetch", "apply", "done", "error"}
    /\ requested \subseteq Clusters /\ DOMAIN overlay \subseteq requested
    /\ from \in 0..MaxBlock /\ headNum \in 0..MaxBlock /\ cur \in 0..(MaxBlock + 1)
    /\ unapplied \subseteq Positions

\* The block the overlay stands for.
OverlayBlock == IF from >= headNum THEN from ELSE headNum

\* The overlay is the state of the requested clusters at one block, the head
\* that was read or, when the node is behind, the finalized cursor: no event
\* is missed or applied twice although the tables move between the reads, and
\* no other cluster is in it (BuildHeadStateSnapshot, GetFinalizedClusters,
\* applyClusterEventToOverlay).
OverlayIsHeadState ==
    hpc = "done" =>
        /\ DOMAIN overlay \subseteq requested
        /\ \A c \in requested :
              ClusterAfter(Upto(OverlayBlock), c) =
                  IF c \in DOMAIN overlay THEN overlay[c] ELSE NoRow

=============================================================================
