------------------------------ MODULE CommitApi -----------------------------
(***************************************************************************)
(* The HTTP API over the stored commits (api/handlers.go): GET commit,     *)
(* with and without full=true, and GET proof.  A request reads the         *)
(* database in up to four separate queries, while the oracle inserts and   *)
(* resolves commits (CommitLog) and the syncer adds clusters.  Trees are   *)
(* those of MerkleTree.  Requests only read, so one is followed at a time. *)
(***************************************************************************)
EXTENDS CommitLog, MerkleTree, FiniteSetsExt

CONSTANTS
    BalancesAt,  \* balances of the clusters with validators, by block
    Nothing,     \* a parameter, field or query result that is absent
    Malformed    \* a parameter that does not parse

VARIABLES
    synced,   \* last block of the finalized tables
    req,      \* the request: kind, epoch, cluster and how far it is
    row, prev, next,  \* what resolveCommit has read so far
    info,     \* clusters whose owner and operators were read
    resp,     \* the response
    failed,   \* ghost: a query of this request failed
    seen      \* ghost: contents of oracle_commits during the request

read == <<row, prev, next, info>>
vars == <<rows, synced, req, row, prev, next, info, resp, failed, seen>>

\* buildTree; the order of the map's iteration does not matter (MerkleTree:
\* RebuildSameRoot).
buildTree(balances) == NewTree(SetToSeq(EntriesOf(balances)))

\* The rows of oracle_commits, and what computeDiff may return.
Commits == {r \in [block : Blocks, root : {RootOf[b] : b \in Blocks},
                   status : {"pending", "confirmed", "failed"}, hash : BOOLEAN] :
               r.root = RootOf[r.block]}
Diffs   == [changed : SUBSET (ClusterIds \X Balances \X Balances),
            added : SUBSET Entries, removed : SUBSET Entries]

ASSUME CommitApiAssumption ==
    /\ \A b \in Blocks : /\ BalancesAt[b] \in BalanceMaps
                         /\ RootOf[b] = buildTree(BalancesAt[b]).Root
    /\ NoRow \notin Commits
    /\ Nothing \notin Targets /\ Nothing \notin Diffs

Kinds  == {"commit", "full", "proof"}
Params == [kind : Kinds, epoch : Targets \cup {Nothing, Malformed}, cluster : ClusterIds \cup {Malformed}]
Idle   == [kind |-> "commit", epoch |-> Nothing, cluster |-> Malformed, pc |-> "idle"]

ApiInit ==
    /\ Init /\ synced = 0
    /\ req = Idle
    /\ row = Nothing /\ prev = Nothing /\ next = Nothing /\ info = {}
    /\ resp = Nothing /\ failed = FALSE /\ seen = {}

-----------------------------------------------------------------------------
(* The rest of the process, which writes the tables.                       *)

\* A commit is inserted once its block is synced; a row is never waited for.
Oracle ==
    /\ Insert \/ Resolve
    /\ \A t \in Targets : rows'[t] # NoRow => rows'[t].block <= synced
    /\ seen' = IF req.pc = "idle" THEN {} ELSE seen \cup {rows'}
    /\ UNCHANGED <<synced, req, read, resp, failed>>

Sync ==
    /\ \E b \in Blocks : b > synced /\ synced' = b
    /\ UNCHANGED <<rows, req, read, resp, failed, seen>>

\* A start with --fresh drops the requests with the process.
Fresh ==
    /\ Clear /\ synced' = 0
    /\ req' = Idle /\ row' = Nothing /\ prev' = Nothing /\ next' = Nothing
    /\ info' = {} /\ resp' = Nothing /\ failed' = FALSE /\ seen' = {}

-----------------------------------------------------------------------------
(* Queries.                                                                *)

\* The row of target t in the table tab.
RowAt(tab, t) == [target |-> t, block |-> tab[t].block, root |-> tab[t].root,
                  status |-> tab[t].status, hash |-> tab[t].hash]

BalancesOf(r) == BalancesAt[r.block]

\* GetLatestCommit: the target of the last confirmed row.
GetLatestCommit ==
    LET confirmed == {t \in Stored : rows[t].status = "confirmed"}
    IN  IF confirmed = {} THEN Nothing ELSE Max(confirmed)

\* Mutant: only confirmed rows are neighbours.
NeighboursConfirmed(t) ==
    LET done   == {s \in Stored : rows[s].status = "confirmed"}
        before == {s \in done : s < t}
        after  == {s \in done : s > t}
    IN  [prev |-> IF before = {} THEN Nothing ELSE Max(before),
         next |-> IF after = {} THEN Nothing ELSE Min(after)]

\* prev_epoch and next_epoch of GetCommitByEpoch: rows of any status.
Neighbours(t) ==
    LET before == {s \in Stored : s < t}
        after  == {s \in Stored : s > t}
    IN  [prev |-> IF before = {} THEN Nothing ELSE Max(before),
         next |-> IF after = {} THEN Nothing ELSE Min(after)]

\* Mutant: the rows of active clusters only.
GetActiveClusterInfo == IF synced = 0 THEN {} ELSE DOMAIN BalancesAt[synced]

\* GetAllClusterInfo: every cluster ever synced has a row, whether or not it
\* still has validators.
GetAllClusterInfo == UNION {DOMAIN BalancesAt[b] : b \in {c \in Blocks : c <= synced}}

-----------------------------------------------------------------------------
(* computeDiff.                                                            *)

\* Mutant: clusters that left are not reported.
computeDiffKeepsRemoved(old, cur) ==
    LET both == DOMAIN old \cap DOMAIN cur
        diff == [changed |-> {<<c, old[c], cur[c]>> : c \in {d \in both : old[d] # cur[d]}},
                 added   |-> {<<c, cur[c]>> : c \in DOMAIN cur \ DOMAIN old},
                 removed |-> {}]
    IN  IF diff.changed \cup diff.added = {} THEN Nothing ELSE diff

computeDiff(old, cur) ==
    LET both == DOMAIN old \cap DOMAIN cur
        diff == [changed |-> {<<c, old[c], cur[c]>> : c \in {d \in both : old[d] # cur[d]}},
                 added   |-> {<<c, cur[c]>> : c \in DOMAIN cur \ DOMAIN old},
                 removed |-> {<<c, old[c]>> : c \in DOMAIN old \ DOMAIN cur}]
    IN  IF diff.changed = {} /\ diff.added = {} /\ diff.removed = {} THEN Nothing ELSE diff

-----------------------------------------------------------------------------
(* A request.                                                              *)

\* A response with no body but an error.
Error(code) == [code |-> code, body |-> Nothing]

Respond(r) == resp' = r /\ req' = [req EXCEPT !.pc = "done"]

Begin(q, pc) == [kind |-> q.kind, epoch |-> q.epoch, cluster |-> q.cluster, pc |-> pc]

\* Only a proof has a cluster; either parameter may not parse.
Receive ==
    /\ req.pc = "idle"
    /\ \E q \in {p \in Params : p.kind = "proof" \/ p.cluster = Malformed} :
          \/ /\ q.epoch = Malformed \/ (q.kind = "proof" /\ q.cluster = Malformed)
             /\ resp' = Error(400)
             /\ req' = Begin(q, "done")
          \/ /\ q.epoch # Malformed /\ (q.kind = "proof" => q.cluster # Malformed)
             /\ req' = Begin(q, IF q.epoch = Nothing THEN "latest" ELSE "epoch")
             /\ UNCHANGED resp
    /\ seen' = {rows}
    /\ UNCHANGED <<rows, synced, read, failed>>

\* resolveCommit with an epoch: one query for the row and its neighbours.
ResolveEpoch ==
    /\ req.pc = "epoch"
    /\ IF rows[req.epoch] = NoRow
       THEN Respond(Error(404)) /\ UNCHANGED read
       ELSE /\ row' = RowAt(rows, req.epoch)
            /\ prev' = Neighbours(req.epoch).prev /\ next' = Neighbours(req.epoch).next
            /\ req' = [req EXCEPT !.pc = "tree"]
            /\ UNCHANGED <<info, resp>>
    /\ UNCHANGED <<rows, synced, failed, seen>>

\* resolveCommit without one: the row first, its neighbours in a query of
\* their own.
ResolveLatest ==
    /\ req.pc = "latest"
    /\ LET t == GetLatestCommit IN
       IF t = Nothing
       THEN Respond(Error(404)) /\ UNCHANGED read
       ELSE /\ row' = RowAt(rows, t)
            /\ req' = [req EXCEPT !.pc = "neighbours"]
            /\ UNCHANGED <<prev, next, info, resp>>
    /\ UNCHANGED <<rows, synced, failed, seen>>

\* Either query fails.
ResolveFails ==
    /\ req.pc \in {"epoch", "latest"}
    /\ Respond(Error(500)) /\ failed' = TRUE
    /\ UNCHANGED <<rows, synced, read, seen>>

ResolveNeighbours ==
    /\ req.pc = "neighbours"
    /\ \/ prev' = Neighbours(row.target).prev /\ next' = Neighbours(row.target).next /\ UNCHANGED failed
       \/ failed' = TRUE /\ UNCHANGED <<prev, next>>
    /\ req' = [req EXCEPT !.pc = "tree"]
    /\ UNCHANGED <<rows, synced, row, info, resp, seen>>

\* The fields every commit response has.
CommitBody == [row |-> row, prev |-> prev, next |-> next]

\* With full=true also the tree, of which the leaves stand for the layers and
\* the total that are computed from them, and the diff.
FullBody(diff) ==
    [row |-> row, prev |-> prev, next |-> next,
     clusters |-> buildTree(BalancesOf(row)).leaves, diff |-> diff]

\* Mutant: the balance served is the cluster's balance now.
ProofResponseNow ==
    LET t == buildTree(BalancesOf(row)) IN
    IF t.Root # row.root THEN Error(500)
    ELSE IF req.cluster \notin DOMAIN BalancesOf(row) \cap DOMAIN BalancesAt[synced]
    THEN Error(404)
    ELSE [code |-> 200,
          body |-> [row |-> row, balance |-> BalancesAt[synced][req.cluster],
                    proof |-> GetProof(t, req.cluster)]]

\* The rest of handleGetProof: the tree is rebuilt and compared with the root.
ProofResponse ==
    LET t == buildTree(BalancesOf(row)) IN
    IF t.Root # row.root THEN Error(500)
    ELSE IF req.cluster \notin DOMAIN BalancesOf(row) THEN Error(404)
    ELSE [code |-> 200,
          body |-> [row |-> row, balance |-> BalancesOf(row)[req.cluster],
                    proof |-> GetProof(t, req.cluster)]]

handleGetProof ==
    /\ req.pc = "tree" /\ req.kind = "proof"
    /\ Respond(ProofResponse)
    /\ UNCHANGED <<rows, synced, read, failed, seen>>

handleGetCommit ==
    /\ req.pc = "tree" /\ req.kind # "proof"
    /\ IF req.kind = "commit" THEN Respond([code |-> 200, body |-> CommitBody])
       ELSE IF buildTree(BalancesOf(row)).Root # row.root THEN Respond(Error(500))
       ELSE req' = [req EXCEPT !.pc = "info"] /\ UNCHANGED resp
    /\ UNCHANGED <<rows, synced, read, failed, seen>>

\* Owners and operators of the clusters; left out when the query fails.
FullInfo ==
    /\ req.pc = "info"
    /\ \/ info' = GetAllClusterInfo /\ UNCHANGED failed
       \/ failed' = TRUE /\ UNCHANGED info
    /\ IF prev = Nothing
       THEN Respond([code |-> 200, body |-> FullBody(Nothing)])
       ELSE req' = [req EXCEPT !.pc = "diff"] /\ UNCHANGED resp
    /\ UNCHANGED <<rows, synced, row, prev, next, seen>>

\* The previous commit, read again; no diff when the query fails.
FullDiff ==
    /\ req.pc = "diff"
    /\ \/ /\ Respond([code |-> 200, body |-> FullBody(computeDiff(BalancesOf(rows[prev]), BalancesOf(row)))])
          /\ UNCHANGED failed
       \/ /\ Respond([code |-> 200, body |-> FullBody(Nothing)])
          /\ failed' = TRUE
    /\ UNCHANGED <<rows, synced, read, seen>>

Done ==
    /\ req.pc = "done"
    /\ req' = Idle /\ row' = Nothing /\ prev' = Nothing /\ next' = Nothing
    /\ info' = {} /\ resp' = Nothing /\ failed' = FALSE /\ seen' = {}
    /\ UNCHANGED <<rows, synced>>

Request ==
    \/ Receive \/ ResolveEpoch \/ ResolveLatest \/ ResolveFails \/ ResolveNeighbours
    \/ handleGetProof \/ handleGetCommit \/ FullInfo \/ FullDiff \/ Done

ApiNext == Oracle \/ Sync \/ Fresh \/ Request

ApiSpec == ApiInit /\ [][ApiNext]_vars

-----------------------------------------------------------------------------
(* Properties.                                                             *)

Served(kinds) == resp # Nothing /\ resp.code = 200 /\ req.kind \in kinds

\* Row t of the table of one moment, with its neighbours there.
InTable(tab, t, body) ==
    LET stored == {s \in Targets : tab[s] # NoRow} IN
    /\ t \in stored
    /\ body.row = RowAt(tab, t)
    /\ body.prev = IF \E s \in stored : s < t THEN CHOOSE s \in stored : s < t /\ \A u \in stored : u < t => u <= s
                   ELSE Nothing
    /\ body.next = IF \E s \in stored : s > t THEN CHOOSE s \in stored : s > t /\ \A u \in stored : u > t => u >= s
                   ELSE Nothing

\* A commit response describes the table as it was at one moment of the
\* request, although the row and its neighbours may be read by two queries
\* with inserts and outcomes between them: for the latest commit, a moment at
\* which no later row was confirmed (resolveCommit).
ResponseOfOneMoment ==
    Served({"commit", "full"}) /\ ~failed =>
        \E tab \in seen :
            /\ InTable(tab, resp.body.row.target, resp.body)
            /\ IF req.epoch # Nothing THEN resp.body.row.target = req.epoch
               ELSE /\ resp.body.row.status = "confirmed"
                    /\ \A t \in Targets : tab[t] # NoRow /\ t > resp.body.row.target
                          => tab[t].status # "confirmed"

\* A proof served verifies the served balance of the cluster asked for against
\* the root of the served row, whatever is synced and committed meanwhile
\* (handleGetProof, GetProof).
ProofServedVerifies ==
    Served({"proof"}) =>
        ProcessProof(HashLeaf(<<req.cluster, resp.body.balance>>), resp.body.proof)
            = RootOf[resp.body.row.block]

\* The balances of the previous commit with a diff applied.
Patched(old, diff) ==
    LET gone  == {e[1] : e \in diff.removed}
        moved == {<<e[1], e[3]>> : e \in diff.changed} \cup diff.added
        kept  == {<<c, old[c]>> : c \in DOMAIN old \ (gone \cup {e[1] : e \in moved})}
    IN  moved \cup kept

\* The diff of a full response turns the balances of the previous commit into
\* those of the served one, and is left out only when they are equal
\* (computeDiff).
DiffExact ==
    Served({"full"}) /\ ~failed /\ prev # Nothing =>
        LET old == BalancesOf(rows[prev])
            cur == EntriesOf(BalancesOf(row))
        IN  cur = IF resp.body.diff = Nothing THEN EntriesOf(old)
                  ELSE Patched(old, resp.body.diff)

\* Every cluster of a served commit has its owner and operators, also one that
\* lost its validators after the commit (GetAllClusterInfo).
EveryClusterDescribed ==
    Served({"full"}) /\ ~failed =>
        \A i \in DOMAIN resp.body.clusters : resp.body.clusters[i][1] \in info

=============================================================================
