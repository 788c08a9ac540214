--------------------------- MODULE UpdaterProofs ----------------------------
(***************************************************************************)
(* Proofs about the cluster updater, for every number of clusters, blocks, *)
(* changes and repeated events, and every combination of faults: what it   *)
(* sends is what the committed root has; no leaf of a commit is counted    *)
(* twice, nor left out but for a replaced root or a cancelled context.     *)
(***************************************************************************)
EXTENDS Updater, BasicFacts, FiniteSetTheorems

-----------------------------------------------------------------------------
(* The inductive invariant.                                                *)

Handling   == {"lookup", "lookup again", "leaf", "query", "send", "await",
               "overlay", "finish"}
Processing == Handling \ {"lookup", "lookup again"}
Calling    == {"query", "send", "await"}

Commits == [block : Blocks, root : Roots]

\* The events on their way are those of roots that are committed: a committed
\* root is never replaced.
EventsAreCommits ==
    /\ events \in Seq(Commits)
    /\ \A i \in 1..Len(events) : root[events[i].block] = events[i].root

\* So is the event in hand; once its commit was found, the stored commit of
\* its block is of the same root, and never replaced either.
EventIsCommit ==
    /\ pc \in Handling => ev \in Commits /\ root[ev.block] = ev.root
    /\ pc \in Processing => local[ev.block] = ev.root

\* Outside a batch there is nothing left of the last one.
NothingLeft ==
    pc \notin Processing => /\ overlay = NoOverlay /\ leaves = {} /\ stale = {}
                            /\ stats = NoStats

\* The leaves still to process, and those put aside, are leaves of the root.
LeavesOfRoot ==
    pc \in Processing =>
        /\ leaves \subseteq DOMAIN ev.root /\ stale \subseteq DOMAIN ev.root
        /\ leaves \cap stale = {}

\* The call in hand is that of a leaf still to process.
CallOfLeaf ==
    pc \in Calling => /\ leaf.block = ev.block /\ leaf.cluster \in leaves
                      /\ leaf.eb = ev.root[leaf.cluster]

\* What a transaction of ours must carry.
OfTheRoot(tx) ==
    /\ root[tx.block] # NoRoot /\ tx.cluster \in DOMAIN root[tx.block]
    /\ root[tx.block][tx.cluster] = tx.eb

OrphansOfTheRoot == \A tx \in orphans : OfTheRoot(tx)

\* The passes: the second puts nothing aside and has a head version of each of
\* its leaves; the first ends without leaves, and the batch with none aside.
Passes ==
    /\ ~FirstPass => stale = {} /\ (\A c \in leaves : overlay[c] \in Nat)
    /\ pc = "overlay" => leaves = {}
    /\ pc = "finish" => leaves = {} /\ stale = {}

\* Updated, skipped and failed leaves, the leaves still to process and those
\* put aside are together the leaves of the root, but for those a loop did not
\* come to before the context was cancelled.
Counted == stats.updated + stats.skipped + stats.failed

\* A later root was committed.
Superseded == \E d \in Committed : d > ev.block

\* n is the number of the root's leaves, or perhaps less if the context is done.
AllLeaves(n) == IF ctxDone THEN n <= Cardinality(DOMAIN ev.root)
                ELSE n = Cardinality(DOMAIN ev.root)

Tally ==
    pc \in Processing =>
        IF stats.rotated
        THEN /\ pc = "finish" /\ Superseded
             /\ Counted <= Cardinality(DOMAIN ev.root)
        ELSE AllLeaves(Counted + Cardinality(leaves) + Cardinality(stale))

IInv ==
    /\ TypeOK /\ EventsAreCommits /\ EventIsCommit /\ NothingLeft /\ LeavesOfRoot
    /\ CallOfLeaf /\ OrphansOfTheRoot /\ Passes /\ Tally

-----------------------------------------------------------------------------
(* Roots, the latest root and the sizes of sets of leaves.                 *)

\* A root maps finitely many clusters to balances.
LEMMA RootFacts ==
    ASSUME NEW r \in Roots
    PROVE  /\ DOMAIN r \subseteq Clusters /\ IsFiniteSet(DOMAIN r)
           /\ \A c \in DOMAIN r : r[c] \in Balances
           /\ r # NoRoot
  <1>1. PICK S \in SUBSET Clusters : r \in [S -> Balances]
    BY DEF Roots
  <1>2. IsFiniteSet(Clusters) /\ NoRoot \notin Roots
    BY UpdaterAssumption
  <1>3. IsFiniteSet(S)
    BY <1>1, <1>2, FS_Subset
  <1> QED BY <1>1, <1>2, <1>3

\* Latest is the last committed block, or 0 when there is none.
LEMMA LatestFacts ==
    /\ Committed \subseteq Blocks
    /\ Latest \in Committed \cup {0}
    /\ \A d \in Committed : d <= Latest
  <1> DEFINE S == Committed \cup {0}
  <1>1. Committed \subseteq Blocks
    BY DEF Committed
  <1>2. MaxBlock \in Nat /\ (\A x \in S : x \in Nat /\ x <= MaxBlock)
    BY <1>1, UpdaterAssumption DEF Blocks
  <1>3. \E x \in S : \A y \in S : y <= x
    <2> HIDE DEF S
    <2>1. S \subseteq Nat /\ S # {}
      BY <1>2 DEF S
    <2> QED BY <1>2, <2>1, GreatestNatural
  <1>4. \E b \in Committed \cup {0} : \A d \in Committed : d <= b
    BY <1>3
  <1>5. Latest \in Committed \cup {0} /\ (\A d \in Committed : d <= Latest)
    BY <1>4 DEF Latest
  <1> QED BY <1>1, <1>5

LEMMA LatestCommitted ==
    ASSUME Committed # {} PROVE Latest \in Committed
  <1>1. PICK d \in Committed : TRUE
    OBVIOUS
  <1>2. d <= Latest /\ d \in 1..MaxBlock
    BY LatestFacts DEF Blocks
  <1>3. Latest # 0
    BY <1>2, UpdaterAssumption
  <1> QED BY <1>3, LatestFacts

\* A set of leaves without one of them is smaller by one.
LEMMA OneLess ==
    ASSUME NEW S, IsFiniteSet(S), NEW c \in S
    PROVE  /\ Cardinality(S) \in Nat /\ Cardinality(S \ {c}) \in Nat
           /\ Cardinality(S) = Cardinality(S \ {c}) + 1
  <1>1. IsFiniteSet(S \ {c}) /\ Cardinality(S \ {c}) = Cardinality(S) - 1
    BY FS_RemoveElement
  <1>2. Cardinality(S) \in Nat /\ Cardinality(S \ {c}) \in Nat
    BY <1>1, FS_CardinalityType
  <1> QED BY <1>1, <1>2

\* A set of leaves with a new one is larger by one.
LEMMA OneMore ==
    ASSUME NEW S, IsFiniteSet(S), NEW c, c \notin S
    PROVE  /\ Cardinality(S) \in Nat
           /\ Cardinality(S \cup {c}) = Cardinality(S) + 1
  <1>1. Cardinality(S) \in Nat
    BY FS_CardinalityType
  <1> QED BY <1>1, FS_AddElement

\* No leaves.
LEMMA NoLeaves == Cardinality({}) = 0
  BY FS_EmptySet

-----------------------------------------------------------------------------
(* The invariant at the start, and what follows from it.                   *)

LEMMA InitIInv == Init => IInv
  <1> SUFFICES ASSUME Init PROVE IInv
    OBVIOUS
  <1> USE DEF Init
  <1>1. MaxBlock \in Nat /\ Balances # {}
    BY UpdaterAssumption
  <1>2. TypeOK
    <2>1. root \in [Blocks -> RootOrNone] /\ local \in [Blocks -> RootOrNone]
      BY DEF RootOrNone
    <2>2. eb \in [Clusters -> Balances]
      <3>1. (CHOOSE x \in Balances : TRUE) \in Balances
        BY <1>1
      <3> QED BY <3>1
    <2>3. stats \in Statistics
      BY DEF NoStats, Statistics
    <2>4. row \in [Clusters -> [ver : Nat, active : BOOLEAN]] /\ db \in [Clusters -> Nat]
      OBVIOUS
    <2>5. lastProcessedBlock \in 0..MaxBlock
      BY <1>1
    <2> QED BY <2>1, <2>2, <2>3, <2>4, <2>5 DEF TypeOK
  <1>3. EventsAreCommits
    BY DEF EventsAreCommits
  <1> QED BY <1>2, <1>3
          DEF IInv, EventIsCommit, NothingLeft, LeavesOfRoot, CallOfLeaf,
              OrphansOfTheRoot, Passes, Tally, FirstPass, Handling, Processing, Calling

\* The call in hand carries the root's balance of its cluster.
LEMMA CallOfTheRoot ==
    ASSUME IInv, pc \in Calling
    PROVE  /\ leaf \in Calls /\ OfTheRoot(leaf) /\ ev \in Commits
           /\ leaf.block = ev.block /\ leaf.cluster \in leaves /\ ev.root # NoRoot
           /\ root[ev.block] = ev.root /\ local[ev.block] = ev.root
           /\ leaves \subseteq DOMAIN ev.root /\ stale \subseteq DOMAIN ev.root
           /\ leaves \cap stale = {} /\ pc \in Processing /\ pc \in Handling
  <1>1. pc \in Processing /\ pc \in Handling /\ pc \in {"query", "send", "await"}
    BY DEF Calling, Processing, Handling
  <1>2. ev \in Commits /\ root[ev.block] = ev.root /\ local[ev.block] = ev.root
    BY <1>1 DEF IInv, EventIsCommit
  <1>3. ev.root \in Roots /\ ev.root # NoRoot
    <2>1. ev.root \in Roots
      BY <1>2 DEF Commits
    <2> QED BY <2>1, RootFacts
  <1>4. leaf \in Calls
    BY <1>1 DEF IInv, TypeOK
  <1>5. leaves \subseteq DOMAIN ev.root /\ stale \subseteq DOMAIN ev.root
        /\ leaves \cap stale = {}
    BY <1>1 DEF IInv, LeavesOfRoot
  <1>6. leaf.block = ev.block /\ leaf.cluster \in leaves
        /\ leaf.eb = ev.root[leaf.cluster]
    BY DEF IInv, CallOfLeaf
  <1>7. OfTheRoot(leaf)
    BY <1>2, <1>3, <1>5, <1>6 DEF OfTheRoot
  <1> QED BY <1>1, <1>2, <1>3, <1>4, <1>5, <1>6, <1>7

LEMMA IInvProofs == IInv => ProofsAreOfTheRoot
  <1> SUFFICES ASSUME IInv PROVE ProofsAreOfTheRoot
    OBVIOUS
  <1>1. pc \in {"send", "await"} => OfTheRoot(leaf)
    BY CallOfTheRoot DEF Calling
  <1>2. \A tx \in orphans : OfTheRoot(tx)
    BY DEF IInv, OrphansOfTheRoot
  <1> QED BY <1>1, <1>2 DEF ProofsAreOfTheRoot, OfTheRoot

LEMMA IInvLeaves == IInv => LeavesAccounted
  <1> DEFINE of == Cardinality(DOMAIN local[ev.block])
  <1> SUFFICES ASSUME IInv, pc = "finish"
               PROVE  /\ Counted <= of
                      /\ stats.rotated => ev.block # Latest
                      /\ ~stats.rotated /\ ~ctxDone => Counted = of
    BY DEF LeavesAccounted, Counted
  <1>1. pc \in Processing /\ pc \in Handling
    BY DEF Processing, Handling
  <1>2. local[ev.block] = ev.root /\ ev \in Commits
    BY <1>1 DEF IInv, EventIsCommit
  <1>3. leaves = {} /\ stale = {}
    BY DEF IInv, Passes
  <1>4. CASE stats.rotated
    <2>1. Superseded /\ Counted <= Cardinality(DOMAIN ev.root)
      BY <1>1, <1>4 DEF IInv, Tally
    <2>2. PICK d \in Committed : d > ev.block
      BY <2>1 DEF Superseded
    <2>3. d \in Nat /\ ev.block \in Nat
      BY <1>2, LatestFacts DEF Commits, Blocks
    <2>4. d <= Latest /\ Latest \in Nat
      BY LatestFacts DEF Blocks
    <2>5. ev.block # Latest
      BY <2>2, <2>3, <2>4
    <2> QED BY <1>2, <1>4, <2>1, <2>5
  <1>5. CASE ~stats.rotated
    <2>1. AllLeaves(Counted + Cardinality(leaves) + Cardinality(stale))
      BY <1>1, <1>5 DEF IInv, Tally
    <2>2. Counted \in Nat
      BY DEF IInv, TypeOK, Statistics, Counted
    <2>3. Counted + 0 + 0 = Counted
      BY <2>2
    <2>4. AllLeaves(Counted)
      BY <1>3, <2>1, <2>3, NoLeaves
    <2>5. Counted = Cardinality(DOMAIN ev.root) => Counted <= Cardinality(DOMAIN ev.root)
      BY <2>2
    <2> QED BY <1>2, <1>5, <2>4, <2>5 DEF AllLeaves
  <1> QED BY <1>4, <1>5

-----------------------------------------------------------------------------
(* The steps of the environment leave the batch alone: it is enough that   *)
(* no committed root and no stored commit is replaced.                     *)

RootsStay == \A b \in Blocks : root[b] # NoRoot => root'[b] = root[b]

LEMMA BatchUntouched ==
    ASSUME IInv, UNCHANGED <<pc, batch>>, RootsStay, ctxDone => ctxDone',
           \A b \in Blocks : local[b] # NoRoot => local'[b] = local[b],
           TypeOK', EventsAreCommits', OrphansOfTheRoot'
    PROVE  IInv'
  <1>1. /\ UNCHANGED <<pc, ev, overlay, leaves, stale, leaf, stats>>
    BY DEF batch
  <1>2. pc \in Handling => ev.block \in Blocks /\ ev.root # NoRoot
    <2>1. pc \in Handling => ev.block \in Blocks /\ ev.root \in Roots
      BY DEF IInv, EventIsCommit, Commits
    <2> QED BY <2>1, RootFacts
  <1>3. EventIsCommit'
    <2>1. pc \in Processing => pc \in Handling
      BY DEF Processing
    <2> QED BY <1>1, <1>2, <2>1 DEF IInv, EventIsCommit, RootsStay
  <1>4. NothingLeft'
    BY <1>1 DEF IInv, NothingLeft
  <1>5. LeavesOfRoot'
    BY <1>1 DEF IInv, LeavesOfRoot
  <1>6. CallOfLeaf'
    BY <1>1 DEF IInv, CallOfLeaf
  <1>7. Passes'
    BY <1>1 DEF IInv, Passes, FirstPass
  <1>8. Superseded => Superseded'
    <2>1. ASSUME NEW d \in Committed PROVE d \in Committed'
      BY DEF Committed, RootsStay
    <2> QED BY <1>1, <2>1 DEF Superseded
  <1>9. Tally'
    <2>1. Counted' = Counted /\ Cardinality(leaves') = Cardinality(leaves)
          /\ Cardinality(stale') = Cardinality(stale)
      BY <1>1 DEF Counted
    <2>2. ASSUME NEW n, pc \in Processing, AllLeaves(n) PROVE AllLeaves(n)'
      <3>1. pc \in Handling
        BY <2>2 DEF Processing
      <3>2. ev.root \in Roots
        BY <3>1 DEF IInv, EventIsCommit, Commits
      <3>3. Cardinality(DOMAIN ev.root) \in Nat
        BY <3>2, RootFacts, FS_CardinalityType
      <3>4. Cardinality(DOMAIN ev.root) <= Cardinality(DOMAIN ev.root)
        BY <3>3
      <3> QED BY <1>1, <2>2, <3>4 DEF AllLeaves
    <2> QED BY <1>1, <1>8, <2>1, <2>2 DEF IInv, Tally
  <1> QED BY <1>3, <1>4, <1>5, <1>6, <1>7, <1>9 DEF IInv

\* Without a new root, event or orphan only types are left to check.
LEMMA ContractUntouched ==
    ASSUME IInv, UNCHANGED <<root, events, orphans>>
    PROVE  EventsAreCommits' /\ OrphansOfTheRoot' /\ RootsStay
  <1>1. EventsAreCommits'
    BY DEF IInv, EventsAreCommits
  <1>2. OrphansOfTheRoot'
    BY DEF IInv, OrphansOfTheRoot, OfTheRoot
  <1> QED BY <1>1, <1>2 DEF RootsStay

\* Emit adds the event of a committed root.
LEMMA EmitIsCommit ==
    ASSUME IInv, NEW b \in Blocks, NEW r \in Roots, Emit(b, r), RootsStay, root'[b] = r
    PROVE  EventsAreCommits'
  <1> DEFINE e == [block |-> b, root |-> r]
  <1>1. e \in Commits /\ e.block = b /\ e.root = r
    BY DEF Commits
  <1>2. events \in Seq(Commits)
    BY DEF IInv, EventsAreCommits
  <1>3. ASSUME NEW i \in 1..Len(events)
        PROVE  root'[events[i].block] = events[i].root
    <2>1. events[i] \in Commits /\ root[events[i].block] = events[i].root
      BY <1>2 DEF IInv, EventsAreCommits
    <2>2. events[i].block \in Blocks /\ events[i].root \in Roots
      BY <2>1 DEF Commits
    <2>3. events[i].root # NoRoot
      BY <2>2, RootFacts
    <2> QED BY <2>1, <2>2, <2>3 DEF RootsStay
  <1>4. CASE sub = "on"
    <2> HIDE DEF e
    <2>1. events' = Append(events, e)
      BY <1>4 DEF Emit, e
    <2>2. /\ events' \in Seq(Commits) /\ Len(events') = Len(events) + 1
          /\ \A k \in 1..Len(events) : events'[k] = events[k]
          /\ events'[Len(events) + 1] = e
      BY <1>1, <1>2, <2>1, AppendFacts
    <2>3. Len(events) \in Nat
      BY <1>2
    <2>4. ASSUME NEW i \in 1..Len(events')
          PROVE  root'[events'[i].block] = events'[i].root
      <3>1. i \in 1..Len(events) \/ i = Len(events) + 1
        BY <2>2, <2>3
      <3> QED BY <1>1, <1>3, <2>2, <3>1
    <2> QED BY <2>2, <2>4 DEF EventsAreCommits
  <1>5. CASE sub # "on"
    <2>1. events' = events
      BY <1>5 DEF Emit
    <2> QED BY <1>2, <1>3, <2>1 DEF EventsAreCommits
  <1> QED BY <1>4, <1>5

LEMMA CommitRootIInv ==
    ASSUME IInv, CommitRoot, UNCHANGED ctxDone PROVE IInv'
  <1>1. PICK b \in Blocks, r \in Roots :
           b > Latest /\ root' = [root EXCEPT ![b] = r] /\ Emit(b, r)
    <2>1. OddRoot \in Roots /\ \A b \in Blocks : RootAt[b] \in Roots
      BY UpdaterAssumption
    <2> QED BY <2>1 DEF CommitRoot
  <1>2. r \in Roots
    OBVIOUS
  <1>3. root[b] = NoRoot
    <2>1. b \in Nat /\ Latest \in Nat
      BY LatestFacts DEF Blocks
    <2>2. b \in Committed => b <= Latest
      BY LatestFacts
    <2>3. b \notin Committed
      BY <1>1, <2>1, <2>2
    <2> QED BY <2>3 DEF Committed
  <1>4. root \in [Blocks -> RootOrNone]
    BY DEF IInv, TypeOK
  <1>5. RootsStay /\ root'[b] = r /\ root' \in [Blocks -> RootOrNone]
    BY <1>1, <1>2, <1>3, <1>4 DEF RootsStay, RootOrNone
  <1>6. UNCHANGED <<row, eb, orphans, local, db, sub, pc, lastProcessedBlock, ev,
                    overlay, leaves, stale, leaf, stats>>
    BY DEF CommitRoot, database, batch
  <1>7. EventsAreCommits'
    BY <1>1, <1>2, <1>5, EmitIsCommit
  <1>8. OrphansOfTheRoot'
    <2>1. ASSUME NEW tx \in orphans PROVE tx.block \in Blocks /\ OfTheRoot(tx)
      BY DEF IInv, TypeOK, Calls, OrphansOfTheRoot
    <2> QED BY <1>5, <1>6, <2>1 DEF OrphansOfTheRoot, OfTheRoot, RootsStay
  <1>9. TypeOK'
    BY <1>5, <1>6 DEF IInv, TypeOK
  <1> QED BY <1>5, <1>6, <1>7, <1>8, <1>9, BatchUntouched DEF batch

LEMMA RepeatEventIInv ==
    ASSUME IInv, RepeatEvent, UNCHANGED ctxDone PROVE IInv'
  <1>1. UNCHANGED <<root, row, eb, orphans, local, db, sub, pc, lastProcessedBlock, ev,
                    overlay, leaves, stale, leaf, stats>>
    BY DEF RepeatEvent, database, batch
  <1>2. Latest \in Committed
    BY LatestCommitted DEF RepeatEvent
  <1>3. Latest \in Blocks /\ root[Latest] \in Roots
    BY <1>2 DEF Committed, IInv, TypeOK, RootOrNone
  <1>4. RootsStay
    BY <1>1 DEF RootsStay
  <1>5. EventsAreCommits'
    <2>1. Emit(Latest, root[Latest]) /\ root'[Latest] = root[Latest]
      BY <1>1 DEF RepeatEvent
    <2> QED BY <1>3, <1>4, <2>1, EmitIsCommit
  <1>6. OrphansOfTheRoot'
    BY <1>1 DEF IInv, OrphansOfTheRoot, OfTheRoot
  <1>7. TypeOK'
    BY <1>1 DEF IInv, TypeOK
  <1> QED BY <1>1, <1>4, <1>5, <1>6, <1>7, BatchUntouched DEF batch

\* Execute changes one cluster's row and balance, within their types.
LEMMA ExecuteTypes ==
    ASSUME IInv, NEW c \in Clusters, NEW x \in Balances, Execute(c, x)
    PROVE  /\ row' \in [Clusters -> [ver : Nat, active : BOOLEAN]]
           /\ eb' \in [Clusters -> Balances]
  <1>1. /\ row \in [Clusters -> [ver : Nat, active : BOOLEAN]]
        /\ eb \in [Clusters -> Balances]
    BY DEF IInv, TypeOK
  <1>2. PICK a \in BOOLEAN : row' = [row EXCEPT ![c] = [ver |-> @.ver + 1, active |-> a]]
    BY DEF Execute
  <1>3. [ver |-> row[c].ver + 1, active |-> a] \in [ver : Nat, active : BOOLEAN]
    BY <1>1
  <1> QED BY <1>1, <1>2, <1>3 DEF Execute

LEMMA MoveClusterIInv ==
    ASSUME IInv, MoveCluster, UNCHANGED ctxDone PROVE IInv'
  <1>1. UNCHANGED <<root, eb, orphans, local, db, sub, events, pc, lastProcessedBlock,
                    ev, overlay, leaves, stale, leaf, stats>>
    BY DEF MoveCluster, database, batch
  <1>2. row' \in [Clusters -> [ver : Nat, active : BOOLEAN]]
    <2>1. row \in [Clusters -> [ver : Nat, active : BOOLEAN]]
      BY DEF IInv, TypeOK
    <2>2. PICK c \in Clusters, a \in BOOLEAN :
             row' = [row EXCEPT ![c] = [ver |-> @.ver + 1, active |-> a]]
      BY DEF MoveCluster
    <2>3. [ver |-> row[c].ver + 1, active |-> a] \in [ver : Nat, active : BOOLEAN]
      BY <2>1
    <2> QED BY <2>1, <2>2, <2>3
  <1>3. TypeOK'
    BY <1>1, <1>2 DEF IInv, TypeOK
  <1>4. EventsAreCommits' /\ OrphansOfTheRoot' /\ RootsStay
    BY <1>1, ContractUntouched
  <1> QED BY <1>1, <1>3, <1>4, BatchUntouched DEF batch

LEMMA OtherUpdateIInv ==
    ASSUME IInv, OtherUpdate, UNCHANGED ctxDone PROVE IInv'
  <1>1. UNCHANGED <<root, orphans, local, db, sub, events, pc, lastProcessedBlock,
                    ev, overlay, leaves, stale, leaf, stats>>
    BY DEF OtherUpdate, database, batch
  <1>2. PICK c \in Clusters : /\ Committed # {} /\ c \in DOMAIN root[Latest]
                              /\ Execute(c, root[Latest][c])
    BY DEF OtherUpdate
  <1>3. Latest \in Committed
    BY <1>2, LatestCommitted
  <1>4. root[Latest] \in Roots
    BY <1>3 DEF Committed, IInv, TypeOK, RootOrNone
  <1>5. root[Latest][c] \in Balances
    BY <1>2, <1>4, RootFacts
  <1>6. /\ row' \in [Clusters -> [ver : Nat, active : BOOLEAN]]
        /\ eb' \in [Clusters -> Balances]
    BY <1>2, <1>5, ExecuteTypes
  <1>7. TypeOK'
    BY <1>1, <1>6 DEF IInv, TypeOK
  <1>8. EventsAreCommits' /\ OrphansOfTheRoot' /\ RootsStay
    BY <1>1, ContractUntouched
  <1> QED BY <1>1, <1>7, <1>8, BatchUntouched DEF batch

LEMMA MineOrphanIInv ==
    ASSUME IInv, MineOrphan, UNCHANGED ctxDone PROVE IInv'
  <1>1. UNCHANGED <<root, local, db, sub, events, pc, lastProcessedBlock,
                    ev, overlay, leaves, stale, leaf, stats>>
    BY DEF MineOrphan, database, batch
  <1>2. PICK tx \in orphans : /\ orphans' = orphans \ {tx}
                              /\ \/ Execute(tx.cluster, tx.eb)
                                 \/ UNCHANGED <<row, eb>>
    BY DEF MineOrphan
  <1>3. tx.cluster \in Clusters /\ tx.eb \in Balances
    BY DEF IInv, TypeOK, Calls
  <1>4. /\ row' \in [Clusters -> [ver : Nat, active : BOOLEAN]]
        /\ eb' \in [Clusters -> Balances]
    <2>1. CASE Execute(tx.cluster, tx.eb)
      BY <1>3, <2>1, ExecuteTypes
    <2>2. CASE UNCHANGED <<row, eb>>
      BY <2>2 DEF IInv, TypeOK
    <2> QED BY <1>2, <2>1, <2>2
  <1>5. TypeOK'
    BY <1>1, <1>2, <1>4 DEF IInv, TypeOK
  <1>6. EventsAreCommits'
    BY <1>1 DEF IInv, EventsAreCommits
  <1>7. OrphansOfTheRoot'
    BY <1>1, <1>2 DEF IInv, OrphansOfTheRoot, OfTheRoot
  <1>8. RootsStay
    BY <1>1 DEF RootsStay
  <1> QED BY <1>1, <1>5, <1>6, <1>7, <1>8, BatchUntouched DEF batch

\* A commit is stored for a block above all that have one.
LEMMA StoreCommitIInv ==
    ASSUME IInv, StoreCommit, UNCHANGED ctxDone PROVE IInv'
  <1>1. UNCHANGED <<root, row, eb, orphans, db, sub, events, pc, lastProcessedBlock,
                    ev, overlay, leaves, stale, leaf, stats>>
    BY DEF StoreCommit, contract, batch
  <1>2. PICK b \in Blocks : /\ \A d \in Blocks : local[d] # NoRoot => d < b
                            /\ local' = [local EXCEPT ![b] = RootAt[b]]
    BY DEF StoreCommit
  <1>3. local[b] = NoRoot
    <2>1. b \in Nat /\ ~(b < b)
      BY DEF Blocks
    <2> QED BY <1>2, <2>1
  <1>4. local \in [Blocks -> RootOrNone] /\ RootAt[b] \in Roots
    BY UpdaterAssumption DEF IInv, TypeOK
  <1>5. /\ local' \in [Blocks -> RootOrNone]
        /\ \A d \in Blocks : local[d] # NoRoot => local'[d] = local[d]
    BY <1>2, <1>3, <1>4 DEF RootOrNone
  <1>6. TypeOK'
    BY <1>1, <1>5 DEF IInv, TypeOK
  <1>7. EventsAreCommits' /\ OrphansOfTheRoot' /\ RootsStay
    BY <1>1, ContractUntouched
  <1> QED BY <1>1, <1>5, <1>6, <1>7, BatchUntouched DEF batch

LEMMA SyncIInv ==
    ASSUME IInv, Sync, UNCHANGED ctxDone PROVE IInv'
  <1>1. UNCHANGED <<root, row, eb, orphans, local, sub, events, pc, lastProcessedBlock,
                    ev, overlay, leaves, stale, leaf, stats>>
    BY DEF Sync, contract, batch
  <1>2. db' \in [Clusters -> Nat]
    BY DEF Sync, IInv, TypeOK
  <1>3. TypeOK'
    BY <1>1, <1>2 DEF IInv, TypeOK
  <1>4. EventsAreCommits' /\ OrphansOfTheRoot' /\ RootsStay
    BY <1>1, ContractUntouched
  <1> QED BY <1>1, <1>3, <1>4, BatchUntouched DEF batch

LEMMA DisconnectIInv ==
    ASSUME IInv, Disconnect, UNCHANGED ctxDone PROVE IInv'
  <1>1. UNCHANGED <<root, row, eb, orphans, local, db, events, pc, lastProcessedBlock,
                    ev, overlay, leaves, stale, leaf, stats>>
    BY DEF Disconnect, contract, database, batch
  <1>2. TypeOK'
    BY <1>1 DEF IInv, TypeOK, Disconnect
  <1>3. EventsAreCommits' /\ OrphansOfTheRoot' /\ RootsStay
    BY <1>1, ContractUntouched
  <1> QED BY <1>1, <1>2, <1>3, BatchUntouched DEF batch

-----------------------------------------------------------------------------
(* What a step does to the batch.                                          *)

\* The types of the batch.
BatchTypes ==
    /\ pc \in {"subscribe", "listen"} \cup Handling
    /\ leaves \subseteq Clusters /\ stale \subseteq Clusters
    /\ stats \in Statistics /\ leaf \in Calls \cup {NoTx}
    /\ leaf = NoTx <=> pc \notin Calling

\* The part of the invariant that is about the batch.
BatchInv ==
    /\ BatchTypes /\ EventIsCommit /\ NothingLeft /\ LeavesOfRoot /\ CallOfLeaf
    /\ Passes /\ Tally

\* A step that changes nothing but the batch, perhaps lastProcessedBlock, and
\* perhaps the clusters.
LEMMA OnlyBatch ==
    ASSUME IInv, BatchInv', UNCHANGED <<root, local, db, sub, events, ctxDone>>,
           OrphansOfTheRoot', orphans' \subseteq Calls,
           row' \in [Clusters -> [ver : Nat, active : BOOLEAN]],
           eb' \in [Clusters -> Balances], lastProcessedBlock' \in 0..MaxBlock
    PROVE  IInv'
  <1>1. TypeOK'
    BY DEF IInv, TypeOK, BatchInv, BatchTypes, Handling, Calling
  <1>2. EventsAreCommits'
    BY DEF IInv, EventsAreCommits
  <1> QED BY <1>1, <1>2 DEF IInv, BatchInv

\* The same when the contract is not changed either.
LEMMA OnlyBatchQuiet ==
    ASSUME IInv, BatchInv',
           UNCHANGED <<root, row, eb, orphans, local, db, sub, events, ctxDone>>,
           lastProcessedBlock' \in 0..MaxBlock
    PROVE  IInv'
  <1>1. OrphansOfTheRoot'
    BY DEF IInv, OrphansOfTheRoot, OfTheRoot
  <1>2. /\ orphans' \subseteq Calls
        /\ row' \in [Clusters -> [ver : Nat, active : BOOLEAN]]
        /\ eb' \in [Clusters -> Balances]
    BY DEF IInv, TypeOK
  <1> QED BY <1>1, <1>2, OnlyBatch

\* Outside a batch only the event in hand matters.
LEMMA OutsideBatch ==
    ASSUME pc' \in {"subscribe", "listen", "lookup", "lookup again"},
           overlay' = NoOverlay, leaves' = {}, stale' = {}, leaf' = NoTx,
           stats' = NoStats,
           pc' \in Handling => ev' \in Commits /\ root'[ev'.block] = ev'.root
    PROVE  BatchInv'
  <1>1. pc' \notin Processing /\ pc' \notin Calling
        /\ pc' \in {"subscribe", "listen"} \cup Handling
    BY DEF Processing, Calling, Handling
  <1>2. stats' \in Statistics
    BY DEF NoStats, Statistics
  <1>3. BatchTypes'
    BY <1>1, <1>2 DEF BatchTypes
  <1>4. EventIsCommit'
    BY <1>1 DEF EventIsCommit
  <1>5. Passes'
    BY <1>1 DEF Passes, FirstPass, Processing, Handling
  <1> QED BY <1>1, <1>3, <1>4, <1>5
          DEF BatchInv, NothingLeft, LeavesOfRoot, CallOfLeaf, Tally

\* Outside a batch there is no leaf in hand.
LEMMA NoLeafOutside ==
    ASSUME IInv, pc \notin Processing
    PROVE  /\ overlay = NoOverlay /\ leaves = {} /\ stale = {} /\ leaf = NoTx
           /\ stats = NoStats
  <1>1. overlay = NoOverlay /\ leaves = {} /\ stale = {} /\ stats = NoStats
    BY DEF IInv, NothingLeft
  <1>2. leaf = NoTx
    BY DEF IInv, TypeOK, Processing, Handling
  <1> QED BY <1>1, <1>2

\* The leaf in hand is done: the leaves of the next step.
LEMMA NextLeafBatch ==
    ASSUME IInv, pc \in Calling, UNCHANGED <<root, local, ctxDone>>,
           NEW st, NEW rest, rest \subseteq leaves, st \subseteq DOMAIN ev.root,
           st \cap rest = {}, FirstPass \/ st = {}, NextLeaf(st, rest),
           stats' \in Statistics
    PROVE  /\ BatchTypes' /\ EventIsCommit' /\ NothingLeft' /\ LeavesOfRoot'
           /\ CallOfLeaf' /\ Passes'
           /\ leaves' = rest /\ stale' = st /\ ev' = ev
           /\ rest = {} /\ st = {} => pc' = "finish"
  <1>1. /\ ev \in Commits /\ root[ev.block] = ev.root /\ local[ev.block] = ev.root
        /\ leaves \subseteq DOMAIN ev.root
    BY CallOfTheRoot
  <1>2. /\ leaves' = rest /\ stale' = st /\ leaf' = NoTx /\ ev' = ev
        /\ overlay' = overlay
    BY DEF NextLeaf
  <1>3. pc' = IF rest # {} THEN "leaf"
              ELSE IF FirstPass /\ st # {} THEN "overlay" ELSE "finish"
    BY DEF NextLeaf
  <1>4. /\ pc' \in {"leaf", "overlay", "finish"}
        /\ pc' = "overlay" => rest = {}
        /\ pc' = "finish" => rest = {} /\ st = {}
        /\ rest = {} /\ st = {} => pc' = "finish"
    BY <1>3
  <1>5. pc' \in Handling /\ pc' \in Processing /\ pc' \notin Calling
    BY <1>4 DEF Handling, Processing, Calling
  <1>6. DOMAIN ev.root \subseteq Clusters
    <2>1. ev.root \in Roots
      BY <1>1 DEF Commits
    <2> QED BY <2>1, RootFacts
  <1>7. BatchTypes'
    BY <1>1, <1>2, <1>5, <1>6 DEF BatchTypes
  <1>8. EventIsCommit'
    BY <1>1, <1>2 DEF EventIsCommit
  <1>9. NothingLeft' /\ CallOfLeaf'
    BY <1>5 DEF NothingLeft, CallOfLeaf
  <1>10. LeavesOfRoot'
    BY <1>1, <1>2 DEF LeavesOfRoot
  <1>11. Passes'
    <2>1. ~FirstPass => \A c \in leaves : overlay[c] \in Nat
      BY DEF IInv, Passes
    <2> QED BY <1>2, <1>4, <2>1 DEF Passes, FirstPass
  <1> QED BY <1>2, <1>4, <1>7, <1>8, <1>9, <1>10, <1>11

\* Before the step: the tally, and the sizes of the two sets of leaves.
LEMMA TallyOfCall ==
    ASSUME IInv, pc \in Calling
    PROVE  /\ IsFiniteSet(leaves) /\ IsFiniteSet(stale)
           /\ stats \in Statistics /\ ~stats.rotated /\ Counted \in Nat
           /\ Cardinality(DOMAIN ev.root) \in Nat
           /\ AllLeaves(Counted + Cardinality(leaves) + Cardinality(stale))
  <1>1. /\ ev \in Commits /\ leaves \subseteq DOMAIN ev.root
        /\ stale \subseteq DOMAIN ev.root /\ pc \in Processing
    BY CallOfTheRoot
  <1>2. IsFiniteSet(DOMAIN ev.root) /\ Cardinality(DOMAIN ev.root) \in Nat
    <2>1. ev.root \in Roots
      BY <1>1 DEF Commits
    <2> QED BY <2>1, RootFacts, FS_CardinalityType
  <1>3. IsFiniteSet(leaves) /\ IsFiniteSet(stale)
    BY <1>1, <1>2, FS_Subset
  <1>4. stats \in Statistics
    BY DEF IInv, TypeOK
  <1>5. Counted \in Nat
    BY <1>4 DEF Statistics, Counted
  <1>6. pc # "finish"
    BY DEF Calling
  <1>7. ~stats.rotated /\ AllLeaves(Counted + Cardinality(leaves) + Cardinality(stale))
    BY <1>1, <1>6 DEF IInv, Tally
  <1> QED BY <1>2, <1>3, <1>4, <1>5, <1>7

\* A leaf that is updated, skipped or failed is counted once.
LEMMA LeafDoneBatch ==
    ASSUME IInv, pc \in Calling, UNCHANGED <<root, local, ctxDone>>,
           NEW field \in {"updated", "skipped", "failed"}, LeafDone(field)
    PROVE  BatchInv'
  <1> DEFINE c    == leaf.cluster
             rest == leaves \ {c}
  <1>1. /\ c \in leaves /\ stale \subseteq DOMAIN ev.root /\ leaves \cap stale = {}
    BY CallOfTheRoot
  <1>2. /\ IsFiniteSet(leaves) /\ IsFiniteSet(stale)
        /\ stats \in Statistics /\ ~stats.rotated /\ Counted \in Nat
        /\ Cardinality(DOMAIN ev.root) \in Nat
        /\ AllLeaves(Counted + Cardinality(leaves) + Cardinality(stale))
    BY TallyOfCall
  <1>3. stats' \in Statistics /\ Counted' = Counted + 1 /\ ~stats'.rotated
    <2>1. stats' = [stats EXCEPT ![field] = @ + 1]
      BY DEF LeafDone
    <2> QED BY <1>2, <2>1 DEF Statistics, Counted
  <1>4. FirstPass \/ stale = {}
    BY DEF IInv, Passes
  <1>5. /\ BatchTypes' /\ EventIsCommit' /\ NothingLeft' /\ LeavesOfRoot'
        /\ CallOfLeaf' /\ Passes'
        /\ leaves' = rest /\ stale' = stale /\ ev' = ev
    <2>1. NextLeaf(stale, rest)
      BY DEF LeafDone
    <2>2. rest \subseteq leaves /\ stale \cap rest = {}
      BY <1>1
    <2> HIDE DEF rest
    <2> QED BY <1>1, <1>3, <1>4, <2>1, <2>2, NextLeafBatch
  <1>6. /\ Cardinality(rest) \in Nat /\ Cardinality(stale) \in Nat
        /\ Cardinality(leaves) = Cardinality(rest) + 1
    BY <1>1, <1>2, OneLess, FS_CardinalityType
  <1> HIDE DEF rest
  <1>7. Counted' + Cardinality(rest) + Cardinality(stale)
           = Counted + Cardinality(leaves) + Cardinality(stale)
    BY <1>2, <1>3, <1>6
  <1>8. AllLeaves(Counted + Cardinality(leaves) + Cardinality(stale))'
    BY <1>2, <1>5, <1>7 DEF AllLeaves
  <1>9. Tally'
    BY <1>3, <1>8 DEF Tally
  <1> QED BY <1>5, <1>9 DEF BatchInv

\* A leaf found stale in the first pass is put aside, and not counted.
LEMMA LeafStaleBatch ==
    ASSUME IInv, pc \in Calling, UNCHANGED <<root, local, ctxDone>>, FirstPass, LeafStale
    PROVE  BatchInv'
  <1> DEFINE c    == leaf.cluster
             rest == leaves \ {c}
             st   == stale \cup {c}
  <1>1. /\ c \in leaves /\ stale \subseteq DOMAIN ev.root /\ leaves \cap stale = {}
        /\ leaves \subseteq DOMAIN ev.root
    BY CallOfTheRoot
  <1>2. /\ IsFiniteSet(leaves) /\ IsFiniteSet(stale)
        /\ stats \in Statistics /\ ~stats.rotated /\ Counted \in Nat
        /\ Cardinality(DOMAIN ev.root) \in Nat
        /\ AllLeaves(Counted + Cardinality(leaves) + Cardinality(stale))
    BY TallyOfCall
  <1>3. stats' = stats
    BY DEF LeafStale
  <1>4. /\ BatchTypes' /\ EventIsCommit' /\ NothingLeft' /\ LeavesOfRoot'
        /\ CallOfLeaf' /\ Passes'
        /\ leaves' = rest /\ stale' = st /\ ev' = ev
    <2>1. NextLeaf(st, rest) /\ stats' \in Statistics
      BY <1>2, <1>3 DEF LeafStale
    <2>2. rest \subseteq leaves /\ st \cap rest = {} /\ st \subseteq DOMAIN ev.root
      BY <1>1
    <2> HIDE DEF rest, st
    <2> QED BY <2>1, <2>2, NextLeafBatch
  <1>5. /\ Cardinality(rest) \in Nat /\ Cardinality(leaves) = Cardinality(rest) + 1
    BY <1>1, <1>2, OneLess
  <1>6. /\ Cardinality(stale) \in Nat /\ Cardinality(st) = Cardinality(stale) + 1
    <2>1. c \notin stale
      BY <1>1
    <2> QED BY <1>2, <2>1, OneMore
  <1> HIDE DEF rest, st
  <1>7. Counted + Cardinality(rest) + Cardinality(st)
           = Counted + Cardinality(leaves) + Cardinality(stale)
    BY <1>2, <1>5, <1>6
  <1>8. Counted' = Counted /\ ~stats'.rotated
    BY <1>2, <1>3 DEF Counted
  <1>9. AllLeaves(Counted + Cardinality(leaves) + Cardinality(stale))'
    BY <1>2, <1>4, <1>7, <1>8 DEF AllLeaves
  <1>10. Tally'
    BY <1>8, <1>9 DEF Tally
  <1> QED BY <1>4, <1>10 DEF BatchInv

\* A batch is cut short only when a later root was committed.
LEMMA BatchRotatedBatch ==
    ASSUME IInv, pc \in Calling, UNCHANGED <<root, local, ctxDone>>, Superseded, BatchRotated
    PROVE  BatchInv'
  <1>1. leaf.cluster \in leaves
    BY CallOfTheRoot
  <1>2. /\ IsFiniteSet(leaves) /\ IsFiniteSet(stale)
        /\ stats \in Statistics /\ Counted \in Nat
        /\ Cardinality(DOMAIN ev.root) \in Nat
        /\ AllLeaves(Counted + Cardinality(leaves) + Cardinality(stale))
    BY TallyOfCall
  <1>3. stats' = [updated |-> stats.updated, skipped |-> stats.skipped + 1,
                  failed |-> stats.failed, rotated |-> TRUE]
    BY DEF BatchRotated
  <1>4. stats' \in Statistics /\ Counted' = Counted + 1 /\ stats'.rotated
    BY <1>2, <1>3 DEF Statistics, Counted
  <1>5. /\ BatchTypes' /\ EventIsCommit' /\ NothingLeft' /\ LeavesOfRoot'
        /\ CallOfLeaf' /\ Passes' /\ ev' = ev /\ pc' = "finish"
    <2>1. NextLeaf({}, {})
      BY DEF BatchRotated
    <2>2. /\ {} \subseteq leaves /\ {} \subseteq DOMAIN ev.root /\ {} \cap {} = {}
      OBVIOUS
    <2> QED BY <1>4, <2>1, <2>2, NextLeafBatch
  <1>6. Superseded'
    BY <1>5 DEF Superseded, Committed
  <1>7. Counted' <= Cardinality(DOMAIN ev.root)
    <2>1. /\ Cardinality(leaves) \in Nat /\ Cardinality(leaves \ {leaf.cluster}) \in Nat
          /\ Cardinality(leaves) = Cardinality(leaves \ {leaf.cluster}) + 1
      BY <1>1, <1>2, OneLess
    <2>2. Cardinality(stale) \in Nat
      BY <1>2, FS_CardinalityType
    <2>3. Counted + Cardinality(leaves) + Cardinality(stale) <= Cardinality(DOMAIN ev.root)
      BY <1>2, <2>1, <2>2 DEF AllLeaves
    <2> QED BY <1>2, <1>4, <2>1, <2>2, <2>3
  <1>8. Tally'
    BY <1>4, <1>5, <1>6, <1>7 DEF Tally
  <1> QED BY <1>5, <1>8 DEF BatchInv

\* A leaf whose call reverted, for whatever reason.
LEMMA LeafRevertsBatch ==
    ASSUME IInv, pc \in Calling, UNCHANGED <<root, local, ctxDone>>, NEW reason,
           reason \in {"MustUseLatestRoot", "RootNotFound"} => Superseded,
           LeafReverts(reason)
    PROVE  BatchInv'
  <1>1. CASE LeafDone("failed") \/ LeafDone("skipped")
    BY <1>1, LeafDoneBatch
  <1>2. CASE FirstPass /\ LeafStale
    BY <1>2, LeafStaleBatch
  <1>3. CASE reason \in {"MustUseLatestRoot", "RootNotFound"} /\ BatchRotated
    BY <1>3, BatchRotatedBatch
  <1> QED BY <1>1, <1>2, <1>3 DEF LeafReverts

-----------------------------------------------------------------------------
(* The steps of the updater.                                               *)

\* Only the orphans outlive the process.
LEMMA RestartIInv ==
    ASSUME IInv, Restart, \A tx \in orphans' : tx \in Calls /\ OfTheRoot(tx)
    PROVE  IInv'
  <1>1. /\ UNCHANGED <<root, row, eb, local, db>> /\ ctxDone' = FALSE
        /\ sub' = "off" /\ events' = <<>> /\ pc' = "subscribe"
        /\ lastProcessedBlock' = 0
        /\ overlay' = NoOverlay /\ leaves' = {} /\ stale' = {} /\ leaf' = NoTx
        /\ stats' = NoStats
    BY DEF Restart, Idle, database
  <1>2. BatchInv'
    <2>1. pc' \notin Handling
      BY <1>1 DEF Handling
    <2> QED BY <1>1, <2>1, OutsideBatch
  <1>3. orphans' \subseteq Calls /\ OrphansOfTheRoot'
    BY <1>1 DEF OrphansOfTheRoot, OfTheRoot
  <1>4. EventsAreCommits'
    BY <1>1 DEF EventsAreCommits
  <1>5. TypeOK'
    <2>1. lastProcessedBlock' \in 0..MaxBlock
      BY <1>1, UpdaterAssumption
    <2> QED BY <1>1, <1>2, <1>3, <2>1
            DEF IInv, TypeOK, BatchInv, BatchTypes, Handling, Calling
  <1> QED BY <1>2, <1>3, <1>4, <1>5 DEF IInv, BatchInv

LEMMA CrashIInv ==
    ASSUME IInv, Crash \/ Stop PROVE IInv'
  <1>1. pc = "await" => leaf \in Calls /\ OfTheRoot(leaf)
    BY CallOfTheRoot DEF Calling
  <1>2. \A tx \in orphans : tx \in Calls /\ OfTheRoot(tx)
    BY DEF IInv, TypeOK, OrphansOfTheRoot
  <1>3. Restart /\ \A tx \in orphans' : tx \in Calls /\ OfTheRoot(tx)
    BY <1>1, <1>2 DEF Crash, Stop
  <1> QED BY <1>3, RestartIInv

\* A batch that was complete up to now still is.
LEMMA CancelContextIInv ==
    ASSUME IInv, CancelContext PROVE IInv'
  <1>1. /\ UNCHANGED <<root, row, eb, orphans, local, db, sub, events, pc,
                       lastProcessedBlock, ev, overlay, leaves, stale, leaf, stats>>
        /\ ctxDone' = TRUE
    BY DEF CancelContext, contract, database, batch
  <1>2. TypeOK'
    BY <1>1 DEF IInv, TypeOK
  <1>3. EventsAreCommits' /\ OrphansOfTheRoot' /\ RootsStay
    BY <1>1, ContractUntouched
  <1> QED BY <1>1, <1>2, <1>3, BatchUntouched DEF batch

\* Subscribe and Resubscribe start with no events.
LEMMA SubscribeIInv ==
    ASSUME IInv, Subscribe \/ Resubscribe, UNCHANGED ctxDone PROVE IInv'
  <1>1. /\ UNCHANGED <<root, row, eb, orphans, local, db, lastProcessedBlock, ev,
                       overlay, leaves, stale, leaf, stats>>
        /\ events' = <<>> /\ sub' \in {"on", "off"}
        /\ pc \in {"subscribe", "listen"} /\ pc' \in {"subscribe", "listen"}
    BY DEF Subscribe, Resubscribe, contract, database, batch
  <1>2. pc \notin Processing /\ pc' \notin Handling
    BY <1>1 DEF Processing, Handling
  <1>3. BatchInv'
    <2>1. /\ overlay = NoOverlay /\ leaves = {} /\ stale = {} /\ leaf = NoTx
          /\ stats = NoStats
      BY <1>2, NoLeafOutside
    <2> QED BY <1>1, <1>2, <2>1, OutsideBatch
  <1>4. EventsAreCommits'
    BY <1>1 DEF EventsAreCommits
  <1>5. OrphansOfTheRoot'
    BY <1>1 DEF IInv, OrphansOfTheRoot, OfTheRoot
  <1>6. TypeOK'
    BY <1>1, <1>3 DEF IInv, TypeOK, BatchInv, BatchTypes, Handling, Calling
  <1> QED BY <1>3, <1>4, <1>5, <1>6 DEF IInv, BatchInv

LEMMA TakeEventIInv ==
    ASSUME IInv, TakeEvent, UNCHANGED ctxDone PROVE IInv'
  <1>1. /\ UNCHANGED <<root, row, eb, orphans, local, db, sub, lastProcessedBlock,
                       overlay, leaves, stale, leaf, stats>>
        /\ pc = "listen" /\ events # <<>> /\ events' = Tail(events)
    BY DEF TakeEvent, contract, database, batch
  <1>2. events \in Seq(Commits)
        /\ \A i \in 1..Len(events) : root[events[i].block] = events[i].root
    BY DEF IInv, EventsAreCommits
  <1>3. /\ Tail(events) \in Seq(Commits) /\ Len(events) \in Nat /\ Len(events) >= 1
        /\ Len(Tail(events)) = Len(events) - 1
        /\ \A k \in 1..(Len(events) - 1) : Tail(events)[k] = events[k + 1]
        /\ Head(events) = events[1] /\ events[1] \in Commits
    BY <1>1, <1>2, TailFacts
  <1>4. EventsAreCommits'
    <2>1. ASSUME NEW i \in 1..Len(events')
          PROVE  root'[events'[i].block] = events'[i].root
      <3>1. i \in 1..(Len(events) - 1) /\ i + 1 \in 1..Len(events)
        BY <1>1, <1>3
      <3>2. events'[i] = events[i + 1]
        BY <1>1, <1>3, <3>1
      <3> QED BY <1>1, <1>2, <3>1, <3>2
    <2> QED BY <1>1, <1>3, <2>1 DEF EventsAreCommits
  <1>5. BatchInv'
    <2>1. /\ overlay = NoOverlay /\ leaves = {} /\ stale = {} /\ leaf = NoTx
          /\ stats = NoStats
      <3>1. pc \notin Processing
        BY <1>1 DEF Processing, Handling
      <3> QED BY <3>1, NoLeafOutside
    <2>2. \/ pc' = "listen"
          \/ pc' = "lookup" /\ ev' = Head(events)
      BY <1>1 DEF TakeEvent
    <2>3. pc' \in Handling => ev' \in Commits /\ root'[ev'.block] = ev'.root
      <3>1. 1 \in 1..Len(events)
        BY <1>3
      <3>2. root[events[1].block] = events[1].root
        BY <1>2, <3>1
      <3>3. pc' = "listen" => pc' \notin Handling
        BY DEF Handling
      <3> QED BY <1>1, <1>3, <2>2, <3>2, <3>3
    <2> QED BY <1>1, <2>1, <2>2, <2>3, OutsideBatch
  <1>6. OrphansOfTheRoot'
    BY <1>1 DEF IInv, OrphansOfTheRoot, OfTheRoot
  <1>7. TypeOK'
    BY <1>1, <1>5 DEF IInv, TypeOK, BatchInv, BatchTypes, Handling, Calling
  <1> QED BY <1>4, <1>5, <1>6, <1>7 DEF IInv, BatchInv

\* The commit of the event is looked up: only one of the event's root is
\* processed, starting with all its leaves.
LEMMA LookupCommitIInv ==
    ASSUME IInv, LookupCommit, UNCHANGED ctxDone PROVE IInv'
  <1> DEFINE r == local[ev.block]
  <1>1. UNCHANGED <<root, row, eb, orphans, local, db, sub, events, lastProcessedBlock>>
    BY DEF LookupCommit, contract, database
  <1>2. /\ pc \in {"lookup", "lookup again"} /\ pc \in Handling /\ pc \notin Processing
    BY DEF LookupCommit, Handling, Processing
  <1>3. /\ overlay = NoOverlay /\ leaves = {} /\ stale = {} /\ leaf = NoTx
        /\ stats = NoStats
    BY <1>2, NoLeafOutside
  <1>4. ev \in Commits /\ root[ev.block] = ev.root /\ ev.root \in Roots
    BY <1>2 DEF IInv, EventIsCommit, Commits
  <1>5. ASSUME Drop PROVE BatchInv'
    <2>1. /\ pc' = "listen" /\ overlay' = NoOverlay /\ leaves' = {} /\ stale' = {}
          /\ leaf' = NoTx /\ stats' = NoStats
      BY <1>5 DEF Drop, Idle
    <2>2. pc' \notin Handling
      BY <2>1 DEF Handling
    <2> QED BY <2>1, <2>2, OutsideBatch
  <1>6. ASSUME r = ev.root, ev' = ev, overlay' = overlay, stale' = stale, leaf' = leaf,
               stats' = stats, leaves' = DOMAIN r, pc' \in {"leaf", "finish"},
               pc' = "finish" => DOMAIN r = {}
        PROVE  BatchInv'
    <2>1. pc' \in Processing /\ pc' \in Handling /\ pc' \notin Calling
      BY <1>6 DEF Processing, Handling, Calling
    <2>2. DOMAIN r \subseteq Clusters /\ IsFiniteSet(DOMAIN r)
      BY <1>4, <1>6, RootFacts
    <2>3. stats \in Statistics /\ Counted = 0 /\ ~stats.rotated
      BY <1>3 DEF NoStats, Statistics, Counted
    <2>4. BatchTypes'
      BY <1>3, <1>6, <2>1, <2>2, <2>3 DEF BatchTypes
    <2>5. EventIsCommit'
      BY <1>1, <1>4, <1>6 DEF EventIsCommit
    <2>6. NothingLeft' /\ CallOfLeaf'
      BY <2>1 DEF NothingLeft, CallOfLeaf
    <2>7. LeavesOfRoot'
      BY <1>3, <1>6 DEF LeavesOfRoot
    <2>8. Passes'
      BY <1>3, <1>6 DEF Passes, FirstPass
    <2>9. Cardinality(DOMAIN r) \in Nat
      BY <2>2, FS_CardinalityType
    <2>10. Counted' = 0 /\ ~stats'.rotated
      BY <1>6, <2>3 DEF Counted
    <2>11. Counted' + Cardinality(leaves') + Cardinality(stale')
             = Cardinality(DOMAIN ev'.root)
      <3>1. 0 + Cardinality(DOMAIN r) + 0 = Cardinality(DOMAIN r)
        BY <2>9
      <3>2. Cardinality(stale') = 0
        BY <1>3, <1>6, NoLeaves
      <3> QED BY <1>6, <2>10, <3>1, <3>2
    <2>12. Tally'
      <3>1. Cardinality(DOMAIN ev'.root) \in Nat
        BY <1>6, <2>9
      <3>2. AllLeaves(Counted + Cardinality(leaves) + Cardinality(stale))'
        BY <2>11, <3>1 DEF AllLeaves
      <3> QED BY <2>10, <3>2 DEF Tally
    <2> QED BY <2>4, <2>5, <2>6, <2>7, <2>8, <2>12 DEF BatchInv
  <1>7. ASSUME Found(r) PROVE BatchInv'
    <2>1. CASE r # ev.root
      BY <1>5, <1>7, <2>1 DEF Found
    <2>2. CASE r = ev.root /\ DOMAIN r = {}
      <3>1. pc' = "finish" /\ UNCHANGED <<ev, overlay, leaves, stale, leaf, stats>>
        BY <1>7, <2>2 DEF Found, batch
      <3> HIDE DEF r
      <3> QED BY <1>3, <1>6, <2>2, <3>1
    <2>3. CASE r = ev.root /\ DOMAIN r # {}
      <3>1. pc' = "leaf" /\ leaves' = DOMAIN r /\ UNCHANGED <<ev, overlay, stale, leaf, stats>>
        BY <1>7, <2>3 DEF Found
      <3> HIDE DEF r
      <3> QED BY <1>6, <2>3, <3>1
    <2> QED BY <2>1, <2>2, <2>3
  <1>8. CASE pc' = "lookup again" /\ UNCHANGED batch
    <2>1. UNCHANGED <<ev, overlay, leaves, stale, leaf, stats>>
      BY <1>8 DEF batch
    <2>2. BatchInv'
      BY <1>1, <1>3, <1>4, <1>8, <2>1, OutsideBatch
    <2> QED BY <1>1, <2>2, OnlyBatchQuiet DEF IInv, TypeOK
  <1>9. CASE Drop \/ Found(r)
    <2>1. BatchInv'
      BY <1>5, <1>7, <1>9
    <2> QED BY <1>1, <2>1, OnlyBatchQuiet DEF IInv, TypeOK
  <1> QED BY <1>8, <1>9 DEF LookupCommit

LEMMA TakeLeafIInv ==
    ASSUME IInv, TakeLeaf, UNCHANGED ctxDone PROVE IInv'
  <1>1. /\ UNCHANGED <<root, row, eb, orphans, local, db, sub, events,
                       lastProcessedBlock, ev, overlay, leaves, stale, stats>>
        /\ pc = "leaf" /\ pc' = "query"
    BY DEF TakeLeaf, contract, database
  <1>2. /\ pc \in Handling /\ pc \in Processing
        /\ pc' \in Handling /\ pc' \in Processing /\ pc' \in Calling
    BY <1>1 DEF Handling, Processing, Calling
  <1>3. ev \in Commits /\ ev.block \in Blocks /\ ev.root \in Roots
        /\ root[ev.block] = ev.root /\ local[ev.block] = ev.root
    BY <1>2 DEF IInv, EventIsCommit, Commits
  <1>4. PICK c \in leaves :
           leaf' = [block |-> ev.block, cluster |-> c, eb |-> local[ev.block][c],
                    ver |-> IF FirstPass THEN db[c] ELSE overlay[c]]
    BY DEF TakeLeaf
  <1>5. c \in DOMAIN ev.root /\ c \in Clusters /\ ev.root[c] \in Balances
    <2>1. c \in DOMAIN ev.root
      BY <1>2 DEF IInv, LeavesOfRoot
    <2> QED BY <1>3, <2>1, RootFacts
  <1>6. (IF FirstPass THEN db[c] ELSE overlay[c]) \in Nat
    BY <1>5 DEF IInv, TypeOK, Passes
  <1>7. leaf' \in Calls /\ leaf' # NoTx
    <2>1. leaf' \in Calls
      BY <1>3, <1>4, <1>5, <1>6 DEF Calls
    <2> QED BY <2>1, UpdaterAssumption
  <1>8. BatchTypes'
    BY <1>1, <1>2, <1>7 DEF BatchTypes, IInv, TypeOK
  <1>9. CallOfLeaf'
    BY <1>1, <1>3, <1>4 DEF CallOfLeaf
  <1>10. EventIsCommit' /\ NothingLeft' /\ LeavesOfRoot'
    BY <1>1, <1>2 DEF IInv, EventIsCommit, NothingLeft, LeavesOfRoot
  <1>11. Passes'
    BY <1>1 DEF IInv, Passes, FirstPass
  <1>12. Tally'
    <2>1. ~stats.rotated
      BY <1>1, <1>2 DEF IInv, Tally
    <2> QED BY <1>1, <1>2, <2>1 DEF IInv, Tally, Counted, AllLeaves
  <1>13. BatchInv'
    BY <1>8, <1>9, <1>10, <1>11, <1>12 DEF BatchInv
  <1> QED BY <1>1, <1>13, OnlyBatchQuiet DEF IInv, TypeOK

\* A loop that stops early leaves fewer leaves, which the cancelled context
\* allows.
LEMMA BreakLoopIInv ==
    ASSUME IInv, BreakLoop, UNCHANGED ctxDone PROVE IInv'
  <1>1. /\ UNCHANGED <<root, row, eb, orphans, local, db, sub, events,
                       lastProcessedBlock, ev, overlay, stale, stats>>
        /\ pc = "leaf" /\ ctxDone /\ leaves' = {} /\ leaf' = NoTx
        /\ pc' = IF FirstPass /\ stale # {} THEN "overlay" ELSE "finish"
    BY DEF BreakLoop, NextLeaf, contract, database
  <1>2. /\ pc \in Handling /\ pc \in Processing
        /\ pc' \in Handling /\ pc' \in Processing /\ pc' \notin Calling
        /\ pc' \in {"overlay", "finish"}
    BY <1>1 DEF Handling, Processing, Calling
  <1>3. BatchTypes'
    BY <1>1, <1>2 DEF BatchTypes, IInv, TypeOK
  <1>4. EventIsCommit' /\ NothingLeft' /\ LeavesOfRoot' /\ CallOfLeaf'
    BY <1>1, <1>2 DEF IInv, EventIsCommit, NothingLeft, LeavesOfRoot, CallOfLeaf
  <1>5. Passes'
    <2>1. ~FirstPass => stale = {}
      BY DEF IInv, Passes
    <2> QED BY <1>1, <2>1 DEF Passes, FirstPass
  <1>6. Tally'
    <2>1. ~stats.rotated /\ AllLeaves(Counted + Cardinality(leaves) + Cardinality(stale))
      BY <1>1, <1>2 DEF IInv, Tally
    <2>2. Counted \in Nat /\ leaves \subseteq Clusters /\ stale \subseteq Clusters
      <3>1. stats \in Statistics /\ leaves \subseteq Clusters /\ stale \subseteq Clusters
        BY DEF IInv, TypeOK
      <3> QED BY <3>1 DEF Statistics, Counted
    <2>3. IsFiniteSet(leaves) /\ IsFiniteSet(stale)
      BY <2>2, UpdaterAssumption, FS_Subset
    <2>4. Cardinality(leaves) \in Nat /\ Cardinality(stale) \in Nat
      BY <2>3, FS_CardinalityType
    <2>5. ev.root \in Roots
      BY <1>2 DEF IInv, EventIsCommit, Commits
    <2>6. Cardinality(DOMAIN ev.root) \in Nat
      BY <2>5, RootFacts, FS_CardinalityType
    <2>7. Counted + Cardinality(leaves) + Cardinality(stale) <= Cardinality(DOMAIN ev.root)
      BY <1>1, <2>1 DEF AllLeaves
    <2>8. Counted + 0 + Cardinality(stale) <= Cardinality(DOMAIN ev.root)
      BY <2>2, <2>4, <2>6, <2>7
    <2>9. Counted' = Counted /\ ~stats'.rotated
      BY <1>1, <2>1 DEF Counted
    <2>10. AllLeaves(Counted + Cardinality(leaves) + Cardinality(stale))'
      BY <1>1, <2>8, <2>9, NoLeaves DEF AllLeaves
    <2> QED BY <2>9, <2>10 DEF Tally
  <1>7. BatchInv'
    BY <1>3, <1>4, <1>5, <1>6 DEF BatchInv
  <1> QED BY <1>1, <1>7, OnlyBatchQuiet DEF IInv, TypeOK

\* The next stage of the call in hand.
LEMMA NextStage ==
    ASSUME IInv, pc \in Calling, pc' \in Calling, UNCHANGED batch, UNCHANGED <<root, local, ctxDone>>
    PROVE  BatchInv'
  <1>1. UNCHANGED <<ev, overlay, leaves, stale, leaf, stats>>
    BY DEF batch
  <1>2. /\ pc \in Handling /\ pc \in Processing /\ pc # "finish" /\ pc # "overlay"
        /\ pc' \in Handling /\ pc' \in Processing /\ pc' # "finish" /\ pc' # "overlay"
    BY DEF Handling, Processing, Calling
  <1>3. leaf # NoTx
    BY DEF IInv, TypeOK, Calling
  <1>4. BatchTypes'
    BY <1>1, <1>2, <1>3 DEF BatchTypes, IInv, TypeOK
  <1>5. EventIsCommit' /\ NothingLeft' /\ LeavesOfRoot' /\ CallOfLeaf'
    BY <1>1, <1>2 DEF IInv, EventIsCommit, NothingLeft, LeavesOfRoot, CallOfLeaf
  <1>6. Passes'
    BY <1>1, <1>2 DEF IInv, Passes, FirstPass
  <1>7. Tally'
    BY <1>1, <1>2 DEF IInv, Tally, Counted, AllLeaves
  <1> QED BY <1>4, <1>5, <1>6, <1>7 DEF BatchInv

\* The contract refuses the block of our call only for a later root.
LEMMA ReasonOfRotation ==
    ASSUME IInv, pc \in Calling, TxReason \in {"MustUseLatestRoot", "RootNotFound"}
    PROVE  Superseded
  <1>1. /\ leaf.block = ev.block /\ root[ev.block] = ev.root /\ ev.root # NoRoot
        /\ ev \in Commits
    BY CallOfTheRoot
  <1>2. ev.block \in Blocks /\ ev.block \in Committed
    BY <1>1 DEF Committed, Commits
  <1>3. StateReason(leaf.cluster, leaf.ver)
           \in {"IncorrectClusterState", "ClusterIsLiquidated", "ok"}
    BY DEF StateReason
  <1>4. ev.block # Latest
    BY <1>1, <1>3 DEF TxReason, UpdateReason
  <1>5. ev.block <= Latest /\ Latest \in Committed
    BY <1>2, LatestFacts, LatestCommitted
  <1>6. ev.block \in Nat /\ Latest \in Nat
    BY <1>2, <1>5, LatestFacts DEF Blocks
  <1>7. Latest > ev.block
    BY <1>4, <1>5, <1>6
  <1> QED BY <1>5, <1>7 DEF Superseded

LEMMA QueryBalanceIInv ==
    ASSUME IInv, QueryBalance, UNCHANGED ctxDone PROVE IInv'
  <1>1. /\ UNCHANGED <<root, row, eb, orphans, local, db, sub, events,
                       lastProcessedBlock>>
        /\ pc \in Calling
    BY DEF QueryBalance, contract, database, Calling
  <1> DEFINE reason == StateReason(leaf.cluster, leaf.ver)
  <1>2. reason \notin {"MustUseLatestRoot", "RootNotFound"}
    BY DEF StateReason
  <1>3. CASE LeafReverts(reason)
    <2> HIDE DEF reason
    <2>1. BatchInv'
      BY <1>1, <1>2, <1>3, LeafRevertsBatch
    <2> QED BY <1>1, <2>1, OnlyBatchQuiet DEF IInv, TypeOK
  <1>4. CASE LeafDone("skipped")
    <2>1. BatchInv'
      BY <1>1, <1>4, LeafDoneBatch
    <2> QED BY <1>1, <2>1, OnlyBatchQuiet DEF IInv, TypeOK
  <1>5. CASE pc' = "send" /\ UNCHANGED batch
    <2>1. pc' \in Calling
      BY <1>5 DEF Calling
    <2>2. BatchInv'
      BY <1>1, <1>5, <2>1, NextStage
    <2> QED BY <1>1, <2>2, OnlyBatchQuiet DEF IInv, TypeOK
  <1> HIDE DEF reason
  <1>6. LeafReverts(reason) \/ LeafDone("skipped") \/ (pc' = "send" /\ UNCHANGED batch)
    BY DEF QueryBalance, reason
  <1> QED BY <1>3, <1>4, <1>5, <1>6

LEMMA SendUpdateIInv ==
    ASSUME IInv, SendUpdate, UNCHANGED ctxDone PROVE IInv'
  <1>1. /\ UNCHANGED <<root, row, eb, orphans, local, db, sub, events,
                       lastProcessedBlock>>
        /\ pc \in Calling
    BY DEF SendUpdate, contract, database, Calling
  <1>2. CASE pc' = "await" /\ UNCHANGED batch
    <2>1. pc' \in Calling
      BY <1>2 DEF Calling
    <2>2. BatchInv'
      BY <1>1, <1>2, <2>1, NextStage
    <2> QED BY <1>1, <2>2, OnlyBatchQuiet DEF IInv, TypeOK
  <1>3. CASE LeafReverts(TxReason)
    <2>1. TxReason \in {"MustUseLatestRoot", "RootNotFound"} => Superseded
      BY <1>1, ReasonOfRotation
    <2>2. BatchInv'
      BY <1>1, <1>3, <2>1, LeafRevertsBatch
    <2> QED BY <1>1, <2>2, OnlyBatchQuiet DEF IInv, TypeOK
  <1>4. CASE LeafReverts("other")
    <2>1. BatchInv'
      BY <1>1, <1>4, LeafRevertsBatch
    <2> QED BY <1>1, <2>1, OnlyBatchQuiet DEF IInv, TypeOK
  <1> QED BY <1>2, <1>3, <1>4 DEF SendUpdate

LEMMA MineUpdateIInv ==
    ASSUME IInv, MineUpdate, UNCHANGED ctxDone PROVE IInv'
  <1>1. /\ UNCHANGED <<root, orphans, local, db, sub, events, lastProcessedBlock>>
        /\ pc \in Calling
    BY DEF MineUpdate, database, Calling
  <1>2. leaf \in Calls
    BY <1>1, CallOfTheRoot
  <1>3. OrphansOfTheRoot' /\ orphans' \subseteq Calls
    BY <1>1 DEF IInv, TypeOK, OrphansOfTheRoot, OfTheRoot
  <1>4. CASE Execute(leaf.cluster, leaf.eb) /\ LeafDone("updated")
    <2>1. leaf.cluster \in Clusters /\ leaf.eb \in Balances
      BY <1>2 DEF Calls
    <2>2. /\ row' \in [Clusters -> [ver : Nat, active : BOOLEAN]]
          /\ eb' \in [Clusters -> Balances]
      BY <1>4, <2>1, ExecuteTypes
    <2>3. BatchInv'
      BY <1>1, <1>4, LeafDoneBatch
    <2> QED BY <1>1, <1>3, <2>2, <2>3, OnlyBatch DEF IInv, TypeOK
  <1>5. CASE UNCHANGED <<row, eb>> /\ LeafReverts(TxReason)
    <2>1. TxReason \in {"MustUseLatestRoot", "RootNotFound"} => Superseded
      BY <1>1, ReasonOfRotation
    <2>2. BatchInv'
      BY <1>1, <1>5, <2>1, LeafRevertsBatch
    <2> QED BY <1>1, <1>5, <2>2, OnlyBatchQuiet DEF IInv, TypeOK
  <1> QED BY <1>4, <1>5 DEF MineUpdate

LEMMA LeafFailsIInv ==
    ASSUME IInv, LeafFails, UNCHANGED ctxDone PROVE IInv'
  <1>1. /\ UNCHANGED <<root, row, eb, local, db, sub, events, lastProcessedBlock>>
        /\ pc \in Calling /\ LeafDone("failed")
    BY DEF LeafFails, database, Calling
  <1>2. leaf \in Calls /\ OfTheRoot(leaf)
    BY <1>1, CallOfTheRoot
  <1>3. orphans' \subseteq Calls /\ OrphansOfTheRoot'
    <2>1. \A tx \in orphans : tx \in Calls /\ OfTheRoot(tx)
      BY DEF IInv, TypeOK, OrphansOfTheRoot
    <2>2. \A tx \in orphans' : tx \in Calls /\ OfTheRoot(tx)
      BY <1>2, <2>1 DEF LeafFails
    <2> QED BY <1>1, <2>2 DEF OrphansOfTheRoot, OfTheRoot
  <1>4. BatchInv'
    BY <1>1, LeafDoneBatch
  <1> QED BY <1>1, <1>3, <1>4, OnlyBatch DEF IInv, TypeOK

\* The stale leaves become the leaves of the second pass, or all fail.
LEMMA BuildOverlayIInv ==
    ASSUME IInv, BuildOverlay, UNCHANGED ctxDone PROVE IInv'
  <1>1. /\ UNCHANGED <<root, row, eb, orphans, local, db, sub, events,
                       lastProcessedBlock, ev, leaf>>
        /\ pc = "overlay" /\ stale' = {} /\ pc' \in {"leaf", "finish"}
    BY DEF BuildOverlay, contract, database
  <1>2. /\ pc \in Handling /\ pc \in Processing /\ pc \notin Calling
        /\ pc' \in Handling /\ pc' \in Processing /\ pc' \notin Calling
    BY <1>1 DEF Handling, Processing, Calling
  <1>3. /\ ev \in Commits /\ root[ev.block] = ev.root /\ local[ev.block] = ev.root
        /\ stale \subseteq DOMAIN ev.root /\ leaves = {}
    BY <1>1, <1>2 DEF IInv, EventIsCommit, LeavesOfRoot, Passes
  <1>4. stale \subseteq Clusters /\ stats \in Statistics /\ leaf = NoTx
    BY <1>1 DEF IInv, TypeOK
  <1>5. IsFiniteSet(stale) /\ Cardinality(stale) \in Nat
    <2>1. IsFiniteSet(Clusters)
      BY UpdaterAssumption
    <2>2. IsFiniteSet(stale)
      BY <1>4, <2>1, FS_Subset
    <2> QED BY <2>2, FS_CardinalityType
  <1>6. /\ Counted \in Nat /\ ~stats.rotated
        /\ AllLeaves(Counted + Cardinality(stale))
    <2>1. Counted \in Nat
      BY <1>4 DEF Statistics, Counted
    <2>2. /\ ~stats.rotated
          /\ AllLeaves(Counted + Cardinality(leaves) + Cardinality(stale))
      BY <1>1, <1>2 DEF IInv, Tally
    <2>3. Counted + 0 + Cardinality(stale) = Counted + Cardinality(stale)
      BY <1>5, <2>1
    <2> QED BY <1>3, <2>1, <2>2, <2>3, NoLeaves
  <1>7. EventIsCommit' /\ NothingLeft' /\ CallOfLeaf'
    BY <1>1, <1>2, <1>3 DEF EventIsCommit, NothingLeft, CallOfLeaf
  <1>8. CASE /\ overlay' = [c \in stale |-> row[c].ver]
             /\ leaves' = stale /\ pc' = "leaf" /\ UNCHANGED stats
    <2>1. BatchTypes'
      BY <1>1, <1>2, <1>4, <1>8 DEF BatchTypes
    <2>2. LeavesOfRoot'
      BY <1>1, <1>3, <1>8 DEF LeavesOfRoot
    <2>3. Passes'
      <3>1. \A c \in stale : overlay'[c] \in Nat
        BY <1>4, <1>8 DEF IInv, TypeOK
      <3> QED BY <1>1, <1>8, <3>1 DEF Passes
    <2>4. Tally'
      <3>1. Counted' = Counted /\ ~stats'.rotated
        BY <1>6, <1>8 DEF Counted
      <3>2. Counted + Cardinality(stale) + 0 = Counted + Cardinality(stale)
        BY <1>5, <1>6
      <3>3. AllLeaves(Counted + Cardinality(leaves) + Cardinality(stale))'
        BY <1>1, <1>6, <1>8, <3>1, <3>2, NoLeaves DEF AllLeaves
      <3> QED BY <3>1, <3>3 DEF Tally
    <2>5. BatchInv'
      BY <1>7, <2>1, <2>2, <2>3, <2>4 DEF BatchInv
    <2> QED BY <1>1, <2>5, OnlyBatchQuiet DEF IInv, TypeOK
  <1>9. CASE /\ stats' = [stats EXCEPT !.failed = @ + Cardinality(stale)]
             /\ pc' = "finish" /\ UNCHANGED <<overlay, leaves>>
    <2>1. stats' \in Statistics /\ ~stats'.rotated
          /\ Counted' = Counted + Cardinality(stale)
      BY <1>4, <1>5, <1>6, <1>9 DEF Statistics, Counted
    <2>2. BatchTypes'
      BY <1>1, <1>2, <1>3, <1>4, <1>9, <2>1 DEF BatchTypes
    <2>3. LeavesOfRoot'
      BY <1>1, <1>3, <1>9 DEF LeavesOfRoot
    <2>4. Passes'
      BY <1>1, <1>3, <1>9 DEF Passes
    <2>5. Tally'
      <3>1. Counted' + 0 + 0 = Counted'
        BY <1>5, <1>6, <2>1
      <3>2. AllLeaves(Counted + Cardinality(leaves) + Cardinality(stale))'
        BY <1>1, <1>3, <1>6, <1>9, <2>1, <3>1, NoLeaves DEF AllLeaves
      <3> QED BY <2>1, <3>2 DEF Tally
    <2>6. BatchInv'
      BY <1>7, <2>2, <2>3, <2>4, <2>5 DEF BatchInv
    <2> QED BY <1>1, <2>6, OnlyBatchQuiet DEF IInv, TypeOK
  <1> QED BY <1>8, <1>9 DEF BuildOverlay

LEMMA FinishIInv ==
    ASSUME IInv, Finish, UNCHANGED ctxDone PROVE IInv'
  <1>1. /\ UNCHANGED <<root, row, eb, orphans, local, db, sub, events>>
        /\ pc = "finish" /\ pc' = "listen" /\ lastProcessedBlock' = ev.block
        /\ overlay' = NoOverlay /\ leaves' = {} /\ stale' = {} /\ leaf' = NoTx
        /\ stats' = NoStats
    BY DEF Finish, Idle, contract, database
  <1>2. pc \in Handling /\ pc' \notin Handling
    BY <1>1 DEF Handling
  <1>3. lastProcessedBlock' \in 0..MaxBlock
    <2>1. ev.block \in 1..MaxBlock
      BY <1>2 DEF IInv, EventIsCommit, Commits, Blocks
    <2> QED BY <1>1, <2>1
  <1>4. BatchInv'
    BY <1>1, <1>2, OutsideBatch
  <1> QED BY <1>1, <1>3, <1>4, OnlyBatchQuiet

-----------------------------------------------------------------------------
(* Every step preserves the invariant.                                     *)

LEMMA NextIInv ==
    ASSUME IInv, [Next]_vars PROVE IInv'
  <1>1. CASE Environment
    BY <1>1, CommitRootIInv, RepeatEventIInv, MoveClusterIInv, OtherUpdateIInv,
       MineOrphanIInv, StoreCommitIInv, SyncIInv, DisconnectIInv, CancelContextIInv, CrashIInv
       DEF Environment
  <1>2. CASE Listen
    BY <1>2, SubscribeIInv, TakeEventIInv, CrashIInv DEF Listen
  <1>3. CASE Handle
    BY <1>3, LookupCommitIInv, TakeLeafIInv, BreakLoopIInv, QueryBalanceIInv, SendUpdateIInv,
       MineUpdateIInv, LeafFailsIInv, BuildOverlayIInv, FinishIInv DEF Handle
  <1>4. CASE UNCHANGED vars
    <2>1. /\ UNCHANGED <<root, row, eb, orphans, local, db, sub, events, ctxDone, pc,
                         lastProcessedBlock, ev, overlay, leaves, stale, leaf, stats>>
      BY <1>4 DEF vars
    <2>2. TypeOK'
      BY <2>1 DEF IInv, TypeOK
    <2>3. EventsAreCommits' /\ OrphansOfTheRoot' /\ RootsStay
      BY <2>1, ContractUntouched
    <2> QED BY <2>1, <2>2, <2>3, BatchUntouched DEF batch
  <1> QED BY <1>1, <1>2, <1>3, <1>4 DEF Next

\* The inductive invariant holds in every reachable state.
THEOREM UpdaterInvariant == Spec => []IInv
  BY InitIInv, NextIInv, PTL DEF Spec

-----------------------------------------------------------------------------

\* Contract, tables, subscription and batch keep their types.
THEOREM UpdaterTypeCorrect == Spec => []TypeOK
  BY UpdaterInvariant, PTL DEF IInv

\* Every transaction of ours, in hand or given up on, carries the balance that
\* the committed root of its block has for its cluster (handleEvent,
\* processCommit), whatever the other oracles committed and when.
THEOREM UpdaterProofsAreOfTheRoot == Spec => []ProofsAreOfTheRoot
  BY UpdaterInvariant, IInvProofs, PTL

\* Every leaf of a processed commit is counted exactly once through both
\* passes; a batch ends early, with leaves not counted but none counted twice,
\* only if a later root was committed or the context was cancelled
\* (processAllClusters, processCommit).
THEOREM UpdaterAccountsForLeaves == Spec => []LeavesAccounted
  BY UpdaterInvariant, IInvLeaves, PTL

=============================================================================
