----------------------------- MODULE MerkleTree -----------------------------
(***************************************************************************)
(* The tree over cluster balances (merkle/tree.go, merkle/encoding.go),    *)
(* built by the oracle for a commit and again, from the stored balances,   *)
(* by the updater and the HTTP API, which then ask it for proofs.          *)
(*                                                                         *)
(* Hashes are terms: a hash is what was hashed, so two hashes are equal    *)
(* only when their preimages are.  hashPair sorts its arguments, so a pair *)
(* is a set, and a hash paired with itself is a singleton.  The order of   *)
(* leaf hashes is an arbitrary injection HashRank.                         *)
(***************************************************************************)
EXTENDS Integers, Sequences, FiniteSets, SequencesExt

CONSTANTS
    ClusterIds,  \* clusters that may be in a tree
    Balances,    \* effective balances they may have
    HashRank     \* position of each leaf hash in the order of bytes.Compare

Entries == ClusterIds \X Balances

ASSUME RankAssumption ==
    /\ IsFiniteSet(ClusterIds) /\ IsFiniteSet(Balances)
    /\ HashRank \in [Entries -> Nat]
    /\ \A x, y \in Entries : HashRank[x] = HashRank[y] => x = y

\* The map handed to NewTree.
BalanceMaps == UNION {[S -> Balances] : S \in SUBSET ClusterIds}

EntriesOf(m) == {<<c, m[c]>> : c \in DOMAIN m}

-----------------------------------------------------------------------------
(* Hashes.                                                                 *)

\* Keccak256 of nothing: the root of the empty tree.
EmptyHash == [leaf |-> {}, pair |-> {}]

HashLeaf(e) == [leaf |-> {e}, pair |-> {}]

hashPair(a, b) == [leaf |-> {}, pair |-> {a, b}]

-----------------------------------------------------------------------------
(* NewTree.                                                                *)

HashBefore(x, y) == HashRank[x] < HashRank[y]

\* Mutant: the leaves stay in the order of the map's iteration.
sortLeavesNot(entries) == entries

\* The entry of S whose hash comes first.
FirstOf(S) == CHOOSE e \in S : \A x \in S : ~HashBefore(x, e)

\* The entries of S, k of them, in order: each is the first of those that are left.
firstLeaves(S) ==
    LET sorted[k \in 0..Cardinality(S)] ==
            IF k = 0 THEN <<>>
            ELSE Append(sorted[k - 1], FirstOf(S \ ToSet(sorted[k - 1])))
    IN  sorted

sortLeaves(entries) == firstLeaves(ToSet(entries))[Len(entries)]

\* Mutant: an odd node at the end of a layer gets no parent.
hashLevelDropsOdd(hs) == [i \in 1..(Len(hs) \div 2) |-> hashPair(hs[2*i - 1], hs[2*i])]

\* Mutant: an odd node moves up as it is.
hashLevelPromotes(hs) ==
    [i \in 1..((Len(hs) + 1) \div 2) |->
        IF 2*i <= Len(hs) THEN hashPair(hs[2*i - 1], hs[2*i]) ELSE hs[2*i - 1]]

\* Parents of a layer; an odd node at the end is paired with itself.
hashLevel(hs) ==
    [i \in 1..((Len(hs) + 1) \div 2) |->
        hashPair(hs[2*i - 1], IF 2*i <= Len(hs) THEN hs[2*i] ELSE hs[2*i - 1])]

\* The layers over the leaf hashes: layer k has the parents of layer k - 1.
layersOver(hs) ==
    LET layer[k \in 0..Len(hs)] == IF k = 0 THEN hs ELSE hashLevel(layer[k - 1])
    IN  layer

\* The layers up to the first of length 1.
buildLayers(hs) ==
    LET layer == layersOver(hs)
        top   == CHOOSE k \in 0..Len(hs) :
                     Len(layer[k]) = 1 /\ \A j \in 0..(k - 1) : Len(layer[j]) > 1
    IN  [k \in 1..(top + 1) |-> layer[k - 1]]

leafHashes(leaves) == [i \in 1..Len(leaves) |-> HashLeaf(leaves[i])]

\* The tree of the entries of a map, given in the order of its iteration.
NewTree(entries) ==
    LET leaves == sortLeaves(entries)
        layers == buildLayers(leafHashes(leaves))
    IN  IF Len(entries) = 0
        THEN [Root |-> EmptyHash, leaves |-> <<>>, layers |-> <<>>]
        ELSE IF Len(entries) = 1
        THEN [Root |-> HashLeaf(leaves[1]), leaves |-> leaves, layers |-> <<>>]
        ELSE [Root |-> layers[Len(layers)][1], leaves |-> leaves, layers |-> layers]

-----------------------------------------------------------------------------
(* GetProof.  Positions count from 0, as in the code.                      *)

findLeaf(t, c) == (CHOOSE i \in DOMAIN t.leaves : t.leaves[i][1] = c) - 1

sibling(hs, idx) ==
    IF idx % 2 = 1 THEN hs[idx]
    ELSE IF idx + 1 < Len(hs) THEN hs[idx + 2] ELSE hs[idx + 1]

\* The position of the leaf's ancestor in each layer.
ancestors(t, c) ==
    LET idx[k \in 0..Len(t.layers)] == IF k = 0 THEN findLeaf(t, c) ELSE idx[k - 1] \div 2
    IN  idx

\* One sibling for every layer below the root; a single leaf needs none.
GetProof(t, c) ==
    LET idx == ancestors(t, c)
        proof[k \in 0..Len(t.layers)] ==
            IF k = 0 THEN <<>> ELSE Append(proof[k - 1], sibling(t.layers[k], idx[k - 1]))
    IN  IF Len(t.layers) = 0 THEN <<>> ELSE proof[Len(t.layers) - 1]

-----------------------------------------------------------------------------
(* What the contract computes from a leaf and a proof.                     *)

ProcessProof(leafHash, proof) ==
    LET h[k \in 0..Len(proof)] == IF k = 0 THEN leafHash ELSE hashPair(h[k - 1], proof[k])
    IN  h[Len(proof)]

-----------------------------------------------------------------------------
(* What a root commits to: the entries reached by opening its pairs.  A    *)
(* tree is at most as high as it has leaves.                               *)

openPairs(hs) == UNION {IF h.pair = {} THEN {h} ELSE h.pair : h \in hs}

Opened(root) ==
    LET open[n \in 0..Cardinality(ClusterIds)] ==
            IF n = 0 THEN {root} ELSE openPairs(open[n - 1])
    IN  UNION {h.leaf : h \in open[Cardinality(ClusterIds)]}

=============================================================================
