----------------------------- MODULE MerkleBuild ----------------------------
(***************************************************************************)
(* A map of balances and the trees built from it (MerkleTree): by the      *)
(* oracle for a commit, and again from the stored balances by the updater  *)
(* and the HTTP API.  Proofs only read the tree.                           *)
(***************************************************************************)
EXTENDS MerkleTree

CONSTANT NoTree  \* nothing was built yet

VARIABLES balances, tree

treeVars == <<balances, tree>>

TreeInit == balances \in BalanceMaps /\ tree = NoTree

\* A map is iterated in any order, another one each time.
Build == /\ \E entries \in SetToSeqs(EntriesOf(balances)) : tree' = NewTree(entries)
         /\ UNCHANGED balances

TreeSpec == TreeInit /\ [][Build]_treeVars

-----------------------------------------------------------------------------
(* Properties.                                                             *)

\* The root binds the whole map: it opens to exactly the entries of the map,
\* for every number of leaves, odd layers included, so no two maps have one
\* root (NewTree, hashLevel, HashLeaf).
RootBinds == tree # NoTree => Opened(tree.Root) = EntriesOf(balances)

\* A tree rebuilt from the same map has the same root, in whatever order the
\* map is iterated: what the updater and the API rebuild from the stored
\* balances is the root that was committed (NewTree).
RebuildSameRoot == [][tree # NoTree => tree'.Root = tree.Root]_treeVars

\* Every proof verifies for its own leaf, and for no other entry a cluster
\* could claim (GetProof, sibling).
ProofsVerify ==
    tree # NoTree => \A c \in DOMAIN balances :
        LET proof == GetProof(tree, c) IN
        \A e \in Entries :
            ProcessProof(HashLeaf(e), proof) = tree.Root <=> e = <<c, balances[c]>>

=============================================================================
