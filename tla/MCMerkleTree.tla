---------------------------- MODULE MCMerkleTree ----------------------------
(* Clusters are numbers; an order of leaf hashes that follows neither the   *)
(* clusters nor the balances.                                               *)
EXTENDS MerkleBuild

MCHashRank == [e \in Entries |-> (5 * e[1] + e[2]) % 17]

=============================================================================
