---------------------------- MODULE MCCommitApi -----------------------------
(* Four clusters: a  changed balance, a cluster that leaves and one that    *)
(* joins between the first commits; none of them between the last two.      *)
EXTENDS CommitApi

MCBalancesAt == << (1 :> 1 @@ 2 :> 1 @@ 4 :> 1), (1 :> 2 @@ 3 :> 1 @@ 4 :> 1),
                   (1 :> 2 @@ 3 :> 1 @@ 4 :> 1) >>

MCHashRank == [e \in ClusterIds \X Balances |-> (5 * e[1] + 2 * e[2]) % 11]

MCRootOf == [b \in Blocks |-> buildTree(MCBalancesAt[b]).Root]

=============================================================================
