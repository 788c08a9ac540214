----------------------------- MODULE MCUpdater ------------------------------
(* Two clusters: the first commit covers both, the second changes one of   *)
(* them and the balance of the other; the odd root differs from each.      *)
EXTENDS Updater, TLC

MCRootAt == << ("c1" :> 2 @@ "c2" :> 1), ("c1" :> 1 @@ "c2" :> 2) >>

MCOddRoot == ("c1" :> 2)

=============================================================================
