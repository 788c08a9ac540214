---------------------------- MODULE MCHeadState -----------------------------
(* A chain for the head state: several events of one cluster in one block   *)
(* and across blocks, an unknown event, a cluster first seen late, and an   *)
(* event near the end that does not decode.                                 *)
EXTENDS HeadState

Ev(b, kind, c, r) == [block |-> b, kind |-> kind, cluster |-> c, key |-> "k1", row |-> r]

MCLog == << Ev(2, "ValidatorAdded", "c1", "r1"),
            Ev(3, "ClusterUpdated", "c1", "r2"),
            Ev(3, "ClusterUpdated", "c1", "r1"),
            Ev(3, "ValidatorAdded", "c2", "r1"),
            Ev(4, "Unknown",        "c2", "r2"),
            Ev(5, "ClusterUpdated", "c1", "r2"),
            Ev(5, "ValidatorAdded", "c3", "r1"),
            Ev(5, "ClusterUpdated", "c2", "r2"),
            Ev(6, "Malformed",      "c3", "r2") >>

=============================================================================
