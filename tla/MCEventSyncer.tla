--------------------------- MODULE MCEventSyncer ---------------------------
(* A small chain for the event syncer: two logs in one block, a validator   *)
(* added, removed and added again, the same key in a second cluster, a      *)
(* liquidation, an unknown event, and a handled event that does not decode. *)
EXTENDS EventSyncer

Ev(b, kind, c, k, r) == [block |-> b, kind |-> kind, cluster |-> c, key |-> k, row |-> r]

MCLog == << Ev(2, "ValidatorAdded",   "c1", "k1", "active"),
            Ev(2, "ValidatorRemoved", "c1", "k1", "inactive"),
            Ev(3, "ValidatorAdded",   "c1", "k1", "active"),
            Ev(3, "ValidatorAdded",   "c2", "k1", "active"),
            Ev(5, "Unknown",          "c2", "k1", "active"),
            Ev(5, "ClusterUpdated",   "c1", "k1", "inactive"),
            Ev(6, "Malformed",        "c2", "k1", "active") >>

=============================================================================
